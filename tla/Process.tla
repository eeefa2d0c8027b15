------------------------------- MODULE Process -------------------------------
(***************************************************************************)
(* The life of one operator pod: main (src/src/cert_publisher/main.py),    *)
(* Controller.start, stop, healthy and the worker's loop with its table of *)
(* passes in flight (controller.py), the liveness endpoint (health.py),    *)
(* and the kubelet that probes, stops and restarts the process.            *)
(*                                                                         *)
(* The queue is KeyedWork, which WorkQueue implements, and a watch is      *)
(* reduced to the clock healthy() reads and the keys it seeds.  A pass may *)
(* hang in a call with no timeout of its own, and so may a watch.          *)
(*                                                                         *)
(* Time is in units: Tick is the passing of one.  What the code does       *)
(* without waiting takes none, so Tick waits for it (Prompt); a pass or a  *)
(* call that does not hang ends within its bound (Bounded).                *)
(***************************************************************************)
EXTENDS Integers, FiniteSets, Functions

CONSTANTS Keys, NoKey,
          WorkerCount,
          Resources,        \* the watched resources
          Publications,     \* the one whose list seeds the queue
          MaxPass,          \* how long a pass that does not hang may take
          ReconcileTimeout, \* reconcile_timeout_seconds
          ShutdownTimeout,  \* shutdown_timeout_seconds
          GracePeriod,      \* the pod's terminationGracePeriodSeconds
          CallLimit,        \* watch_timeout_seconds + 30
          WatchLimit,       \* watch_timeout_seconds * 3 + 60
          MaxBackoff,       \* the longest wait after a failed watch
          MaxFaults         \* bounds the hangs, stops and crashes

\* The relations values.yaml asks for (66-77, 99-100).
ASSUME ProcessAssumption ==
         /\ NoKey \notin Keys
         /\ WorkerCount \in Nat \ {0}
         /\ Publications \in Resources
         /\ {MaxPass, ReconcileTimeout, ShutdownTimeout, GracePeriod, CallLimit,
             WatchLimit, MaxBackoff, MaxFaults} \subseteq Nat
         /\ MaxPass <= ReconcileTimeout
         /\ 0 < ShutdownTimeout /\ ShutdownTimeout < GracePeriod
         /\ 2 * CallLimit <= WatchLimit

Workers == 1 .. WorkerCount

VARIABLES main,      \* where the main thread is
          signal,    \* SIGTERM: none, one that was caught, one that was lost
          grace,     \* time until the kubelet sends SIGKILL
          left,      \* what is left of the join deadline
          joining,   \* the worker being joined
          alive,     \* still_running
          exit,      \* how the last process ended
          named,     \* the passes its last log line named
          wanted, scheduled, held, closed, \* the queue
          at,        \* where each worker is
          inFlight,  \* for how long each entered pass has run
          stuck,     \* workers hanging in a call that never returns
          call,      \* what each watch loop calls next
          quiet,     \* time since _last_healthy, which a failure puts in the future
          wait,      \* what is left of the backoff after a failure
          silent,    \* watches hanging in a call that never returns
          faults

mainVars == <<main, signal, grace, left, joining, alive>>
endVars == <<exit, named>>
queueVars == <<wanted, scheduled, held, closed>>
workVars == <<at, inFlight, stuck>>
watchVars == <<call, quiet, wait, silent>>
vars == <<mainVars, endVars, queueVars, workVars, watchVars, faults>>

Queue == INSTANCE KeyedWork WITH Consumers <- Workers, running <- held

NoTime == [w \in {} |-> 0]
InWorkers(s) == [w \in Workers |-> s]
InWatches(s) == [r \in Resources |-> s]

ProcessInit == /\ main = "boot" /\ exit = "none" /\ named = {}
               /\ signal = "none" /\ grace = GracePeriod
               /\ left = 0 /\ joining = 1 /\ alive = {}
               /\ Queue!Init
               /\ at = InWorkers("off") /\ inFlight = NoTime /\ stuck = {}
               /\ call = InWatches("list") /\ quiet = InWatches(0)
               /\ wait = InWatches(0) /\ silent = {}
               /\ faults = 0

\* Of a process that has ended nothing is left but how it ended: the next one
\* finds what ProcessInit finds.
End(e, n) == /\ main' = "exited" /\ exit' = e /\ named' = n
             /\ signal' = "none" /\ grace' = GracePeriod
             /\ left' = 0 /\ joining' = 1 /\ alive' = {}
             /\ wanted' = {} /\ scheduled' = {} /\ held' = InWorkers(NoKey) /\ closed' = FALSE
             /\ at' = InWorkers("off") /\ inFlight' = NoTime /\ stuck' = {}
             /\ call' = InWatches("list") /\ quiet' = InWatches(0)
             /\ wait' = InWatches(0) /\ silent' = {}

-----------------------------------------------------------------------------
Started == main \in {"waiting", "stopping", "joining", "reporting"}
Stopped == main \in {"stopping", "joining", "reporting"}  \* _stop_event is set

\* (Operators named Faulty... are bugs this code could have; they are part of no
\* specification and show that the properties would find them.)
\* Only the passes are looked at.
FaultyHealthy == Started => \A w \in DOMAIN inFlight : inFlight[w] <= ReconcileTimeout

\* Controller.healthy, which is all HealthServer's liveness endpoint checks.
Healthy == Started => /\ \A r \in Resources : quiet[r] <= WatchLimit
                      /\ \A w \in DOMAIN inFlight : inFlight[w] <= ReconcileTimeout

-----------------------------------------------------------------------------
\* The main thread.

\* signal.signal: until here SIGTERM does nothing, since the process is the
\* container's first and has no handler.
Arm == /\ main = "boot"
       /\ main' = "armed"
       /\ UNCHANGED <<signal, grace, left, joining, alive, endVars, queueVars, workVars,
                      watchVars, faults>>

\* Controller.start, which also starts every watch's silence clock.
StartThreads == /\ main = "armed"
                /\ main' = "waiting"
                /\ at' = InWorkers("idle")
                /\ quiet' = InWatches(0)
                /\ UNCHANGED <<signal, grace, left, joining, alive, endVars, queueVars,
                               inFlight, stuck, call, wait, silent, faults>>

\* stop_event.wait returns and Controller.stop sets its own event.
BeginStop == /\ main = "waiting" /\ signal = "caught"
             /\ main' = "stopping"
             /\ UNCHANGED <<signal, grace, left, joining, alive, endVars, queueVars, workVars,
                            watchVars, faults>>

\* The queue is shut down, the watches asked to stop and the deadline set.
CloseQueue == /\ main = "stopping"
              /\ Queue!Close
              /\ main' = "joining" /\ left' = ShutdownTimeout
              /\ UNCHANGED <<signal, grace, joining, alive, endVars, workVars, watchVars, faults>>

\* Every worker is given the whole timeout.
FaultyJoin == /\ main = "joining" /\ joining \in Workers
              /\ at[joining] = "dead" \/ left = 0
              /\ joining' = joining + 1 /\ left' = ShutdownTimeout
              /\ UNCHANGED <<main, signal, grace, alive, endVars, queueVars, workVars,
                             watchVars, faults>>

\* thread.join: the worker has ended, or the deadline all joins share has passed.
Join == /\ main = "joining" /\ joining \in Workers
        /\ at[joining] = "dead" \/ left = 0
        /\ joining' = joining + 1
        /\ UNCHANGED <<main, signal, grace, left, alive, endVars, queueVars, workVars,
                       watchVars, faults>>

\* _shutdown_code
ShutdownCode(drained) == IF drained THEN "0" ELSE "1"

Unended == {w \in Workers : at[w] # "dead"}

\* stop returns whether every worker has ended, and main exits with it.
Judge == /\ main = "joining" /\ joining \notin Workers
         /\ \/ Unended = {} /\ End(ShutdownCode(TRUE), {}) /\ UNCHANGED faults
            \/ /\ Unended # {}
               /\ alive' = Unended
               /\ main' = "reporting"
               /\ UNCHANGED <<signal, grace, left, joining, endVars, queueVars, workVars,
                              watchVars, faults>>

\* stop names what the workers still alive have in flight.
Report == /\ main = "reporting"
          /\ End(ShutdownCode(FALSE), {held[w] : w \in alive \cap DOMAIN inFlight})
          /\ UNCHANGED faults

-----------------------------------------------------------------------------
\* A worker.

Move(w, from, to) == at[w] = from /\ at' = [at EXCEPT ![w] = to]

\* get hands out a key.  It does not look at the stop event, the loop does.
Take(w, k) == /\ Move(w, "idle", "taken")
              /\ Queue!Start(w, k, {})
              /\ UNCHANGED <<mainVars, endVars, inFlight, stuck, watchVars, faults>>

\* The loop, between two keys, finds the event set.
Quit(w) == /\ Stopped /\ Move(w, "idle", "dead")
           /\ UNCHANGED <<mainVars, endVars, queueVars, inFlight, stuck, watchVars, faults>>

Enter(w) == /\ Move(w, "taken", "running")
            /\ inFlight' = [v \in DOMAIN inFlight \cup {w} |->
                              IF v = w THEN 0 ELSE inFlight[v]]
            /\ UNCHANGED <<mainVars, endVars, queueVars, stuck, watchVars, faults>>

\* A call to a host never returns.
Hang(w) == /\ at[w] = "running" /\ w \notin stuck
           /\ faults < MaxFaults
           /\ stuck' = stuck \cup {w} /\ faults' = faults + 1
           /\ UNCHANGED <<mainVars, endVars, queueVars, at, inFlight, watchVars>>

\* _reconcile returns: whatever the outcome, the key is due again later.
EndPass(w) == /\ w \notin stuck /\ Move(w, "running", "leaving")
              /\ \/ Queue!Schedule(held[w])
                 \/ closed /\ UNCHANGED queueVars
              /\ UNCHANGED <<mainVars, endVars, inFlight, stuck, watchVars, faults>>

\* The entry stays behind.
FaultyLeave(w) == /\ Move(w, "leaving", "releasing")
                  /\ UNCHANGED <<mainVars, endVars, queueVars, inFlight, stuck, watchVars, faults>>

Leave(w) == /\ Move(w, "leaving", "releasing")
            /\ inFlight' = Restrict(inFlight, DOMAIN inFlight \ {w})
            /\ UNCHANGED <<mainVars, endVars, queueVars, stuck, watchVars, faults>>

Release(w) == /\ Move(w, "releasing", "idle")
              /\ Queue!Finish(w)
              /\ UNCHANGED <<mainVars, endVars, inFlight, stuck, watchVars, faults>>

\* A delay runs out.
Lapse(k) == /\ Started /\ k \in scheduled
            /\ Queue!Fire({k})
            /\ UNCHANGED <<mainVars, endVars, workVars, watchVars, faults>>

-----------------------------------------------------------------------------
\* A watch.  Once the event is set the loops end as they come to it.

Calling(r) == main = "waiting" /\ wait[r] = 0 /\ r \notin silent

\* _sync: the list of publications schedules every one of them.
Listed(r) == /\ Calling(r) /\ call[r] = "list"
             /\ call' = [call EXCEPT ![r] = "watch"]
             /\ quiet' = [quiet EXCEPT ![r] = 0]
             /\ scheduled' = IF r = Publications THEN scheduled \cup Keys ELSE scheduled
             /\ UNCHANGED <<mainVars, endVars, wanted, held, closed, workVars, wait, silent, faults>>

Event(r) == /\ Calling(r) /\ call[r] = "watch"
            /\ quiet' = [quiet EXCEPT ![r] = 0]
            /\ \/ \E k \in Keys : Queue!Request(k)
               \/ UNCHANGED queueVars
            /\ UNCHANGED <<mainVars, endVars, workVars, call, wait, silent, faults>>

\* The apiserver closes the watch, which is resumed.
Resumed(r) == /\ Calling(r) /\ call[r] = "watch"
              /\ quiet' = [quiet EXCEPT ![r] = 0]
              /\ UNCHANGED <<mainVars, endVars, queueVars, workVars, call, wait, silent, faults>>

\* 410: relist, without counting as a sign of life.
Expired(r) == /\ Calling(r) /\ call[r] = "watch"
              /\ call' = [call EXCEPT ![r] = "list"]
              /\ UNCHANGED <<mainVars, endVars, queueVars, workVars, quiet, wait, silent, faults>>

\* The wait counts as silence.
FaultyFailed(r, d) ==
  /\ Calling(r)
  /\ \/ UNCHANGED call
     \/ call' = [call EXCEPT ![r] = "list"]
  /\ wait' = [wait EXCEPT ![r] = d]
  /\ quiet' = [quiet EXCEPT ![r] = 0]
  /\ UNCHANGED <<mainVars, endVars, queueVars, workVars, silent, faults>>

\* Any other failure, which may cost the position: back off, alive meanwhile.
Failed(r, d) == /\ Calling(r)
                /\ \/ UNCHANGED call
                   \/ call' = [call EXCEPT ![r] = "list"]
                /\ wait' = [wait EXCEPT ![r] = d]
                /\ quiet' = [quiet EXCEPT ![r] = -d]
                /\ UNCHANGED <<mainVars, endVars, queueVars, workVars, silent, faults>>

\* A call never returns: a list has no timeout.
Mute(r) == /\ Calling(r)
           /\ faults < MaxFaults
           /\ silent' = silent \cup {r} /\ faults' = faults + 1
           /\ UNCHANGED <<mainVars, endVars, queueVars, workVars, call, quiet, wait>>

-----------------------------------------------------------------------------
\* The kubelet, the node and the StatefulSet.

Signal == /\ signal' = IF main = "boot" THEN "lost" ELSE "caught"
          /\ UNCHANGED <<main, grace, left, joining, alive, endVars, queueVars, workVars,
                         watchVars>>

\* The liveness probe fails.
ProbeFails == /\ main # "exited" /\ signal = "none" /\ ~Healthy
              /\ Signal
              /\ UNCHANGED faults

\* The pod is deleted: a rollout, a drained node.
Terminate == /\ main # "exited" /\ signal = "none"
             /\ faults < MaxFaults /\ faults' = faults + 1
             /\ Signal

Kill == /\ main # "exited" /\ signal # "none" /\ grace = 0
        /\ End("killed", {})
        /\ UNCHANGED faults

Crash == /\ main # "exited"
         /\ faults < MaxFaults
         /\ End("crashed", {})
         /\ faults' = faults + 1

\* The StatefulSet's one replica, never beside another.
Restart == /\ main = "exited"
           /\ main' = "boot" /\ exit' = "none" /\ named' = {}
           /\ UNCHANGED <<signal, grace, left, joining, alive, queueVars, workVars, watchVars,
                          faults>>

-----------------------------------------------------------------------------
\* Code that does not wait is still to run.
Prompt == \/ main \in {"boot", "armed", "stopping", "reporting", "exited"}
          \/ main = "waiting" /\ signal = "caught"
          \/ main = "joining" /\ (joining \notin Workers \/ left = 0 \/ at[joining] = "dead")
          \/ \E w \in Workers : \/ at[w] \in {"taken", "leaving", "releasing"}
                                \/ closed /\ at[w] = "idle"
          \/ signal # "none" /\ grace = 0

Bounded == /\ \A w \in DOMAIN inFlight : w \in stuck \/ inFlight[w] < MaxPass
           /\ main = "waiting" =>
                \A r \in Resources : \/ r \in silent \/ wait[r] > 0
                                     \/ call[r] = "watch" /\ quiet[r] < CallLimit
                                     \/ call[r] = "list" /\ quiet[r] < 2 * CallLimit

\* Past every threshold a clock need not run on.
LastAge == IF ReconcileTimeout < ShutdownTimeout THEN ShutdownTimeout ELSE ReconcileTimeout
Older(n, limit) == IF n > limit THEN n ELSE n + 1
Less(n) == IF n > 0 THEN n - 1 ELSE 0

Tick == /\ ~Prompt /\ Bounded
        /\ inFlight' = [w \in DOMAIN inFlight |-> Older(inFlight[w], LastAge)]
        /\ quiet' = [r \in Resources |-> Older(quiet[r], WatchLimit)]
        /\ wait' = [r \in Resources |-> Less(wait[r])]
        /\ grace' = IF signal = "none" THEN grace ELSE Less(grace)
        /\ left' = Less(left)
        /\ UNCHANGED <<main, signal, joining, alive, endVars, queueVars, at, stuck, call,
                       silent, faults>>

MainStep == Arm \/ StartThreads \/ BeginStop \/ CloseQueue \/ Join \/ Judge \/ Report
WorkerStep(w) == Quit(w) \/ Enter(w) \/ EndPass(w) \/ Leave(w) \/ Release(w)
WatchStep(r) == \/ Listed(r) \/ Event(r) \/ Resumed(r) \/ Expired(r) \/ Mute(r)
                \/ \E d \in 1 .. MaxBackoff : Failed(r, d)

ProcessNext == \/ MainStep \/ Tick
               \/ \E w \in Workers : \/ WorkerStep(w) \/ Hang(w)
                                     \/ \E k \in Keys : Take(w, k)
               \/ \E k \in Keys : Lapse(k)
               \/ \E r \in Resources : WatchStep(r)
               \/ ProbeFails \/ Terminate \/ Kill \/ Crash \/ Restart

ProcessSafetySpec == ProcessInit /\ [][ProcessNext]_vars

\* Threads are scheduled and time passes; a delay runs out; a pass that does not
\* hang ends (Tick waits for it); a list attempted for ever succeeds in the end;
\* of the keys get could return none is passed over for ever (the queue is first
\* in, first out); the kubelet probes, kills and restarts.
ProcessSpec == /\ ProcessSafetySpec
               /\ WF_vars(MainStep) /\ SF_vars(Tick)
               /\ \A w \in Workers : WF_vars(WorkerStep(w))
               /\ \A k \in Keys : /\ WF_vars(Lapse(k))
                                  /\ SF_vars(\E w \in Workers : Take(w, k))
               /\ \A r \in Resources : SF_vars(Listed(r)) /\ WF_vars(WatchStep(r))
               /\ WF_vars(ProbeFails) /\ WF_vars(Kill) /\ WF_vars(Restart)

-----------------------------------------------------------------------------
MainPlaces == {"boot", "armed", "waiting", "stopping", "joining", "reporting", "exited"}

MainTypes ==
  /\ main \in MainPlaces /\ signal \in {"none", "caught", "lost"}
  /\ grace \in 0 .. GracePeriod /\ left \in 0 .. ShutdownTimeout
  /\ joining \in 1 .. WorkerCount + 1 /\ alive \subseteq Workers
  /\ exit \in {"none", "0", "1", "killed", "crashed"} /\ named \subseteq Keys
  /\ faults \in 0 .. MaxFaults

QueueTypes ==
  /\ wanted \subseteq Keys /\ scheduled \subseteq Keys /\ closed \in BOOLEAN
  /\ held \in [Workers -> Keys \cup {NoKey}]

WorkTypes ==
  /\ at \in [Workers -> {"off", "idle", "taken", "running", "leaving", "releasing", "dead"}]
  /\ DOMAIN inFlight \subseteq Workers
  /\ \A w \in DOMAIN inFlight : inFlight[w] \in 0 .. LastAge + 1 /\ held[w] \in Keys
  /\ stuck \subseteq DOMAIN inFlight

WatchTypes ==
  /\ call \in [Resources -> {"list", "watch"}]
  /\ quiet \in [Resources -> -MaxBackoff .. WatchLimit + 1]
  /\ wait \in [Resources -> 0 .. MaxBackoff]
  /\ silent \subseteq Resources

\* The variables have the types the code gives them, and a pass in the table is one of
\* a key its worker holds.
ProcessTypeOK == MainTypes /\ QueueTypes /\ WorkTypes /\ WatchTypes

\* A process that exits with 0 cuts no pass off; one that exits with 1 has named every
\* pass it cuts off, and had given each the whole shutdown timeout (main.py:81-91,
\* controller.py:483-523).  One that caught SIGTERM has come that far before the
\* kubelet kills it, however many of its workers hang.
EndsHonestly ==
  [][main # "exited" =>
       /\ exit' = "killed" => signal = "lost"
       /\ \A w \in Workers : at[w] = "running" =>
            /\ exit' # "0"
            /\ exit' = "1" => held[w] \in named' /\ inFlight[w] >= ShutdownTimeout]_vars

\* Liveness fails only for a pass or a watch that hangs, never for a slow pass, an
\* ended one, or a watch the apiserver keeps refusing (controller.py:238-244).
UnhealthyMeansHung == main = "waiting" /\ ~Healthy => stuck # {} \/ silent # {}

\* A pass starts for every publication again and again, whatever passes hang, watches
\* fall silent and pods are replaced meanwhile (controller.py:537-546).
EveryoneServed == \A k \in Keys : []<>(\E w \in Workers : at[w] = "taken" /\ held[w] = k)
=============================================================================
