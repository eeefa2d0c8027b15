---------------------------- MODULE ProcessProofs ----------------------------
(***************************************************************************)
(* Theorems about Process, for any number of workers and watches and any   *)
(* timeouts that stand in the relations ProcessAssumption names: how the   *)
(* process ends, and what its liveness probe means.                        *)
(***************************************************************************)
EXTENDS Process, TLAPS

\* A worker holds a key as long as it is past get, is in the table while it runs, and
\* hangs nowhere else.
Threads ==
  \A w \in Workers :
    /\ at[w] \in {"taken", "running", "leaving", "releasing"} => held[w] \in Keys
    /\ at[w] \in {"off", "idle", "dead"} => held[w] = NoKey
    /\ w \in DOMAIN inFlight <=> at[w] \in {"running", "leaving"}
    /\ w \in stuck => at[w] = "running"
    /\ at[w] = "off" <=> main \in {"boot", "armed", "exited"}
    /\ at[w] = "dead" => Stopped

\* How far main is with a signal, and what of the grace period it has left.
InTime ==
  /\ main # "exited" => exit = "none"
  /\ signal = "none" => grace = GracePeriod
  /\ main \in {"boot", "exited"} => signal # "caught"
  /\ Stopped => signal = "caught"
  /\ signal = "caught" /\ main \in {"armed", "waiting", "stopping"} => grace = GracePeriod
  /\ main = "joining" => grace + ShutdownTimeout >= GracePeriod + left
  /\ main = "reporting" => grace > 0
  /\ closed <=> main \in {"joining", "reporting"}
  /\ main \notin {"joining", "reporting"} => joining = 1

\* What is known of the workers while main joins them: one not joined to its end has
\* outlived the deadline, and every pass under way began before it was set.
Joined ==
  \A w \in Workers :
    /\ main = "joining" =>
         /\ w < joining => at[w] = "dead" \/ left = 0
         /\ at[w] = "taken" => left = ShutdownTimeout
         /\ at[w] = "running" => inFlight[w] + left >= ShutdownTimeout
    /\ main = "reporting" =>
         /\ at[w] # "dead" => w \in alive
         /\ at[w] # "taken"
         /\ at[w] = "running" => inFlight[w] >= ShutdownTimeout

\* Nothing that does not hang has been silent or under way for longer than it may.
Clocks ==
  /\ \A w \in DOMAIN inFlight : w \in stuck \/ inFlight[w] <= MaxPass
  /\ main = "waiting" =>
       \A r \in Resources \ silent :
         /\ quiet[r] <= IF call[r] = "watch" THEN CallLimit ELSE 2 * CallLimit
         /\ wait[r] > 0 => quiet[r] + wait[r] <= 0
  /\ main \in {"boot", "armed", "exited"} => wait = InWatches(0)

\* The inductive invariant.
ProcessInv == ProcessTypeOK /\ Threads /\ InTime /\ Joined /\ Clocks

-----------------------------------------------------------------------------

\* The constants, one by one.
LEMMA Constants ==
  /\ MaxPass \in Nat /\ ReconcileTimeout \in Nat /\ ShutdownTimeout \in Nat
  /\ GracePeriod \in Nat /\ CallLimit \in Nat /\ WatchLimit \in Nat
  /\ MaxBackoff \in Nat /\ MaxFaults \in Nat /\ WorkerCount \in Nat
  /\ MaxPass <= ReconcileTimeout /\ 2 * CallLimit <= WatchLimit
  /\ 0 < ShutdownTimeout /\ ShutdownTimeout < GracePeriod /\ 0 < WorkerCount
BY ProcessAssumption DEF ProcessAssumption

USE DEF mainVars, endVars, queueVars, workVars, watchVars

AnyWorker(w) == WorkerStep(w) \/ Hang(w) \/ \E k \in Keys : Take(w, k)

\* What a worker's step leaves alone.
LEMMA WorkerFrame ==
  ASSUME NEW w \in Workers, AnyWorker(w)
  PROVE  UNCHANGED <<mainVars, endVars, watchVars, closed>>
BY DEF AnyWorker, WorkerStep, Quit, Enter, EndPass, Leave, Release, Hang, Take,
       Queue!Schedule, Queue!Finish, Queue!Start

\* What a watch's step leaves alone, and when it is taken.
LEMMA WatchFrame ==
  ASSUME NEW r \in Resources, WatchStep(r)
  PROVE  UNCHANGED <<mainVars, endVars, workVars, held, closed>> /\ main = "waiting"
BY DEF WatchStep, Listed, Event, Resumed, Expired, Mute, Failed, Calling, Queue!Request

\* What an elapsed delay leaves alone.
LEMMA LapseFrame ==
  ASSUME NEW k \in Keys, Lapse(k)
  PROVE  UNCHANGED <<mainVars, endVars, workVars, watchVars, held, closed, faults>>
BY DEF Lapse, Queue!Fire

\* What judging does when it does not end the process.
LEMMA JudgeFrame ==
  ASSUME Judge, main' = "reporting"
  PROVE  /\ main = "joining" /\ joining \notin Workers
         /\ alive' = Unended
         /\ UNCHANGED <<signal, grace, left, joining, endVars, queueVars, workVars, watchVars,
                       faults>>
<1>1. main' # "exited"
  OBVIOUS
<1> QED
  BY <1>1 DEF Judge, End

\* Whatever ends the process, the next one finds nothing of it.
LEMMA EndInv ==
  ASSUME NEW e \in {"0", "1", "killed", "crashed"}, NEW n \in SUBSET Keys,
         End(e, n), faults' \in 0 .. MaxFaults
  PROVE  ProcessInv'
<1> USE Constants
<1>1. MainTypes'
  BY DEF End, MainTypes, MainPlaces
<1>2. QueueTypes'
  BY DEF End, QueueTypes, InWorkers
<1>3. WorkTypes'
  BY DEF End, WorkTypes, InWorkers, NoTime
<1>4. WatchTypes'
  BY DEF End, WatchTypes, InWatches
<1>5. Threads'
  BY DEF End, Threads, InWorkers, NoTime
<1>6. InTime' /\ Joined'
  BY DEF End, InTime, Joined, Stopped
<1>7. Clocks'
  BY DEF End, Clocks, NoTime, InWatches
<1> QED
  BY <1>1, <1>2, <1>3, <1>4, <1>5, <1>6, <1>7 DEF ProcessInv, ProcessTypeOK

Ends == \E e \in {"0", "1", "killed", "crashed"}, n \in SUBSET Keys : End(e, n)

\* The steps that do not end the process.
Going == \/ Arm \/ StartThreads \/ BeginStop \/ CloseQueue \/ Join \/ Judge \/ Tick
         \/ \E w \in Workers : AnyWorker(w)
         \/ \E k \in Keys : Lapse(k)
         \/ \E r \in Resources : WatchStep(r)
         \/ ProbeFails \/ Terminate \/ Restart

\* Judge, Report, Kill and Crash may end the process.
LEMMA Split ==
  ASSUME ProcessTypeOK, ProcessNext
  PROVE  \/ Ends /\ faults' \in 0 .. MaxFaults
         \/ Going /\ (Judge => main' = "reporting")
<1>1. CASE Judge
  BY <1>1 DEF Judge, ShutdownCode, Ends, ProcessTypeOK, MainTypes, Going
<1>2. CASE Report
  <2>1. {held[w] : w \in alive \cap DOMAIN inFlight} \in SUBSET Keys
    BY DEF ProcessTypeOK, WorkTypes
  <2> QED
    BY <1>2, <2>1 DEF Report, ShutdownCode, Ends, ProcessTypeOK, MainTypes
<1>3. CASE Kill
  BY <1>3 DEF Kill, Ends, ProcessTypeOK, MainTypes
<1>4. CASE Crash
  BY <1>4, Constants DEF Crash, Ends, ProcessTypeOK, MainTypes
<1> QED
  BY <1>1, <1>2, <1>3, <1>4 DEF ProcessNext, MainStep, Going, AnyWorker, Judge
-----------------------------------------------------------------------------
\* The types, part by part.

LEMMA MainTypesStep ==
  ASSUME ProcessTypeOK, Going, Judge => main' = "reporting"
  PROVE  MainTypes'
<1> USE Constants DEF ProcessTypeOK, MainTypes, MainPlaces
<1>1. CASE Arm \/ StartThreads \/ BeginStop \/ CloseQueue \/ Restart
  BY <1>1 DEF Arm, StartThreads, BeginStop, CloseQueue, Restart
<1>2. CASE Join
  BY <1>2 DEF Join, Workers
<1>3. CASE Judge
  BY <1>3 DEF Judge, End, Unended
<1>4. CASE Tick
  BY <1>4 DEF Tick, Less
<1>5. ASSUME NEW w \in Workers, AnyWorker(w) PROVE MainTypes'
  <2>1. faults' \in 0 .. MaxFaults
    BY <1>5 DEF AnyWorker, WorkerStep, Quit, Enter, EndPass, Leave, Release, Hang, Take
  <2> QED
    BY <1>5, <2>1, WorkerFrame
<1>6. ASSUME NEW r \in Resources, WatchStep(r) PROVE MainTypes'
  <2>1. faults' \in 0 .. MaxFaults
    BY <1>6 DEF WatchStep, Listed, Event, Resumed, Expired, Mute, Failed
  <2> QED
    BY <1>6, <2>1, WatchFrame
<1>7. ASSUME NEW k \in Keys, Lapse(k) PROVE MainTypes'
  BY <1>7, LapseFrame
<1>8. CASE ProbeFails \/ Terminate
  BY <1>8 DEF ProbeFails, Terminate, Signal
<1> QED
  BY <1>1, <1>2, <1>3, <1>4, <1>5, <1>6, <1>7, <1>8 DEF Going

LEMMA QueueTypesStep ==
  ASSUME ProcessTypeOK, Threads, Going, Judge => main' = "reporting"
  PROVE  QueueTypes'
<1> USE ProcessAssumption DEF ProcessTypeOK, QueueTypes
<1>1. CASE Arm \/ StartThreads \/ BeginStop \/ Join \/ Tick \/ ProbeFails \/ Terminate \/ Restart
  BY <1>1 DEF Arm, StartThreads, BeginStop, Join, Tick, ProbeFails, Terminate, Restart, Signal
<1>2. CASE CloseQueue
  BY <1>2 DEF CloseQueue, Queue!Close
<1>3. CASE Judge
  BY <1>3 DEF Judge, End, Unended
<1>4. ASSUME NEW w \in Workers, AnyWorker(w) PROVE QueueTypes'
  <2>1. CASE Quit(w) \/ Enter(w) \/ Leave(w) \/ Hang(w)
    BY <2>1 DEF Quit, Enter, Leave, Hang
  <2>2. CASE EndPass(w)
    BY <2>2 DEF EndPass, Queue!Schedule, Move, Threads
  <2>3. CASE Release(w)
    BY <2>3 DEF Release, Queue!Finish
  <2>4. ASSUME NEW k \in Keys, Take(w, k) PROVE QueueTypes'
    BY <2>4 DEF Take, Queue!Start
  <2> QED
    BY <1>4, <2>1, <2>2, <2>3, <2>4 DEF AnyWorker, WorkerStep
<1>5. ASSUME NEW r \in Resources, WatchStep(r) PROVE QueueTypes'
  BY <1>5 DEF WatchStep, Listed, Event, Resumed, Expired, Mute, Failed, Queue!Request
<1>6. ASSUME NEW k \in Keys, Lapse(k) PROVE QueueTypes'
  BY <1>6 DEF Lapse, Queue!Fire
<1> QED
  BY <1>1, <1>2, <1>3, <1>4, <1>5, <1>6 DEF Going

\* The table changes only by the step of the worker it is about, and by time.
LEMMA WorkTypesStep ==
  ASSUME ProcessTypeOK, Threads, Going, Judge => main' = "reporting"
  PROVE  WorkTypes'
<1> USE ProcessAssumption, Constants DEF ProcessTypeOK, WorkTypes, QueueTypes
<1>1. CASE \/ Arm \/ BeginStop \/ CloseQueue \/ Join \/ ProbeFails \/ Terminate \/ Restart
  BY <1>1 DEF Arm, BeginStop, CloseQueue, Queue!Close, Join, ProbeFails, Terminate, Restart, Signal
<1>2. CASE StartThreads
  BY <1>2 DEF StartThreads, InWorkers
<1>3. CASE Judge
  BY <1>3 DEF Judge, End, Unended
<1>4. CASE Tick
  BY <1>4 DEF Tick, Older, LastAge
<1>5. ASSUME NEW w \in Workers, AnyWorker(w) PROVE WorkTypes'
  <2> USE DEF Move
  <2>1. CASE Quit(w)
    BY <2>1 DEF Quit
  <2>2. CASE Enter(w)
    BY <2>2 DEF Enter, Threads, LastAge
  <2>3. CASE EndPass(w)
    BY <2>3 DEF EndPass, Queue!Schedule
  <2>4. CASE Leave(w)
    BY <2>4 DEF Leave, Restrict, Threads
  <2>5. CASE Release(w)
    BY <2>5 DEF Release, Queue!Finish, Threads
  <2>6. CASE Hang(w)
    BY <2>6 DEF Hang, Threads
  <2>7. ASSUME NEW k \in Keys, Take(w, k) PROVE WorkTypes'
    BY <2>7 DEF Take, Queue!Start, Threads
  <2> QED
    BY <1>5, <2>1, <2>2, <2>3, <2>4, <2>5, <2>6, <2>7 DEF AnyWorker, WorkerStep
<1>6. ASSUME NEW r \in Resources, WatchStep(r) PROVE WorkTypes'
  BY <1>6, WatchFrame
<1>7. ASSUME NEW k \in Keys, Lapse(k) PROVE WorkTypes'
  BY <1>7, LapseFrame
<1> QED
  BY <1>1, <1>2, <1>3, <1>4, <1>5, <1>6, <1>7 DEF Going

LEMMA WatchTypesStep ==
  ASSUME ProcessTypeOK, Going, Judge => main' = "reporting"
  PROVE  WatchTypes'
<1> USE Constants DEF ProcessTypeOK, WatchTypes
<1>1. CASE Arm \/ BeginStop \/ CloseQueue \/ Join \/ ProbeFails \/ Terminate \/ Restart
  BY <1>1 DEF Arm, BeginStop, CloseQueue, Join, ProbeFails, Terminate, Restart, Signal
<1>2. CASE StartThreads
  BY <1>2 DEF StartThreads, InWatches
<1>3. CASE Judge
  BY <1>3 DEF Judge, End, Unended
<1>4. CASE Tick
  BY <1>4 DEF Tick, Older, Less
<1>5. ASSUME NEW w \in Workers, AnyWorker(w) PROVE WatchTypes'
  BY <1>5, WorkerFrame
<1>6. ASSUME NEW r \in Resources, WatchStep(r) PROVE WatchTypes'
  <2>1. CASE Listed(r) \/ Event(r) \/ Resumed(r) \/ Expired(r) \/ Mute(r)
    BY <2>1 DEF Listed, Event, Resumed, Expired, Mute
  <2>2. ASSUME NEW d \in 1 .. MaxBackoff, Failed(r, d) PROVE WatchTypes'
    BY <2>2 DEF Failed
  <2> QED
    BY <1>6, <2>1, <2>2 DEF WatchStep
<1>7. ASSUME NEW k \in Keys, Lapse(k) PROVE WatchTypes'
  BY <1>7, LapseFrame
<1> QED
  BY <1>1, <1>2, <1>3, <1>4, <1>5, <1>6, <1>7 DEF Going
-----------------------------------------------------------------------------
\* A worker enters the table before its pass and leaves it after; the threads live
\* between start and the end of stop.
LEMMA ThreadsStep ==
  ASSUME ProcessTypeOK, Threads, InTime, Going, Judge => main' = "reporting"
  PROVE  Threads'
<1> USE ProcessAssumption DEF Threads, ProcessTypeOK, QueueTypes, WorkTypes, Stopped
<1>1. CASE \/ Arm \/ BeginStop \/ CloseQueue \/ Join \/ Judge \/ ProbeFails
           \/ Terminate \/ Restart
  BY <1>1 DEF Arm, BeginStop, CloseQueue, Queue!Close, Join, Judge, End, ProbeFails, Terminate,
              Restart, Signal, MainTypes, MainPlaces
<1>2. CASE StartThreads
  BY <1>2 DEF StartThreads, InWorkers
<1>3. CASE Tick
  BY <1>3 DEF Tick
<1>4. ASSUME NEW w \in Workers, AnyWorker(w) PROVE Threads'
  <2>0. main' = main
    BY <1>4, WorkerFrame
  <2> USE <2>0 DEF Move
  <2>1. CASE Quit(w)
    BY <2>1 DEF Quit
  <2>2. CASE Enter(w)
    BY <2>2 DEF Enter
  <2>3. CASE EndPass(w)
    BY <2>3 DEF EndPass, Queue!Schedule
  <2>4. CASE Leave(w)
    BY <2>4 DEF Leave, Restrict
  <2>5. CASE Release(w)
    BY <2>5 DEF Release, Queue!Finish
  <2>6. CASE Hang(w)
    BY <2>6 DEF Hang
  <2>7. ASSUME NEW k \in Keys, Take(w, k) PROVE Threads'
    BY <2>7 DEF Take, Queue!Start
  <2> QED
    BY <1>4, <2>1, <2>2, <2>3, <2>4, <2>5, <2>6, <2>7 DEF AnyWorker, WorkerStep
<1>5. ASSUME NEW r \in Resources, WatchStep(r) PROVE Threads'
  BY <1>5, WatchFrame
<1>6. ASSUME NEW k \in Keys, Lapse(k) PROVE Threads'
  BY <1>6, LapseFrame
<1> QED
  BY <1>1, <1>2, <1>3, <1>4, <1>5, <1>6 DEF Going

\* No grace is lost before main is in stop, and of the joins' deadline not less is
\* left than of the grace period beyond it.
LEMMA InTimeStep ==
  ASSUME ProcessInv, Going, Judge => main' = "reporting"
  PROVE  InTime'
<1> USE Constants DEF ProcessInv, ProcessTypeOK, MainTypes, MainPlaces, QueueTypes, InTime, Stopped
<1>1. CASE Arm \/ StartThreads \/ BeginStop \/ Restart
  BY <1>1 DEF Arm, StartThreads, BeginStop, Restart
<1>2. CASE CloseQueue
  BY <1>2 DEF CloseQueue, Queue!Close
<1>3. CASE Join
  BY <1>3 DEF Join
<1>4. CASE Judge
  <2>1. main = "joining" /\ main' = "reporting"
        /\ UNCHANGED <<signal, grace, left, joining, exit, closed>>
    BY <1>4, JudgeFrame
  <2> QED
    BY <2>1
<1>5. CASE Tick
  <2>1. main \in {"waiting", "joining"}
    BY <1>5 DEF Tick, Prompt
  <2>2. main = "waiting" => signal # "caught"
    BY <1>5 DEF Tick, Prompt
  <2>3. main = "joining" => left > 0
    BY <1>5 DEF Tick, Prompt
  <2> QED
    BY <1>5, <2>1, <2>2, <2>3 DEF Tick, Less
<1>6. CASE ProbeFails \/ Terminate
  BY <1>6 DEF ProbeFails, Terminate, Signal
<1>7. ASSUME NEW w \in Workers, AnyWorker(w) PROVE InTime'
  BY <1>7, WorkerFrame
<1>8. ASSUME NEW r \in Resources, WatchStep(r) PROVE InTime'
  BY <1>8, WatchFrame
<1>9. ASSUME NEW k \in Keys, Lapse(k) PROVE InTime'
  BY <1>9, LapseFrame
<1> QED
  BY <1>1, <1>2, <1>3, <1>4, <1>5, <1>6, <1>7, <1>8, <1>9 DEF Going

\* A pass is under way while main joins only if it began before the deadline was set
\* or its worker had taken its key by then; and a worker is passed over only once
\* nothing is left of the deadline, which never grows.
LEMMA JoinedStep ==
  ASSUME ProcessInv, Going, Judge => main' = "reporting"
  PROVE  Joined'
<1> USE Constants DEF ProcessInv, ProcessTypeOK, MainTypes, MainPlaces, QueueTypes, WorkTypes,
                      InTime, Joined, Threads
<1>1. CASE Arm \/ StartThreads \/ BeginStop \/ Restart
  BY <1>1 DEF Arm, StartThreads, BeginStop, Restart
<1>2. CASE CloseQueue
  <2>1. main' = "joining" /\ joining' = joining /\ left' = ShutdownTimeout
        /\ at' = at /\ inFlight' = inFlight
    BY <1>2 DEF CloseQueue
  <2>2. joining = 1
    BY <1>2 DEF CloseQueue
  <2> QED
    BY <2>1, <2>2 DEF Workers, LastAge
<1>3. CASE Join
  BY <1>3 DEF Join, Workers
<1>4. CASE Judge
  <2>1. \A w \in Workers : w < joining
    BY <1>4, JudgeFrame DEF Workers
  <2> QED
    BY <1>4, <2>1, JudgeFrame DEF Unended
<1>5. CASE Tick
  <2>1. main \in {"waiting", "joining"} /\ UNCHANGED <<main, at, alive, joining>>
    BY <1>5 DEF Tick, Prompt
  <2>2. ASSUME NEW w \in Workers, main = "joining"
        PROVE  /\ w < joining => at[w] = "dead" \/ left' = 0
               /\ at[w] # "taken"
               /\ at[w] = "running" => inFlight'[w] + left' >= ShutdownTimeout
    <3>1. left > 0 /\ left' = left - 1 /\ at[w] # "taken"
      BY <1>5, <2>2 DEF Tick, Prompt, Less
    <3>2. w < joining => at[w] = "dead"
      BY <2>2, <3>1
    <3>3. CASE at[w] = "running"
      <4>1. w \in DOMAIN inFlight /\ inFlight[w] \in Nat /\ inFlight[w] + left >= ShutdownTimeout
        BY <2>2, <3>3
      <4>2. inFlight'[w] = Older(inFlight[w], LastAge)
        BY <1>5, <4>1 DEF Tick
      <4> QED
        BY <3>1, <3>2, <3>3, <4>1, <4>2 DEF Older, LastAge
    <3> QED
      BY <3>1, <3>2, <3>3
  <2> QED
    BY <2>1, <2>2
<1>6. CASE ProbeFails \/ Terminate
  BY <1>6 DEF ProbeFails, Terminate, Signal
<1>7. ASSUME NEW v \in Workers, AnyWorker(v) PROVE Joined'
  <2>1. UNCHANGED <<mainVars, closed>>
    BY <1>7, WorkerFrame
  <2> USE <2>1 DEF Move
  <2>2. CASE Quit(v)
    BY <2>2 DEF Quit
  <2>3. CASE Enter(v)
    BY <2>3 DEF Enter
  <2>4. CASE EndPass(v)
    BY <2>4 DEF EndPass
  <2>5. CASE Leave(v)
    BY <2>5 DEF Leave, Restrict
  <2>6. CASE Release(v)
    BY <2>6 DEF Release
  <2>7. CASE Hang(v)
    BY <2>7 DEF Hang
  <2>8. ASSUME NEW k \in Keys, Take(v, k) PROVE Joined'
    BY <2>8 DEF Take, Queue!Start
  <2> QED
    BY <1>7, <2>2, <2>3, <2>4, <2>5, <2>6, <2>7, <2>8 DEF AnyWorker, WorkerStep
<1>8. ASSUME NEW r \in Resources, WatchStep(r) PROVE Joined'
  BY <1>8, WatchFrame
<1>9. ASSUME NEW k \in Keys, Lapse(k) PROVE Joined'
  BY <1>9, LapseFrame
<1> QED
  BY <1>1, <1>2, <1>3, <1>4, <1>5, <1>6, <1>7, <1>8, <1>9 DEF Going

\* Time waits for what is bounded, and a failure puts the watch's clock as far into
\* the future as it then waits.
LEMMA ClocksStep ==
  ASSUME ProcessInv, Going, Judge => main' = "reporting"
  PROVE  Clocks'
<1> USE Constants DEF ProcessInv, ProcessTypeOK, MainTypes, MainPlaces, WorkTypes, WatchTypes, Clocks
<1>1. CASE \/ Arm \/ BeginStop \/ CloseQueue \/ Join \/ Judge \/ Restart \/ ProbeFails
           \/ Terminate
  BY <1>1 DEF Arm, BeginStop, CloseQueue, Join, Judge, End, Restart, ProbeFails, Terminate, Signal
<1>2. CASE StartThreads
  BY <1>2 DEF StartThreads, InWatches
<1>3. CASE Tick
  <2>1. main \in {"waiting", "joining"} /\ UNCHANGED <<main, stuck, silent, call>>
    BY <1>3 DEF Tick, Prompt
  <2>2. \A w \in DOMAIN inFlight' : w \in stuck' \/ inFlight'[w] <= MaxPass
    BY <1>3, <2>1 DEF Tick, Bounded, Older
  <2>3. ASSUME NEW r \in Resources \ silent, main = "waiting"
        PROVE  /\ quiet'[r] <= IF call[r] = "watch" THEN CallLimit ELSE 2 * CallLimit
               /\ wait'[r] > 0 => quiet'[r] + wait'[r] <= 0
    <3>1. quiet'[r] = Older(quiet[r], WatchLimit) /\ wait'[r] = Less(wait[r])
      BY <1>3 DEF Tick
    <3>2. quiet[r] \in Int /\ wait[r] \in Nat
      OBVIOUS
    <3>3. CASE wait[r] > 0
      <4>1. quiet[r] + wait[r] <= 0
        BY <2>3, <3>3
      <4> QED
        BY <3>1, <3>2, <3>3, <4>1 DEF Older, Less
    <3>4. CASE wait[r] = 0
      <4>1. quiet[r] < IF call[r] = "watch" THEN CallLimit ELSE 2 * CallLimit
        BY <1>3, <2>3, <3>4 DEF Tick, Bounded
      <4> QED
        BY <3>1, <3>2, <3>4, <4>1 DEF Older, Less
    <3> QED
      BY <3>2, <3>3, <3>4
  <2> QED
    BY <2>1, <2>2, <2>3
<1>4. ASSUME NEW w \in Workers, AnyWorker(w) PROVE Clocks'
  <2>1. UNCHANGED <<mainVars, watchVars>>
    BY <1>4, WorkerFrame
  <2> USE <2>1 DEF Move
  <2>2. CASE Quit(w) \/ EndPass(w) \/ Release(w) \/ \E k \in Keys : Take(w, k)
    BY <2>2 DEF Quit, EndPass, Release, Take
  <2>3. CASE Enter(w)
    BY <2>3 DEF Enter
  <2>4. CASE Leave(w)
    BY <2>4 DEF Leave, Restrict
  <2>5. CASE Hang(w)
    BY <2>5 DEF Hang
  <2> QED
    BY <1>4, <2>2, <2>3, <2>4, <2>5 DEF AnyWorker, WorkerStep
<1>5. ASSUME NEW r \in Resources, WatchStep(r) PROVE Clocks'
  <2>1. UNCHANGED <<mainVars, workVars>> /\ main = "waiting"
    BY <1>5, WatchFrame
  <2> USE <2>1
  <2>2. CASE Listed(r) \/ Event(r) \/ Resumed(r) \/ Expired(r) \/ Mute(r)
    BY <2>2 DEF Listed, Event, Resumed, Expired, Mute, Calling
  <2>3. ASSUME NEW d \in 1 .. MaxBackoff, Failed(r, d) PROVE Clocks'
    BY <2>3 DEF Failed, Calling
  <2> QED
    BY <1>5, <2>2, <2>3 DEF WatchStep
<1>6. ASSUME NEW k \in Keys, Lapse(k) PROVE Clocks'
  BY <1>6, LapseFrame
<1> QED
  BY <1>1, <1>2, <1>3, <1>4, <1>5, <1>6 DEF Going

-----------------------------------------------------------------------------
\* ProcessInv holds at the start, every step keeps it, and so it always holds: the
\* argument every theorem below rests on.
LEMMA InitInv == ProcessInit => ProcessInv
<1> SUFFICES ASSUME ProcessInit PROVE ProcessInv
  OBVIOUS
<1> USE Constants DEF ProcessInit, InWorkers, InWatches, NoTime
<1>1. ProcessTypeOK
  <2>1. MainTypes
    BY DEF MainTypes, MainPlaces
  <2>2. QueueTypes
    BY DEF QueueTypes, Queue!Init
  <2>3. WorkTypes
    BY DEF WorkTypes
  <2>4. WatchTypes
    BY DEF WatchTypes
  <2> QED
    BY <2>1, <2>2, <2>3, <2>4 DEF ProcessTypeOK
<1>2. Threads
  BY DEF Threads, Queue!Init
<1>3. InTime /\ Joined
  BY DEF InTime, Joined, Stopped, Queue!Init
<1>4. Clocks
  BY DEF Clocks
<1> QED
  BY <1>1, <1>2, <1>3, <1>4 DEF ProcessInv

LEMMA StepInv == ProcessInv /\ [ProcessNext]_vars => ProcessInv'
<1> SUFFICES ASSUME ProcessInv, [ProcessNext]_vars PROVE ProcessInv'
  OBVIOUS
<1>1. CASE Ends /\ faults' \in 0 .. MaxFaults
  BY <1>1, EndInv DEF Ends
<1>2. CASE Going /\ (Judge => main' = "reporting")
  BY <1>2, MainTypesStep, QueueTypesStep, WorkTypesStep, WatchTypesStep, ThreadsStep,
     InTimeStep, JoinedStep, ClocksStep DEF ProcessInv, ProcessTypeOK
<1>3. CASE UNCHANGED vars
  BY <1>3 DEF vars, ProcessInv, ProcessTypeOK, MainTypes, QueueTypes, WorkTypes, WatchTypes,
              Threads, InTime, Joined, Clocks, Stopped
<1> QED
  BY <1>1, <1>2, <1>3, Split DEF ProcessInv

THEOREM ProcessInvariant == ProcessSafetySpec => []ProcessInv
<1>1. ProcessInit => ProcessInv
  BY InitInv
<1>2. ProcessInv /\ [ProcessNext]_vars => ProcessInv'
  BY StepInv
<1> QED
  BY <1>1, <1>2, PTL DEF ProcessSafetySpec

\* Whatever hangs, fails, is stopped or crashes, the variables keep their types.
THEOREM ProcessTypes == ProcessSafetySpec => []ProcessTypeOK
<1>1. ProcessInv => ProcessTypeOK
  BY DEF ProcessInv
<1> QED
  BY <1>1, ProcessInvariant, PTL

\* The liveness probe of a process that serves fails only when a pass or a watch hangs
\* (controller.py:227-263), for any timeouts in the relations values.yaml asks for.
THEOREM ProbeIsRight == ProcessSafetySpec => []UnhealthyMeansHung
<1>1. ProcessInv => UnhealthyMeansHung
  <2> SUFFICES ASSUME ProcessInv, main = "waiting", stuck = {}, silent = {}
               PROVE  Healthy
    BY DEF UnhealthyMeansHung
  <2> USE Constants DEF ProcessInv, ProcessTypeOK, Clocks
  <2>1. \A w \in DOMAIN inFlight : inFlight[w] <= ReconcileTimeout
    BY DEF WorkTypes, LastAge
  <2>2. \A r \in Resources : quiet[r] <= WatchLimit
    BY DEF WatchTypes
  <2> QED
    BY <2>1, <2>2 DEF Healthy
<1> QED
  BY <1>1, ProcessInvariant, PTL

Honest == main # "exited" =>
            /\ exit' = "killed" => signal = "lost"
            /\ \A w \in Workers : at[w] = "running" =>
                 /\ exit' # "0"
                 /\ exit' = "1" => held[w] \in named' /\ inFlight[w] >= ShutdownTimeout

\* A process that was asked to stop says truly, and in the time it has, how it ended
\* (main.py:81-91, controller.py:483-523).
THEOREM EndIsHonest == ProcessSafetySpec => EndsHonestly
<1>1. ProcessInv /\ [ProcessNext]_vars => Honest \/ UNCHANGED vars
  <2> SUFFICES ASSUME ProcessInv, ProcessNext, main # "exited" PROVE Honest
    BY DEF Honest
  <2> USE DEF ProcessInv, ProcessTypeOK
  <2>1. CASE Kill
    <3>1. signal = "lost" /\ exit' = "killed"
      BY <2>1, Constants DEF Kill, End, InTime, MainTypes, MainPlaces, Stopped
    <3> QED
      BY <3>1 DEF Honest
  <2>2. CASE Crash
    BY <2>2 DEF Crash, End, Honest
  <2>3. CASE Report
    <3>1. exit' = "1" /\ named' = {held[w] : w \in alive \cap DOMAIN inFlight}
          /\ main = "reporting"
      BY <2>3 DEF Report, End, ShutdownCode
    <3>2. ASSUME NEW w \in Workers, at[w] = "running"
          PROVE  held[w] \in named' /\ inFlight[w] >= ShutdownTimeout
      BY <3>1, <3>2 DEF Joined, Threads
    <3> QED
      BY <3>1, <3>2 DEF Honest
  <2>4. CASE Judge
    <3>1. CASE Unended = {}
      BY <2>4, <3>1 DEF Judge, End, ShutdownCode, Unended, Honest
    <3>2. CASE Unended # {}
      BY <2>4, <3>2 DEF Judge, InTime, Honest
    <3> QED
      BY <3>1, <3>2
  <2>5. CASE exit' = exit
    BY <2>5 DEF InTime, Honest
  <2>6. \/ Kill \/ Crash \/ Report \/ Judge \/ exit' = exit
    <3>1. ASSUME NEW w \in Workers, AnyWorker(w) PROVE exit' = exit
      BY <3>1, WorkerFrame
    <3>2. ASSUME NEW r \in Resources, WatchStep(r) PROVE exit' = exit
      BY <3>2, WatchFrame
    <3>3. ASSUME NEW k \in Keys, Lapse(k) PROVE exit' = exit
      BY <3>3, LapseFrame
    <3>4. CASE Arm \/ StartThreads \/ BeginStop \/ CloseQueue \/ Join \/ Tick \/ ProbeFails \/ Terminate
      BY <3>4 DEF Arm, StartThreads, BeginStop, CloseQueue, Join, Tick, ProbeFails, Terminate, Signal
    <3> QED
      BY <3>1, <3>2, <3>3, <3>4 DEF ProcessNext, MainStep, AnyWorker, Restart
  <2> QED
    BY <2>1, <2>2, <2>3, <2>4, <2>5, <2>6
<1>2. Honest \/ UNCHANGED vars => [Honest]_vars
  OBVIOUS
<1>3. ProcessInv /\ [ProcessNext]_vars => [Honest]_vars
  BY <1>1, <1>2
<1>4. ProcessSafetySpec => [][Honest]_vars
  BY <1>3, ProcessInvariant, PTL DEF ProcessSafetySpec
<1> QED
  BY <1>4 DEF EndsHonestly, Honest
=============================================================================
