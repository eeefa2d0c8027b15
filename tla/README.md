# Verification of cert-publisher

cert-publisher is a Kubernetes controller that puts TLS certificates on hosts: it watches
`CertPublication` objects, has cert-manager issue a certificate for each, and installs it on
the host the publication names.  This directory holds TLA+ models of its core, the TLC
configurations that check them on small instances, and TLAPS proofs of their main safety
properties for instances of any size.  Paths such as `reconcile.py:583` are relative to
`src/src/cert_publisher/`.

## 1. Inventory

| Component | State | Operations | Who calls it |
|---|---|---|---|
| Work queue (`workqueue.py`) | FIFO, dirty set, processing set, heap of deadlines and the live deadline of each key, shutdown flag, one condition variable | `add`, `add_after`, `add_rate_limited`, `get`, `done`, `forget`, `shutdown` | watcher threads and workers, concurrently |
| Backoff (`workqueue.py`, `retry.py`) | failures of each key | `next_backoff`, `forget`, `failures`; `with_retries` around connecting to a host | the queue; the provisioners |
| Watchers (`controller.py`, `_Watcher`) | resource version to resume from, last spec and `lastSigningTime` seen of each object | list, resume, handle an event, relist after 410, back off after an error | own threads; they call the controller, which adds keys |
| Controller (`controller.py`) | worker threads, in-flight table, stopping flag | `start`, `_work`, `_reconcile`, `_fail`, `_requeue`, `stop` | `main` |
| Host-keyed reconciliation (`reconcile.py`) | none of its own: everything is in `.status`, the `CertificateRequest` and the host | `_reconcile_host_keyed`, `_start_signing`, `_resolve_pending_request` | a worker, one per publication at a time |
| Secret-keyed reconciliation (`reconcile.py`, `certmanager.py`) | likewise: `.status`, the `Certificate`, its Secret and the host | `_reconcile_secret_keyed`, `certificate_spec_drift` | a worker |
| Status (`status.py`) | `.status` of a publication | `set_status`, best-effort or strict | the reconcilers, `_fail` |
| API client (`kube.py`) | none | get, create, patch, delete, each tried once: the next pass is the retry | all of the above |
| iDRAC8 (`idrac8.py`, `wsman.py`, `tlspin.py`) | the BMC's key, the certificate loaded and the one served | `generate_csr`, `import_certificate`, `installed_certificate` | host-keyed reconciliation |
| SSH, WinRM (`ssh.py`, `winrm.py`, scripts) | certificate and key files, or a certificate store; what the service uses | `is_current`, `install` with a post-install hook | secret-keyed reconciliation |
| Health (`health.py`) | none: asks the controller | liveness, readiness | the kubelet |
| Process (`main.py`) | stop event, exit status | start, signal, shutdown within a timeout | Kubernetes |
| Certificate arithmetic (`utils.py`) | none | renewal time, Go durations, fingerprints | the reconcilers |

How they interact.  A watcher's event adds a key to the queue.  A worker takes the key, reads
the publication afresh, reconciles it, schedules the key again (a resync, a requeue the
result asks for, or a backoff after a failure) and only then calls `done`.  The reconcilers
keep nothing in memory between passes: every decision is taken from what an earlier pass left
in `.status`, in cert-manager's objects and on the host, and any call in between may fail, may
have happened although it seems to have failed, or may be the last one before a crash.

Hard behaviours, in the order of what they would cost:

1. *Rotating a BMC's key* is irreversible and resets the BMC.  A rotation that is not recorded
   first is not throttled; one while a request is outstanding makes that request useless.
2. *Stranding*: a `CertificateRequest` nobody will look up again.
3. *Two workers on one host*, or a key lost between the dirty set, the processing set and the
   heap of deadlines.
4. *An edit lost*: made during a pass, between a lost watch position and the relist, or masked
   by a status write that already carries its generation.
5. *A half-finished install* taken for a finished one; a pass that puts back an older leaf.
6. *Shutdown*: a worker between `get` and its loop condition, a process that exits in mid-pass,
   a join that outlasts the pod's grace period.
7. *A hang*: calls to hosts have no timeout of their own in places, and only the liveness probe
   ends one; the probe must not take a slow pass or a watch in backoff for a hang.
8. *A config job of the iDRAC* that is applied later than the operation waits, and a host whose
   address leads to another machine by the time a session is opened.

What makes each component correct: the *queue* hands a key to one consumer at a time, keeps
each wanted key queued exactly once, loses nothing and takes the earliest deadline; the
*controller* never forgets a publication nor leaves an edit for the resync, and starts nothing
after shutdown; *host-keyed reconciliation* records, throttles and never wastes a rotation;
*secret-keyed reconciliation* publishes each leaf whole and in order; the *watchers* deliver
every spec change; *health* tells a stuck pod from a busy one; the *process* reports what it
cut short; the *iDRAC provisioner* rotates a key once, for the subject asked for, on the machine
it authenticated.

## 2. Modules

| Module | Models | Extends, uses |
|---|---|---|
| `KeyedWork` | what the queue promises: sets of wanted, held and delayed keys, no order, no heap | |
| `WorkQueue` | `workqueue.py` | refines `KeyedWork` |
| `WorkQueueProofs` | its theorems | `WorkQueue` |
| `Controller` | workers, watch, `main` and the pod | extends `WorkQueue`: its workers are the consumers, its actions call `Add`, `AddAfter`, `Take`, `Done`, `Shutdown`; refines `Feed` |
| `ControllerProofs` | its theorems | `Controller`, `WorkQueueProofs` |
| `Feed` | what a watch owes the controller: publications listed, changes unseen, keys passed on | |
| `Watcher` | the list and watch loop on publications | refines `Feed` |
| `WatcherProofs` | its theorems | `Watcher` |
| `HostKeyed` | one publication whose host owns its key | |
| `HostKeyedProofs` | its theorems | `HostKeyed` |
| `SecretKeyed` | one publication whose key cert-manager owns | |
| `SecretKeyedProofs` | its theorems | `SecretKeyed` |
| `Process` | one pod: `main`, worker threads, table of passes in flight, liveness, kubelet | uses `KeyedWork` for the queue (`INSTANCE`) |
| `ProcessProofs` | its theorems | `Process` |
| `IDrac` | `idrac8.py` over WS-Man, with its retries and pinned sessions | what it does in many calls `HostKeyed` takes for one |
| `IDracProofs` | its theorems | `IDrac` |
| `MC...` | symmetry and values of constants for TLC | the module named |

Operators named `Faulty...` are part of no specification.  Each is a bug the code could
plausibly have (a dropped guard, a swapped order); substituted for the operator defined after
it, it makes TLC find a property violated, which shows that the property says something.

### WorkQueue and KeyedWork

Each method is one action, since it holds the queue's lock from beginning to end, with one
exception: `get` releases the lock in `cond.wait`.  So a consumer `Enter`s, then each turn of
its loop is one of `Take` (promote what is due, hand out the head), `FindNone` (promote, find
nothing, sleep) and `TurnAway` (shut down), and `Wake` is the end of the sleep: by a notify, by
its timeout or for no reason, as `threading.Condition` allows.  `notify` wakes any one sleeper
(`Notify`).  `waiting` is the heap, as the set of its entries, stale ones included; `deadlines`
is `_deadlines`.  The code keeps absolute times, of which it only asks which is earlier and which
has passed; here times are distances from now, 0 for any that has passed, and `Tick`, the clock,
lets one unit pass.  `MaxDelay` is the longest delay anyone asks for, and bounds nothing else.

`KeyedWork` has no queue and no heap: `Request`, `Schedule`, `Fire`, `Start`, `Finish` and
`Close` on sets of keys.  `WorkQueue` implements it with `wanted <- dirty` and the rest by
name: `KeepsPromise`.

### Controller

`_reconcile` is one step per call that others can see between: `Fetch` (or `FetchGone`,
`FetchFails`), `Reconcile`, then `Requeue` or `Retry`, then `Release`.  What reconciliation
does to hosts is `HostKeyed`'s and `SecretKeyed`'s business; here it ends in a result or an
exception, after reading a certain edit of the publication.  The watch is `List`, one `Sync`
per listed publication (startup delay included), `Deliver`, and `Expire` for a position lost
(410 or access denied): what changed since is not delivered, the next list finds it.  `Nudge`
is any other event: an owned resource's, which may come after its publication is gone, or a
repeated one.  `main` is `Signal`, `CloseQueue`
and `Exit`; `Exit` may come at any time, which makes it a crash as well, and `NewPod` starts
with an empty queue.  `GoneDropped` is promised of a deleted publication once `Nudge` names it no
more: as long as events of what it owned arrive, each puts its key in the queue once again.

### Watcher

The apiserver is a log of events; a version is a position in it, and `Compact` moves the first
one that can be resumed from.  `List` and `Seed` are `_sync`; `Open`, `Handle` and
`EndOfStream` are `_watch_from`.  A watch the apiserver closes is resumed at `cursor`; one that
breaks (`CallFails`) at `resume`, where it began, because `stream.resource_version` is lost with
the exception: then events are replayed to a `_seen` that is ahead of them.  `Denied` and
`Expired` are the two errors after which the loop lists again.  `wait` is any of its pauses.
`owed` is history: what was changed and not yet passed on.  A deleted publication need not be
passed on: what is still queued of it is dropped when it is not found (`GoneDropped`).

### Feed

The contract between the two: a list gives every publication there is, a change made after it
is delivered or the place is lost, a place that is lost is followed by a list, and a key counts
as passed on (`wanted`) only when it is.  Both sides implement it, each with its own mapping
(`KeepsFeed` in either module).  In `Watcher` the place is `Position`, the changes unseen are
the events that are due and not heard yet, and everything is wanted but what is `owed`; a replayed
event is `Repeat`.  In `Controller` `wanted` is what is dirty or delayed, and everything once
the queue is shut down; `Accept` is `Take`, and a retry or a resync is `Repeat`.  So the watch
that `Controller` has in a few actions and the loop of the code both stay within `Feed`.  That is
all that is shown: not that `Controller`'s watch can do whatever the loop can, which rests on
reading the one against the other (the loop's failures are `Expire`, its replays `Nudge`).

### HostKeyed

One action per call of `_reconcile_host_keyed`, `_start_signing` and
`_resolve_pending_request` that reads or changes something outside the process; `at` is the
call the pass makes next.  A call that fails after its effect goes on with `at = "fail"`, one
that fails before it is `CallFails`; `Fail` is the controller's `_fail`, which writes `.status`
too.  A best-effort write may be lost without the pass noticing (`EndWith`), a strict one
raises but may have landed (`Strictly`).  `Crash` may happen anywhere.

A key, the CSR made of it, the request and the certificate signed for it have one identity in
`Ids`, because they are made of each other; an identity nothing refers to is reused.  The spec
is told apart by its `dnsNames`, and `names[n]` are the names in the CSR of `n`.  `host.key`,
`host.loaded` and `host.serving` differ between a rotation, an import and the reset that
applies it.  `lastSigningTime` is what is left of its cooldown.  `past` is history for the
properties; no guard of the code's actions reads it.

### SecretKeyed

Likewise for `_reconcile_secret_keyed`.  A spec has required fields (`names`), an optional
field (`setting`) and the optional field within `issuerRef` (`group`), because the comparison
(`Drifted`) and the merge patch (`Merged`) treat the three differently.  Leaves are numbered
as they are issued.  A publication installs in one of three ways (`host.mode`): in a certificate
store (`ImportPfx`), in a certificate and a key file (`WriteCert` and `WriteKey`: ssh, and winrm
with `keyPath`), or as a certificate alone (`WriteCert`: winrm without `keyPath`,
`winrm.py:507`).  A file may be cut short and left empty.  If the publication has a
`postInstallScript` (`host.hooked`; `ssh.py:166`, `winrm.py:475`), `RunHook` follows, which puts to
use what was installed if certificate and key match; without one the install is reported at once,
and what uses the files is not the program's concern.  `Installed` says what an install owes
in each of these cases.  `Unreadable` is that ssh takes whatever goes wrong as it reads the
file for "not installed" (`ssh.py:143-146`); `NotIssued` may come at any time, since a Secret may
be deleted or incomplete.  `Meddle` is anybody else on the host.

The provisioner's settings and `secretName` stay what they are: a publication that is edited to
another host, another path or another Secret, which may hold an older leaf, is not modelled.

### Process

Where `Controller` asks what becomes of publications, `Process` asks what becomes of a pod.  It
composes the queue's promise, `KeyedWork`, with the threads: since `WorkQueue` implements it,
what is shown here holds for the queue of the code.

- *Main thread.*  `main` is its place: `Arm` installs the signal handler, `StartThreads` is
  `Controller.start`, `BeginStop` and `CloseQueue` the first half of `Controller.stop`, `Join` one
  `thread.join` under the deadline all joins share (`left`), `Judge` and `Report` the rest of
  `stop` and `_shutdown_code`.  A SIGTERM that comes before `Arm` is lost: the process is the
  container's first, for which the kernel has no default action.
- *Workers.*  `at[w]` is a place in `_work` and `_reconcile`, with an action each for `get`
  (`Take`), for entering the table of passes in flight (`Enter`), for the pass (`EndPass`), for
  leaving the table (`Leave`) and for `done` (`Release`); between any two the main thread may
  close the queue or read the table.  `Hang` is a call that never returns.
- *Watches* are reduced to what `healthy()` sees of them: `quiet[r]` is the time since
  `_last_healthy`, which a failure sets into the future by the wait it begins (hence negative
  values), `wait[r]` the backoff.  `Mute` is a call that never returns.
- *Kubelet.*  `ProbeFails`, `Terminate` (a rollout or a drained node), `Kill` when the grace
  period is over, and `Restart`: a StatefulSet of one never runs two pods.

Time passes in `Tick`, for every clock at once.  `Prompt` says that code which waits for nothing
takes no time, `Bounded` that a pass or a call which does not hang ends within its bound.  Clocks
stop once they are past every threshold they are compared with (`LastAge`, `WatchLimit`).

### IDrac

Each of the three operations begins with `_authenticated_peer`: PKI validation, retried
(`Retry`), then the bootstrap thumbprint if there is one.  `peer` is the certificate found, and
every later request goes out only if the machine that answers presents it (`Pinned`);
`RequestsReachHost` looks at the requests themselves (`Request`) and at where the address leads.
`generate_csr` reads the stored subject attribute by attribute (`got`), sets them and creates a
config job if they differ, polls until the job has applied, and has the host rotate its key.
`import_certificate` imports and resets.  A request that is carried out may lose its answer
(`Answered`): the operation then ends with an error, its effect stays.

The host applies what config jobs hold (`todo`) one attribute at a time whenever it likes,
`Reboot`s by itself, and its certificate expires (`Expire`); `Reroute` makes another machine
answer at its address.  `past` is history: how often this operation rotated the key, and
whether a job was still under way when it began.

## 3. Runs

| Run | Instance | Shows |
|---|---|---|
| `work_queue` | 3 keys, 2 consumers, delays up to 2 | bookkeeping is exact (`QueueExact`, `NoDeadlineStranded`), one consumer per key (`Serialised`), no delay extended (`EarliestWins`), `KeyedWork` implemented (`KeepsPromise`), so no request is lost |
| `controller` | 1 key, 2 workers, 2 changes, 2 pods | `NotForgotten`, `EditNoticed` |
| `controller_live` | 2 keys, 1 worker, 1 change, 1 pod | `EventuallyTaken`, `LookedAt`, `EditReconciled`, `GoneDropped` |
| `watcher` | 1 publication, 3 writes, 2 failures | `NothingMissed`, `RememberedRight`, `StatusIgnored`, `ReadyFollowsAccess`, `ChangesPassedOn`, `Feed` implemented (`KeepsFeed`) |
| `host_keyed` | 4 keys, 2 specs and a misconfigured one, 1 edit | `RotationRecorded`, `RoundsThrottled`, `NoStrandedRequest`, `NoStrandedKey`, `GivenUpAfterCooldown`, `RepairNotReady` |
| `secret_keyed` | 2 names, 1 setting, 1 edit, 1 renewal, every way of installing, meddling | `ReportedWhole`, `NoBackslide`, `LatestPublished`, `EditPublished` |
| `process` | 2 workers, 1 watch, 2 publications, 2 faults | `EndsHonestly`, `UnhealthyMeansHung`, `EveryoneServed` |
| `idrac` | 2 specs with one common name, 2 attempts, 1 poll | `CsrAsAsked`, `RequestsReachHost`, `OperationEnds` |
| `second_reset`, `edit_throttled`, `adopted_whole`, `edit_settles` | see below | statements of the repository the code does not quite keep |

Each passing run checks its module's type invariant as well.

Why the bounds are enough.  *Queue*: two keys are needed for order and for the wrong one of
two sleepers being notified, a third for a key that is neither; two consumers for every race
between consumers; a delay of 2 for a stale heap entry both before and after the live one.
*Controller*: the safety properties speak of one key at a time, and different keys meet in the
queue only, which is checked above; two workers race for the key, two changes put an edit
before and one during a pass, a second pod comes after a stop.  `Requeues` reaches beyond
`MaxBackoff` and `StartupSpread`, so that `EditNoticed` can tell a prompt look from the
resync.  The live run has two keys that compete for one worker.  *Watcher*: what is remembered
of different publications is independent; three writes make every sequence of a status write,
an edit and a cleared stamp, with a replay of any part of it.  *HostKeyed*: an identity each
for the certificate served, the one published or loaded, the key of the pending request and
the one being rotated to (the factory key is apart), so no round is blocked for lack of
identities; cooldown and request timeout are equal in the code (one hour each,
`reconcile.py:181-186`), hence both 1.  *SecretKeyed*: three leaves make an older, an
installed and a newer one; each of the six ways of installing (`Targets`), the leaf before last and
others' changes are all in the run.  A publication is created (`Created`) with the first of two
names, which are interchangeable, and without its optional field; the edit may change the one, add
the other, or both.  The optional field of `issuerRef`, and edits that remove a field, are in the
run `edit_settles`, which is violated through them.  *Process*: two workers join in order, the first hanging
or not; a shutdown timeout of one unit and a grace period of two keep the order `values.yaml`
asks for (66-77); two faults make a hang beside a rollout, a hang of a pass and of a watch, or a
hang after a restart.  `MaxBackoff` exceeds `WatchLimit`, so that a watch in backoff would look
silent if it counted as such.  More watches are independent clocks.  *IDrac*: two specs that
share a common name differ in the second attribute only; two attempts make one retry, one poll
makes a job applied in time, half applied and too late; jobs of any number of earlier
operations can be under way.

Symmetry is used in safety runs only: consumers and keys of the queue, workers, key
identities, and names are interchangeable.  Deadlock is checked in every run: none of the
models may stop.

### Fairness

`Controller`: every worker's thread runs (weak fairness of `Work`), and so do the watch and
`main`.  A read of a publication that is attempted again and again succeeds at last (strong
fairness of `Fetch`/`FetchGone` per worker and key): the code retries it for ever, so without
this nothing follows.  Reconciles end because their calls have timeouts, and because the
liveness probe restarts a pod in which one does not (`controller.py:537-564`).  Nothing makes
anyone edit, delete or stop.

`Watcher`: the thread runs, a watch ends at its timeout, and one opened again and again delivers
events.  Failures other than those of access and position are bounded (`MaxFailures`): a watch
that broke for ever before it ends would replay the same events for ever.  What is promised of
access is promised only if it is lost, or there, for good.

`SecretKeyed`: passes go on (that is what `Controller` shows: `LookedAt`), each call made again
and again succeeds at last, cert-manager issues what its `Certificate` asks for, and a Secret asked
for again and again is there at last.  Nothing is assumed of `Edit`, of `Meddle` or of needless renewals.

`Process`: the main thread, the workers and the watches are scheduled (weak fairness of `MainStep`,
`WorkerStep` and `WatchStep`), time passes (strong fairness of `Tick`, which is enabled only between prompt
steps), a delay runs out, a list attempted again and again succeeds at last (strong fairness of
`Listed`), and the kubelet probes, kills and restarts.  That no key is passed over by `get` for
ever (strong fairness of `Take`, per key) is what the order of the queue gives, and `KeyedWork`
leaves out; `EventuallyTaken` shows it for the queue of the code.  Nothing is assumed of `Hang`,
`Mute`, `Terminate` or `Crash`, of which there are `MaxFaults` together.

`IDrac`: an operation goes on, since every call to the host returns or raises within its timeout.
This is an idealisation: the timeout of `requests` is one for each read, so a host that goes on
sending a few bytes at a time can hold a call for longer.  Nothing is assumed of the host: a job may be applied never.

`WorkQueue` and `HostKeyed` are checked for safety only; `EventuallyTaken`, the queue's
liveness, is checked under the controller's fairness, the only schedule it has.

## 4. What is proved

All for any finite set of keys and consumers, any number of workers, any sets of identities,
specs and certificates, and any values of the delays, timeouts and bounds the `ASSUME`s allow.

**WorkQueueProofs.**  `Serialised` is not inductive: that a key is held once follows from its
being taken from a queue that has no repetition and is disjoint from what is held.  `QueueInv`
conjoins the type invariant, `QueueExact` (the queue is the dirty keys nobody holds, once each),
`ProcessingHeld` (`processing` is what the consumers hold) and `NoDeadlineStranded` (each live
deadline has its entry in the heap).  One lemma per method proves it preserved
(`QueueInvariant`); `Serialisation`, `Exactness`, `QueueTypes` and `DeadlinesInHeap` follow.  `Losslessness`
(no step drops a request, immediate or delayed) and `EarliestDeadline` are action properties
proved from it.  `Implementation` shows that
`WorkQueue` refines `KeyedWork`: each step maps to a step or a stutter, `Take` to firing what is
due and starting a key in one.  The lemmas on sequences without repetition come first.

**ControllerProofs.**  `ControllerInv` puts the queue's invariant, the one of `WorkQueueProofs`,
under the controller, and adds:

- `Hands`: a worker has a next step just as long as the queue has it down as a holder; so what
  `Serialised` says of consumers holds of reconciles (`ReconcilesSerialised`).
- `InOrder`: what a reconcile works on is no older than what the last one of that publication
  did, and no newer than what there is.  Here `Serialised` is needed, as two workers on one
  publication could finish in the wrong order.
- `Followed`: of each publication the watch knows of, `Awaited`, and, while its newest edit was
  not attempted, `Noticed`.  `NotForgotten` and `EditNoticed` are these two, but neither is
  inductive alone: a reconcile that ends with a far requeue leaves an edit unnoticed unless its
  copy was the newest, or the edit's event is still in the watch or the queue.

Most steps put off no key and take none from a worker (`Calm`), and one lemma (`CalmInv`) does for
all of these; what is left are changes, `Accept`, `Fetch`, `Reconcile`, `Requeue` and `Release`.
`ControllerKeepsFeed` is that the watch in `Controller` stays within `Feed`; it needs `Open`, that the queue is open while
`main` runs, since a delivery to a closed queue would be lost.  `QueueAsPromised` is that workers,
watch and `main` use the queue by its methods only: each step but a new pod's is one of `KeyedWork`.

**WatcherProofs.**  `NothingMissed` depends on what the filter remembers, which is older than
what there is and, in a replay, newer than the event compared with it.  `WatcherInv` conjoins the types with

- `LogTrue`: the last event of a publication left what there is of it, and an event is due just
  as it differs from what the one before it left.
- `Places`: how `at`, `resume`, `cursor` and `heard` go together.
- `InStep`: whoever reads on from the loop's position knows each publication without a further
  event as it is, and will tell rightly, of the first event of each that was never heard,
  whether it is due.  It speaks of the first only, since a replay sets back what is remembered.
- `OwedAhead`: a change that is owed is in what is still to be seeded, or has an event that is
  due and was never heard, which a position not yet past it or the next list makes up for.

`NoChangeMissed`, `RememberedAsIs`, `StatusWritesIgnored` and `WatcherTypes` follow, and
`WatchKeepsFeed` is the refinement of `Feed`, step by step.

**HostKeyedProofs.**  None of the safety properties is inductive, since each depends on where
the pass is and on what its copy of the publication was.  `HostKeyedInv` adds, to each, what a
place in the pass may rely on:

- `RequestInv`: a pass on its way to a rotation knows that nothing is pending; one that resolves
  a request knows that it is still the pending one; the final write follows its deletion.
- `KeyInv`: between the CSR and its request the host has the CSR's key.
- `AgeInv`: a waiting request's age and what is left of the cooldown sum to no more than the
  timeout.
- `ReadyInv`: a pass that carries `Ready` over does not carry it over a repair.
- `StampInv`: a rotation has its stamp; and `observedGeneration` lags behind only for an edit no
  round has opened for, in `.status` and in the pass's copy of it, so that every bypass of the
  cooldown is accounted for.

One lemma per conjunct has one case per action.  `HostKeyedInvariant` gives
`HostKeyedTypes`, `RequestsNamed`, `KeysKept`, `RequestsOutlastCooldowns`, `RepairsNotReady`,
`RotationsRecorded` and `StampsThrottled`: every property that the run `host_keyed` checks.  They
rest on `HostKeyedAssumption`, of which the essential part is `Timeout >= Cooldown`.

**SecretKeyedProofs.**  `ReportedWhole` speaks of the last step of an install and follows from
what each earlier one has left (`Whole`), for each way of installing: the key only where one is
written, the use only where there is a hook.  `NoBackslide` rests on `Fresh`: what a pass has read
is no older than what is on the host, because leaves are read in the order they are issued and
a publication is reconciled by one worker at a time.  `SecretInv` conjoins both with the type
invariant; `ReportsWhole` and `NeverBack` follow.

**ProcessProofs.**  `EndsHonestly` relates the last step of a process to all that went before, so
`ProcessInv` says, with the type invariant, how the parts stand to each other in between:

- `Threads`: what a worker's place tells of the key it holds, of the table and of hanging.
- `InTime`: how far `main` is with a signal; while it joins, the grace period left exceeds the
  join deadline left by what it did at the start (`grace + ShutdownTimeout >= GracePeriod + left`).
- `Joined`: a worker already joined has ended or outlived the deadline, and a pass still under
  way is at least as old as the deadline is spent.
- `Clocks`: what does not hang has not been silent, or under way, beyond its bound.

`EndIsHonest` follows from the middle two, `ProbeIsRight` from the last; `ProcessTypes` is the
type invariant.  The assumptions that matter are `ShutdownTimeout < GracePeriod`,
`MaxPass <= ReconcileTimeout` and `2 * CallLimit <= WatchLimit`, all of which `values.yaml`
asks for (`ProcessAssumption`).

**IDracProofs.**  `IDracInv` adds to the properties `Phases` (what a place of an operation tells
of it), `PeerIsHost` (a session is pinned to a certificate of the host) and `Nearer`: unless a
job was left behind by an earlier operation, what the host has still to apply can only bring
its subject nearer to the one asked for, so an attribute once read as asked for stays so while the
others are read.  `RotatesForTheSubject`, `OnlyTheHost` and `IDracTypes` follow.

**Only model-checked**: liveness (`EventuallyTaken`, `LookedAt`, `EditReconciled`, `GoneDropped`,
`ReadyFollowsAccess`, `ChangesPassedOn`, `LatestPublished`, `EditPublished`, `EveryoneServed`,
`OperationEnds`), since fairness and `ENABLED` are beyond this prover.  Every invariant and every
action property of the passing runs is proved, and so are all three refinements.

## 5. Where the repository and the code differ

Four runs show a statement of the repository violated:

- `second_reset`: the spent request is deleted before the certificate is recorded
  (`reconcile.py:536-541`).  Stopped in between, the next pass finds the request gone and, after
  the cooldown, rotates the key and resets the BMC although it serves a sound certificate.
- `edit_throttled`: a pass that fails after an edit records the edit's generation
  (`controller.py:625`), so the retry no longer sees the edit and waits out the cooldown.
- `adopted_whole`: `is_current` compares the certificate only (`ssh.py:137`), so an install
  that stopped before the key or the hook is reported as published by the next pass.
- `edit_settles`: `issuerRef` is compared whole and merge-patched (`kube.py:77`): after an edit
  that drops `issuerRef.group` the patch is repeated for ever.  `LatestPublished` and
  `EditPublished` except this state by name (`Unsettled`).

Known and not the subject of a run: a relist of an owned resource after a 410 queues nothing,
and the publications are not "already queued by the pass above" (`controller.py:265-268`), so
an issuance in the gap waits for the two-minute requeue or the resync; an edit during a
routine renewal carries `Ready=True` to the new generation while the host serves the old names
(`reconcile.py:475`); after an edit the old leaf is reported `Ready` until cert-manager
reissues (`reconcile.py:157`); an optional setting removed from the spec stays on the
`Certificate` (`certmanager.py:37`); a key added while delayed and already queued keeps its
delayed run as well (`workqueue.py:139`), harmless; a SIGTERM that arrives before the handler is
installed (`main.py:112`) is lost, and the pod is killed when its grace period is over
(`EndsHonestly` excepts it by name); a config job an earlier, failed operation left on the iDRAC may
apply between the comparison of the subject and the rotation (`idrac8.py:288-302`), so that a CSR
has another subject than was asked for (`CsrAsAsked` excepts it by name).

## 6. Not modelled, and the plan

Order of the modules: the queue first, since everything relies on it; the controller on top of
it; the two reconcilers, host-keyed first, since its mistakes cannot be undone; the watcher, and
`Feed` between it and the controller; then the process around the controller and the iDRAC beneath
host-keyed reconciliation.  These are done.  Next:

1. Owned resources in `Watcher`.
2. Liveness of `HostKeyed`: a host in need of a certificate gets one if requests are signed; and
   that `IDrac` implements the calls `HostKeyed` makes.

Left out for good: Helm templates (but for the timeouts and the one replica) and CRD schemas; TLS,
WS-Man, WinRM and SSH transport, the WinRM and SSH sessions and their host keys, PowerShell and PEM or
X.509 parsing (I/O and libraries, seen by the models as calls that succeed or fail); how a backoff
grows, its jitter, renewal times and Go durations (pure arithmetic, of which the models use bounds
or take any outcome); messages, reasons and Events of `.status`; provisioner selection and
credentials (stateless).
