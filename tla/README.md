# Verification of the worker pod autoscaler

TLA+ modules, TLC configurations and TLAPS proofs for the Kubernetes controller in
this repository: it watches `WorkerPodAutoScaler` (WPA) resources, polls the queue
each of them names (SQS or beanstalkd) and scales a deployment or replica set.

Paths are relative to the repository's root.

## The system

| part | source | state | operations |
|---|---|---|---|
| scaling decision | `pkg/controller/controller.go` (from `getMaxDisruptableWorkers` on), `scale_operation.go` | none | `GetDesiredWorkers`, `GetScaleOperation` |
| controller | `pkg/controller/controller.go` | work queue of (key, event) items, informer caches, up to `--wpa-threads` workers inside `syncHandler` | event handlers, `processNextWorkItem`, `syncHandler`, `updateDeployment`, `updateReplicaSet`, `updateWorkerPodAutoScalerStatus` |
| queue registry | `pkg/queue/queue.go` | the map `item`, owned by the goroutine `Queues.Sync` | `Add`, `Delete`, `List`, `ListQueue`, `GetQueueInfo`, `updateMessage`, `updateMessageSent`, `updateIdleWorkers` |
| poller, one per service | `pkg/queue/poller.go` | the map `threads` of flags, one goroutine per queue | `Run`, `runPollThread`, `isThreadRequired` |
| SQS service | `pkg/queue/sqs.go` | client pools, two 60 s caches per URI | `poll` |
| beanstalk service | `pkg/queue/beanstalk.go` | pool of clients, each with one connection | `poll` |
| start and stop | `cmd/workerpodautoscaler/run.go`, `pkg/signals` | `stopCh` | wiring, `Run` |

How they interact. The API server's watches feed the informer caches; every change,
and every resync, adds an item to the work queue. A worker takes an item, reads the WPA
and the workload from the caches, calls `Queues.Add` (a list and a later send, both
over unbuffered channels), reads back what the poller knows, decides, updates the
workload and then the WPA's status. The status update is a change, which starts the
next round. Independently, `Poller.Run` starts a goroutine for every registered queue
of its service, and each goroutine lists its queue, polls the service, and sends up to
three separate updates to the registry. Nothing but the API server's objects outlives
the process.

What is hard here:

* `Queues.Add` lists and sends in two steps; what is reported in between is lost.
* the work queue serializes (key, event) pairs, not keys: one WPA can be with several workers;
* the caches lag, are changed in place by `updateDeployment`, and each decision mixes
  several of them; conflicts, refused status updates and `klog.Fatalf` follow;
* the poll flags are withdrawn and set again around goroutines that are inside a long poll;
* int32 conversions and the order in which tolerance, disruption, minimum and maximum apply;
* the process may die between the update of the workload and that of the status;
* a poll reports in up to three steps what it has put together from several calls, each of
  which may fail; registrations, syncs, producers and workers come between them;
* the goroutines of queues on one beanstalk tube share a client that any of them may repair.

`PROJECT.json` lists these hazards line by line with the properties that cover them.

## Modules

| module | models | used by |
|---|---|---|
| `Scaling` | the pure decision: `GetDesiredWorkers` and what it calls, `GetScaleOperation`; int32 arithmetic of width `Int32Max`, the build's float-to-int32 conversion as `Overflow32` | all below |
| `ScaleLoop` | abstract: every change of a workload's replicas is a decision taken on the replicas there are, or a user's | implemented by `Controller` |
| `WorkItem` | abstract: what the work queue promises of one item; wanted until a worker takes it, that worker's until its Done, wanted again after a failure | implemented by `Controller` |
| `Autoscaler` | the loop of one WPA with atomic syncs, a poller that reports one field at a time, users and time | `AutoscalerProofs` |
| `Queues` | the registry, one operator per channel message | `Poller`, `Controller`, `Service` |
| `Poller` | `Run` loops and poll goroutines of several services over the registry | `PollerProofs` |
| `Workqueue` | client-go's work queue as a record and operators on it | `Controller` |
| `Controller` | informers, work queue, workers, API server, restarts, over `Queues` and `Scaling` | `ControllerProofs`, `ControllerRefinement` |
| `Service` | what surrounds a poll: messages, workers that take them, syncs in two steps, over `Queues` and `Scaling` | `SQS`, `Beanstalk` |
| `SQS` | `poll` of `sqs.go`, every call to AWS and every report a step | `SQSProofs` |
| `Beanstalk` | `poll` of `beanstalk.go`, the client pool and its connections, the server | `BeanstalkProofs` |
| `MCAutoscaler`, `MCPoller`, `MCController`, `MCSQS`, `MCBeanstalk` | constants for TLC | |
| `ScalingProofs`, `QueuesProofs` | lemmas about the operators of the decision and of the registry | the proofs below |
| `AutoscalerProofs`, `PollerProofs`, `SQSProofs`, `BeanstalkProofs` | theorems about the specifications | |
| `ControllerProofs` | lemmas about the work queue; the controller's types, who holds an item, the time of the last scaling, and what the registry has still to be told | `ControllerRefinement` |
| `ControllerRefinement` | that the controller implements `ScaleLoop` and `WorkItem`, and what one update may take away | |

The parts are composed by level of detail. `Poller` has all goroutines and leaves open what a
poll reports; `SQS` and `Beanstalk` have one poll in full, with the registry and the syncs it
interleaves with; `Controller` has the stale caches and, of a poll, what it counts and when it reports it.

Operators named "a bug the runs look for" are mutations of the definition that follows
them. The specifications never use them; they exist to show that a property notices the
bug.

### Correspondence

**Decision** (`Scaling`). `w` is the part of the spec the decision reads, `q` the
registry's entry. Floats appear at integer values only, so `Ceil` is division rounded up and
the tolerance test `|desired-current|/current <= 0.1` is `10*|desired-current| <= current`.
The conversion of +Inf, NaN and too large a float yields one constant, `Overflow32`: Go leaves
it to the build, and amd64 yields the smallest int32.

**Loop** (`Autoscaler`). `Sync` is `syncHandler` from `GetQueueInfo` on in one step. Time is
the age of `LastScaleTime`, up to the first value past the delay. Every sync sees the replicas there are;
that the controller's caches lag behind them is the subject of `Controller`.

**Registry** (`Queues`). `item[key] = NoSpec` is an absent key. `AddList` is `Add` up to its
list, `AddSend` its send; in between, `call` holds the entry. A URI is a value with a service,
`"unsupported"` (also for the empty URI) or `"malformed"`. A URI of a service is registered whether or
not the service was started.

**Poller** (`Poller`). `run[s]` is where the loop of service `s` stands; one iteration is one
step, as only `Run` writes `threads`. A goroutine is at `check` (`isThreadRequired`), `list`
or `poll`; it lists its key, whatever service the entry is of by then. What a poll reports is any value of a
set. `Started` are the services with a poller (`--queue-services`). Two history variables serve the properties: how often
a key was removed (`removals`, which also bounds an instance), and which queues a service no longer lists (`left`).

**Controller** (`Controller`). `wpas`, `deployments`: the API server. `wpaWatch`,
`deploymentWatch`: versions not delivered yet. `wpaCache`, `deploymentCache`: the listers.
Resource versions are not numbered: an update of a workload conflicts iff its watch is not
empty, one of a status iff the worker's copy is no longer `fresh`. `Get` is a worker's read of
its item, its WPA and its workload and the list of `Add`; `Registry` the send (or
`Queues.Delete`); `Forget`, `Ignore` and `Requeue` the early returns, the last one with an error; `Decide` everything up to the scale operation; `Update` one try of
`RetryOnConflict`; `UpdateStatus` the rest. `down` is set by `klog.Fatalf`, a kill or a
signal; `Boot` is the restart. The cool-off tells `"recent"` from `"past"`, and `Cool` makes all
that is recent past: scalings closer together than the delay count as simultaneous.
An event is enqueued in the step that changes the cache; the time between the two adds
nothing to the time the item may wait in the queue.
`Poll` is a poll that counts and reports at once; `StartPoll` and `EndPoll` are one that takes longer and reports the count of the
queue the entry named when it began, into whatever entry there is.
Actions `Disturb` guards come from outside; `Possible` selects them per instance and
`MaxEdits` bounds their number.

**Around a poll** (`Service`). A message is `"absent"`, `"visible"`, `"taken"` by a worker or
`"held"` by a long poll that has reserved it. A sync is `StartSync` (up to the list of `Add`) and
`FinishSync` (the send and the decision); it reads the replicas there are. Two ghost fields
of a poll serve the properties only: `waited`, the messages visible ever since a long poll began,
and `lived`, those that have been in the queue all through any other poll. `Edits` are the pairs of
specs between which a user may change.

**SQS** (`SQS`). `poll[k].at` names the next call of the goroutine: `"receive"` the long poll,
`"sent"` CloudWatch's rate, `"visible"` and `"invisible"` the two `GetQueueAttributes`, `"silence"`
CloudWatch's count of received messages; the other places are reports to the registry. What
CloudWatch answers is minutes old and so any value of a set; `cache` is the answer of the last
minute. `Fail` is an error of any call, after which what was reported so far stays. A region outside
`Configured` has no client: `Panic` is the nil dereference and the restart.

**Beanstalk** (`Beanstalk`). `pool` is the client stored for the tube, `conn` the connection of
each client, `open` the connections alive, `holder` the connection a job is reserved by. A client
is looked up and stored in two steps (`getClient`, `NewBeanstalkClient`), as no lock spans them. A
command reads the client's connection anew; it `Answers` unless another goroutine's reserve is
under way on it. `Broken` is an error on a lost connection: EOF is repaired within the command and
tried once more (`"redial"`), any other error ends the poll with `b.reestablishConn`
(`"repair"`). A dial that fails leaves the nil connection, and `Panic` is the next command on it.
`ServerDown` closes all connections and keeps the jobs or loses them, `Drop` closes one.
Connections that nothing refers to are used again.

## Runs

Passing:

| run | instance | shows |
|---|---|---|
| `Autoscaler` | Int32Max 31; 5 specs (percent and absolute disruption, throughput, minimum above maximum, zero disruption, target 0), 6 counts, 3 rates, 4 idle counts | bounds, disruption, a worker for every backlog, no hunting, monotony in the count, convergence |
| `Poller` | 2 services, 1 key with a URI of each and an unsupported one, 2 callers, 2 goroutines, a removal with Adds around it | a service has one poll of a queue under way until the queue is removed or leaves it; a queue that stays is polled for ever, wherever it came from; until a removal every flag has its goroutine; one that left is polled no more; late reports change nothing but counts |
| `Controller` | 1 worker, 2 specs of different queues, backlogs and targets, 3 disturbances out of create, edit, delete, a long poll, kill, stop | registry and replicas end right, whatever a poll of the other queue reports late; no item of the work queue, no removal and no registration is forgotten; no older scale time replaces a newer one; every write is a decision on the replicas there are; disruption is respected |
| `ControllerWorkload` | 4 specs, three of which the controller cannot act on; 3 disturbances out of create, removal and deployment of the workload, backlog, reports, broken watch; MaxLag 1 | errors are retried to the right end, under every report, no item is lost in its back-off, and the queue a WPA names is registered or its registration on the way |
| `ControllerTwoWorkers` | 2 workers; create, then a new version of the workload or other replicas | no item is with two workers, convergence with conflicts |
| `SQS` | 1 queue, 1 message, 3 specs (by backlog, by throughput, and in a region without a client, from which it is edited away), rates 0 and 60, maxDisruption 0 | no message that stays is overlooked; a message gets a worker after any errors; an empty queue is left with the minimum |
| `Beanstalk` | 1 queue, 1 job, 4 connections, minimum 1 edited to 0, maxDisruption 0; connections lost, server and process restarted at any step | the same, and no job stays reserved by a poll that is over |

Why the bounds are enough: the races need two parties and one re-registration, or one
lagging version; `MaxLag` 2 allows one more, `RetrySteps` 2 a conflict that is retried and
one that gives up (5 in the code), `MaxEdits` 3 a life of a WPA with a change in it.
Int32Max 31 is small enough for sums and products to overflow and larger than
all replicas. Two goroutines and one removal in `Poller` are the old and the new one of a queue that left a service and came back.
One message is enough for `SQS` and `Beanstalk`: it is missed or seen, and the
decision tells no backlog from some (several messages are the subject of the proof of
`NoneOverlooked`). maxDisruption 0 makes the idle branch the only way down, which is
what `IdleWorkersGo` is about. Four connections are one for the client, one for a poll, one for a
job and one to dial.

Violations. Each states what a document or comment promises and finds a behaviour of the code
that breaks it; `PROJECT.json` quotes the source under "findings".

| run | property | what happens |
|---|---|---|
| `PollerStarved` | `RegisteredIsPolled` | a registered queue is never polled again |
| `ControllerZombie` | `RegistryInSync` | an entry outlives its WPA (two workers) |
| `ControllerCoolOff` | `CoolOffRespected` | a scale-down right after a scale-up |
| `ControllerLag` | `OnlyAbsenceIsFatal` | a lagging cache ends the process |
| `BeanstalkDown` | `NeverPanics` | a dial that fails leaves a nil connection, the next command on it ends the process |

Limits of the code that the passing properties respect instead of promising more:

* The maximum is applied after maxDisruption, so a lowered maxReplicas removes the excess at once:
  `DisruptionBounded` is about replicas within maxReplicas, and `DisruptionRespected` lets an update that goes to
  maxReplicas take more. `DisruptionRespected` is checked and proved without scaling by hand, which can
  make the decision late.
* `RegistryInSync` is about URIs of a service: an edit to another URI leaves the old queue in charge.
* A busy queue that is always empty keeps its workers only through minReplicas or `secondsToProcessOneJob`.
* A status update that is refused is dropped, with the time of the scaling in it: `Convergence` holds,
  the cool-off does not see that scaling.
* With `targetMessagesPerWorker` 0 the backlog divides to +Inf, the smallest int32 on amd64, and
  every worker above the minimum goes, maxDisruption or not: the properties say `target > 0`.
* A queue that is removed, or moves to another service, and comes back while its goroutine is in a long poll may
  get a second goroutine, and neither ends: `OnePollUntilGone` is about queues that did not leave.
* README.md:150 says "Queue poller service only operates on the filtered WPA objects"; a goroutine lists
  its key without its service, so one whose queue has moved to another service polls the URI it has moved to, until
  the next tick takes its flag. `GoneIsNotPolled` shows that it ends.
* A late report of a queue that was removed and registered again, or edited to another URI, is taken for the new queue's
  count until the next one comes; `Convergence` holds with such reports.
* A deletion the watch missed comes as a tombstone, for which the handler finds no key: the entry
  stays in the registry. `RegistryInSync` and `DeletionFollowed` are checked without broken watches.
* The counts of SQS are two answers: a message whose visibility timeout ends between them is
  missed for one poll, and seen by the next. `NoneOverlooked` leaves it out.
* `cachedNumberOfSentMessages` comes first: as long as CloudWatch fails for the rate, a queue with
  `secondsToProcessOneJob` has no counts at all. The liveness properties assume that errors end.
* `sqs.go:434` says of messages being processed "we do not scale down"; the code leaves
  `idleWorkers` as it was, and the scale-down by backlog goes on.
* Goroutines of two queues on one tube share a connection: one that repairs it takes it from the
  other, whose job may then stay reserved until its time to run is over: the release goes over the new
  connection, where the job is not found, and the old one stays open. `PutBack` is checked and proved
  for one queue per tube. With two that are registered and in their long polls, TLC finds the job that
  stays reserved after 16 steps; from `Init` this is deeper than a run gets in its time.
* `current-waiting` counts the WPA's own long polls as waiting workers.

`DeletionFollowed` and `RegistrationFollowed` are the safety under `RegistryInSync`: an entry that is
wrong has its correction in the watch, in the work queue, in a back-off or with a worker. They are implications,
as the code forgets a correction in two situations:

* Two workers in `syncHandler` for one WPA (the work queue keeps apart pairs of key and event only): the
  `Add` of one is served after the `Delete` of the other. `OneSyncPerKey` is the premise without which
  `ControllerZombie` finds the entry that stays.
* A `"delete"` item that is taken when its WPA is back: created, deleted and created again before a worker comes
  to it, the WPA is registered for its `"add"` and then removed for its `"delete"`, until the next resync; one
  worker is enough. `NoLateDeletion` is the premise that leaves it out; without it TLC violates the rest.

With one worker the first cannot happen, and without deletions neither can the second: `RegistrationOnTheWay`, the
conclusion by itself, is an invariant of the run `ControllerWorkload`.

An observation from the mutants: `updateDeployment` changes the lister's object in place,
against the rule the status update quotes, and `DecidesOnWhatIs` depends on it. With a deep copy
(`ChangeACopy`) the next sync may read the replicas of before the last update, and write a decision
taken on them.

Deadlock checking is off for the runs of `Controller`, which rests when every object is settled.

## Fairness

`Autoscaler`: the resync period runs `Sync` for ever, and time passes.

`Poller`: goroutines are scheduled, tickers fire and a poll returns, as its calls have
timeouts. An `Add` under way ends. Nobody has to register or remove anything.

`Controller`: watches, back-offs, resyncs and workers make progress, the clock
advances, a process that is down is restarted. The poller's report is strongly fair outside the
window between an `Add`'s list and its send: under weak fairness alone TLC finds the
behaviour in which every report falls into that window and is overwritten. The window
is microseconds every 20 seconds, so this is assumed not to go on for ever. Liveness is stated
for the time after the last disturbance (`Quiet`).

`SQS` and `Beanstalk`: the goroutine of a poll is scheduled and its calls return, with an answer or an
error (`WF` on `PollStep`); resyncs start a sync again and again (`WF` on `StartSync`), and one that is
under way ends, some time with the cool-off over (`SF` on `FinishSync` with `NeverScaled`, as an
earlier scaling does not stay recent for ever). As in `Controller`, not every report falls into an
`Add`'s window. In `SQS` a minute passes, after which the cache is asked anew (`WF` on `Expire`). Nothing is
assumed about producers, workers, errors or connections; `Quiet` states in each property what has to end
some day: edits, errors, outages, and that the queue's region is configured.

## Proofs

No proof bounds a set or a number: each holds for every number of queues, workers, goroutines, messages and
specs, for `Int32Max` any positive natural and for every conversion of the build (`ScalingAssumption`). The
named assumptions of the modules give constants their types; TLC evaluates them in the runs. What a
theorem needs beyond them stands in its ASSUME. Some keep a value that stands for "none" apart from the
values it stands beside, as Go's nil and absent keys are: `NoEntryAssumption` and `IdleAssumption` of `Queues`,
`NoGoroutineAssumption` of `Poller`, `FreeAssumption` and `GoneAssumption` of `Controller`.

`ScalingProofs` has the lemmas on the decision: ranges of the arithmetic (`WrapRange`, `CeilDivRange`,
`ConvertRange`, `MinWorkersRange`, `BacklogWorkersRange`), what it returns (`DesiredRange`,
`DesiredDisruption`), and how it grows with the backlog. `QueuesProofs` has what each message to
the registry keeps, from `NoEntryAssumption` (no entry is taken for an absent one).

`AutoscalerProofs`, for every set of specs, reports, hand-made replicas and every delay:

* `TypeCorrect`: `TypeOK` is inductive. The decision returns a value of `Nat32` for every input of its
  types, because each rule ends at the minimum, the maximum or a value between.
* `InBounds`, `Disruption`, `Backlog`: `ScalesIntoBounds`, `DisruptionBounded`, `BacklogKeepsAWorker`, each
  from `TypeOK` and a lemma on what the decision returns.
* `Monotony`: `MoreMessagesMoreWorkers`. The quotient grows with the backlog, and so does every
  rule applied to it; only where the tolerance keeps the replicas for one of two counts the cases differ.
* `Steady`: `NoHunting`. A second decision on the same report starts from replicas the rules have already
  reached, which each of them keeps or moves on in the same direction.

All but the first two assume `SaneDisruption`: maxDisruption, as computed, does not overflow an
int32 (a percentage above 100 of many replicas, or an absolute value beyond int32, does). `Steady` also
assumes positive targets.

`PollerProofs`:

* `TypeCorrect`, from the inductive `Types`, which adds to `TypeOK` that a goroutine inside a poll has an
  entry: what it reports is typed only because of that.
* `Registration`: `OnlyAddRegisters`, from `Types`: what a goroutine reports, it reports on the entry of the key it polls.
* `OnePoll`: `OnePollUntilGone`. It is not inductive: a second goroutine starts where
  a flag is missing. `Alone` adds, of queues that never left the service, that a flag, and the list a
  loop works from, name queues the service lists, that a loop reaps none of them, and that a goroutine has its flag.
* `FlagKept`: `FlagHasGoroutine`, the other direction, for queues never removed, whatever moves their URI. A goroutine ends when
  its flag or its queue is gone; `Flags` adds that a flag, and what `Run` is about to start, name
  registered queues, so that of a queue never removed neither is ever the case. Of a queue that never left
  its service `Alone` makes this exactly one goroutine per flag; the run `PollerStarved` shows what a removal makes of it.

`SQSProofs`:

* `TypeCorrect`; `TypeOK` is inductive.
* `NothingOverlooked`: `NoneOverlooked`. The inductive `Counted` carries what the first answer has
  established to the second: the visible count covers those that stayed and are visible now, and
  a message can leave the visible ones only for the invisible ones, which the second answer counts.

`BeanstalkProofs`:

* `TypeCorrect`, for finitely many queues. `Types` adds that a poll that looks for a client or redials
  knows for which command. `NewConnExists` is a pigeonhole argument: there are more connections than
  places that refer to one, so the CHOOSE of `NewConn` has a value.
* `NothingOverlooked`: `NoneOverlooked`, from `Counted` as above.
* `JobPutBack`: `PutBack`, for one queue on the tube. It is not inductive: the release must find the job on
  the connection that holds it. `HoldsItsJob` adds that this is the client's connection and alive, and that a
  reserve runs on the client's connection; a second goroutine could replace it (see the limits).
* `PanicNeedsOutage`: `NeverPanics`, the property `BeanstalkDown` violates, for every behaviour in which the server stays
  up, however many goroutines share and repair clients and whatever connections are lost. `Connected`: the client in
  the pool, and that of every goroutine which has one, has a connection, as a dial then succeeds.

`ControllerProofs`, for finitely many keys and any number of workers:

* `OneHolder`: `OneWorkerPerItem`, across restarts. `Holding` says of the work queue that it lists each item once, only
  dirty ones and none being processed, and that what is processed is with at most one worker; `Held` adds that
  it is with one, whichever way `syncHandler` ended.
* `TypeCorrect`. `Types` adds what the steps rely on: an empty watch means that the cache shows
  the API server's object (the newest version is the last one of the watch or, when there is none, the cache),
  and a worker's copy that is still `fresh` is the object.
* `Copies`: `CopiesKnown`, these two facts by themselves. The model has no version numbers; the theorem says what stands for
  them: a status update, refused unless its copy is `fresh`, replaces the very object its copy is of.
* `TimeKept`: `ScaleTimeKept`. A status update is refused unless its copy is `fresh`, and then, by `Types`, the copy is
  the object it replaces; `TimesKnown` adds that the time a worker goes by is never older than that of its copy.
* `RemovalFollows`: `DeletionFollowed`, when no watch is replaced by a list, whose tombstone loses the deletion. Under
  its premise `RemovalsDue` is inductive: where the cache shows the WPA gone and none of its items waits, an entry
  has a worker that is about to remove it, and no worker is between the two halves of an `Add`, which would
  bring it back. `CallsMatch` says whose entry the second half registers.
* `RegistrationFollows`: `RegistrationFollowed`. `AddsDue`, the counterpart, is of the caches, too: the queue of a WPA
  the cache shows is registered, or an item of it waits or is delayed, or a worker has it in its `Add`;
  `NoRemoval` says that under the premise no worker removes what is there.
* `RegistrationKept`: `RegistrationOnTheWay` without a premise about the run, for one worker when nobody deletes.
  `NoDeletion` says that then no watch holds an absence and no item is a deletion.

The lemmas before them say once what a step does: to the items and to who has them (`ItemStepNext`), to one
worker (`JobNext`, `GetOutcome`), to the caches, the registry's entries and the calls under way (`CacheNext`,
`EntryNext`, `CallNext`).

`ControllerRefinement`: `Decisions` proves `DecidesOnWhatIs`, that the controller implements `ScaleLoop`, for one worker
(two may hold two items of one resource), when nobody else changes the replicas (`Possible` without
`"scale"`, `"deploy"`, `"remove"`). `Current` is the
invariant: every version under way in a workload's watch has the replicas of the API server, and so has the
cache, except while the worker retries a refused update, whose replicas it has already put into
the cached object; and what the worker decided it decided on the replicas there are. A restart reads the API server
anew.

`NothingLost` proves `NoItemLost`, that for any number of workers the controller implements `WorkItem` for each of its items:
`wanted` is what is dirty, `later` what is held back, `holders` are the workers that have the item and `failing` those of them whose
`syncHandler` has returned an error. From `Types`, every step is one of `ItemStepNext`'s, and each of these is a
step of `WorkItem` or leaves the item alone (`AddedKept`, `HandedKept`, `EndedKept`).

`Disruption`, in the same module, proves `DisruptionRespected` under the assumptions of `Decisions`, positive targets,
`Sane` maxDisruption, and no report that calls all workers idle (`IdleCounts`; such a report sets
maxDisruption aside). It follows from `Current`, which says that the replicas the decision was taken on are those that are
overwritten, and from `DecisionKeeps`, what the rules leave of them.

`OneSyncPerKey` and `NoLateDeletion` are premises about a behaviour, not assumptions on constants: the proofs use them at each step
of the behaviours that satisfy them. One worker satisfies the first.

Only model-checked: all liveness (`RegistryInSync` and `Convergence` of `Controller`, `PolledUntilRemoved` and
`GoneIsNotPolled` of `Poller`, `Convergence` of `Autoscaler`, and the services' `MessageGetsAWorker` and `IdleWorkersGo`), as
temporal reasoning with fairness and ENABLED is out of the prover's reach.

## Not modelled

* Parsing of URIs (`getRegion`, `getTube`), quantities, flags and beanstalkd's statistics, with their
  `Fatalf` on input no server sends; metrics, logs, the status endpoint.
* The values of the sent-rate cache of `sqs.go`: a cached rate is one of the rates CloudWatch may answer anyway.
* `put` of `beanstalk.go`, which only tests call; `DEADLINE_SOON`, which a reserve gets on a connection
  that holds another job (a single goroutine never reserves a second one); a network
  failure that only the client or only the server notices.
* `AvailableReplicas`, which is only copied into the status; API errors other than conflicts and
  absence (any other error of a workload update is fatal like absence).
* The replica set's informer, which `Run` does not wait for; a sync before it is filled gets "not
  found" and is retried, as after `"remove"`.
* Values of back-off delays; seconds to which `metav1.Time` is truncated.
* After `stopCh` closes the registry no longer serves its channels, and whoever sends to it waits; `Run` does not
  wait for the workers and `main` returns at once, so the model ends there.
* Generated clients, listers, deep copies.

## Plan

Done: the decision and the loop, the registry, the poller, the controller, both services, and the
theorems above. Left:

1. Goroutines of two queues on a shared beanstalk client as a run: an initial state with both registered, or a
   smaller model of the client alone, to bring the reserved job within reach.
2. `RegistryInSync` and `Convergence` with two workers and another resource that shares the workload.
3. The whole system: `Controller` over `Poller` and a service instead of its reports.
