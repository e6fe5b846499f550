--------------------------- MODULE Controller ---------------------------
(***************************************************************************)
(* The controller (pkg/controller/controller.go): informers turn what the  *)
(* API server's watches deliver into work items, workers take them and run *)
(* syncHandler against informer caches that lag behind, the queue registry *)
(* and the API server.  A step of a worker is what it does between two     *)
(* points where others may interfere.                                      *)
(*                                                                         *)
(* Versions are not numbered: a cached object is the current one iff its   *)
(* watch has nothing left to deliver, and a copy a worker took remembers   *)
(* whether it still is.  Times are told apart as far as the cool-off does: *)
(* "recent" is less than the delay ago, "past" is more.  A replica set     *)
(* stands for a deployment as well, and of the poller there are reports on *)
(* the queue an entry names, or named when the poll began (Poller.tla has  *)
(* the rest).                                                              *)
(***************************************************************************)
EXTENDS Queues, Scaling, Workqueue, SequencesExt

CONSTANTS
    Deployments,      \* workloads a spec may name
    NoDeployment,     \* the spec names neither a deployment nor a replica set
    Gone,             \* the object does not exist
    Free,             \* the worker waits in Get
    WpaSpecs,         \* specs a user may give a WorkerPodAutoScaler
    Backlogs,         \* message counts a queue may have
    InitialBacklogs,  \* what the queues hold at first
    SentRates,        \* rates the poller may report
    IdleCounts,       \* idle workers the poller may report
    HandScaled,       \* replicas a user may give a workload
    ScaleDownDelay,   \* --scale-down-delay-after-last-scale-activity
    RetrySteps,       \* tries of retry.DefaultRetry
    Possible,         \* which of the possible disturbances happen in an instance
    MaxEdits,         \* bound on how many of them do
    MaxLag            \* bound on what a watch still has to deliver

Disturbances == {"create", "edit", "delete", "scale", "deploy", "remove",
                 "rollout", "backlog", "late", "relist", "kill", "stop"}

WpaSpec == [min : Nat32, max : Nat32, target : Nat32, seconds : Nat,
            maxDisruption : MaxDisruptionValue,
            uri : Uris, deployment : Deployments \cup {NoDeployment}]

ASSUME ControllerAssumption ==
    /\ WpaSpecs \subseteq WpaSpec
    /\ Backlogs \subseteq Nat32
    /\ InitialBacklogs \subseteq [Uris -> Backlogs]
    /\ SentRates \subseteq Nat
    /\ IdleCounts \subseteq Int32
    /\ HandScaled \subseteq Nat32
    /\ ScaleDownDelay \in Nat
    /\ RetrySteps \in Nat \ {0}
    /\ Possible \subseteq Disturbances
    /\ MaxEdits \in Nat /\ MaxLag \in Nat \ {0}

VARIABLES
    wpas,             \* API server: per key, the WorkerPodAutoScaler, or Gone
    deployments,      \* API server: per workload, its replicas, or Gone
    wpaWatch,         \* per key, the versions the informer has not seen yet
    deploymentWatch,
    wpaCache,         \* the listers
    deploymentCache,
    workqueue,
    worker,           \* per worker, where syncHandler is and what it has read
    backlog,          \* per URI, what the queue holds
    polling,          \* per key, what a poll under way will report, or Unsynced: none
    down,             \* why the process is down, "up" when it is not
    scaledAt,         \* per workload, when the controller last wrote it
    edits             \* disturbances so far

apiVars == <<wpas, deployments, wpaWatch, deploymentWatch, scaledAt>>
cacheVars == <<wpaCache, deploymentCache>>
envVars == <<backlog, polling, down, edits>>
vars == <<item, call, apiVars, cacheVars, workqueue, worker, envVars>>

Workers == Callers

Times == {"never", "recent", "past"}

Messages == Nat32 \cup {Unsynced}

Status == [current : Nat32, desired : Nat32, messages : Messages, last : Times]

NewStatus == [current |-> 0, desired |-> 0, messages |-> 0, last |-> "never"]

WpaVersion == [spec : WpaSpecs, status : Status] \cup {Gone}

DeploymentVersion == Nat32 \cup {Gone}

Items == [key : Keys, name : {"add", "update", "delete"}]

Event(key, name) == [key |-> key, name |-> name]

\* A worker in syncHandler: the objects it has read, and whether its copy of the
\* WorkerPodAutoScaler is still the API server's version.
Job == [at : {"forget", "ignore", "requeue", "registry", "decide", "update", "status"},
        event : Items, wpa : WpaVersion, fresh : BOOLEAN, current : Nat32,
        desired : Int32, messages : Messages, last : Times, tries : 0 .. RetrySteps]

\* No worker in syncHandler is taken for a free one.
ASSUME FreeAssumption == Free \notin Job

\* No object is taken for one that is gone.
ASSUME GoneAssumption == Gone \notin [spec : WpaSpecs, status : Status]

TypeOK ==
    /\ QueuesTypeOK
    /\ \A k \in Keys : {wpas[k], wpaCache[k]} \cup ToSet(wpaWatch[k]) \subseteq WpaVersion
    /\ \A d \in Deployments :
          {deployments[d], deploymentCache[d]} \cup ToSet(deploymentWatch[d])
              \subseteq DeploymentVersion
    /\ workqueue.dirty \cup workqueue.processing \cup workqueue.delayed \subseteq Items
    /\ \A w \in Workers : worker[w] # Free => worker[w] \in Job
    /\ backlog \in [Uris -> Backlogs]
    /\ polling \in [Keys -> Backlogs \cup {Unsynced}]
    /\ down \in {"up", "fatal", "killed", "stopped"}
    /\ scaledAt \in [Deployments -> Times]
    /\ edits \in 0 .. MaxEdits

Init ==
    /\ QueuesInit
    /\ wpas = [k \in Keys |-> Gone]
    /\ deployments \in [Deployments -> HandScaled]
    /\ wpaWatch = [k \in Keys |-> <<>>]
    /\ deploymentWatch = [d \in Deployments |-> <<>>]
    /\ wpaCache = wpas
    /\ deploymentCache = deployments
    /\ workqueue = EmptyQueue
    /\ worker = [w \in Workers |-> Free]
    /\ backlog \in InitialBacklogs
    /\ polling = [k \in Keys |-> Unsynced]
    /\ down = "up"
    /\ scaledAt = [d \in Deployments |-> "never"]
    /\ edits = 0

-----------------------------------------------------------------------------
(* The API server                                                          *)

\* Copies of the object that workers hold are no longer the current version.
Outdate(k) ==
    [w \in Workers |->
        IF worker[w] # Free /\ worker[w].event.key = k
        THEN [worker[w] EXCEPT !.fresh = FALSE] ELSE worker[w]]

WriteWpa(k, version) ==
    /\ Len(wpaWatch[k]) < MaxLag
    /\ wpas' = [wpas EXCEPT ![k] = version]
    /\ wpaWatch' = [wpaWatch EXCEPT ![k] = Append(@, version)]

WriteDeployment(d, version) ==
    /\ Len(deploymentWatch[d]) < MaxLag
    /\ deployments' = [deployments EXCEPT ![d] = version]
    /\ deploymentWatch' = [deploymentWatch EXCEPT ![d] = Append(@, version)]

-----------------------------------------------------------------------------
(* Informers and event handlers                                            *)

DeliverWpa(k) ==
    /\ down = "up"
    /\ wpaWatch[k] # <<>>
    /\ LET new  == Head(wpaWatch[k])
           name == CASE new = Gone                           -> "delete"
                     [] new # Gone /\ wpaCache[k] = Gone     -> "add"
                     [] OTHER                                -> "update"
       IN  /\ wpaCache' = [wpaCache EXCEPT ![k] = new]
           /\ workqueue' = Enqueue(workqueue, Event(k, name))
    /\ wpaWatch' = [wpaWatch EXCEPT ![k] = Tail(@)]
    /\ UNCHANGED <<item, call, wpas, deployments, deploymentWatch, scaledAt,
                   deploymentCache, worker, envVars>>

DeliverDeployment(d) ==
    /\ down = "up"
    /\ deploymentWatch[d] # <<>>
    /\ deploymentCache' = [deploymentCache EXCEPT ![d] = Head(deploymentWatch[d])]
    /\ deploymentWatch' = [deploymentWatch EXCEPT ![d] = Tail(@)]
    /\ UNCHANGED <<item, call, wpas, deployments, wpaWatch, scaledAt, wpaCache,
                   workqueue, worker, envVars>>

\* A broken watch is replaced by a list.  Of an object that is gone the handler
\* gets a tombstone, for which getKeyForWorkerPodAutoScaler finds no key: the
\* item "" it adds names no object and does nothing.
Relist(k) ==
    /\ down = "up"
    /\ "relist" \in Possible /\ edits < MaxEdits
    /\ wpaWatch[k] # <<>>
    /\ wpaCache' = [wpaCache EXCEPT ![k] = wpas[k]]
    /\ wpaWatch' = [wpaWatch EXCEPT ![k] = <<>>]
    /\ workqueue' = CASE wpas[k] = Gone -> workqueue
                      [] wpas[k] # Gone /\ wpaCache[k] = Gone ->
                            Enqueue(workqueue, Event(k, "add"))
                      [] OTHER -> Enqueue(workqueue, Event(k, "update"))
    /\ edits' = edits + 1
    /\ UNCHANGED <<item, call, wpas, deployments, deploymentWatch, scaledAt,
                   deploymentCache, worker, backlog, polling, down>>

\* The resync period's update event for every object of the store.
Resync(k) ==
    /\ down = "up"
    /\ wpaCache[k] # Gone
    /\ workqueue' = Enqueue(workqueue, Event(k, "update"))
    /\ UNCHANGED <<item, call, apiVars, cacheVars, worker, envVars>>

RedeliverDelayed ==
    /\ down = "up"
    /\ \E i \in workqueue.delayed : workqueue' = Redeliver(workqueue, i)
    /\ UNCHANGED <<item, call, apiVars, cacheVars, worker, envVars>>

-----------------------------------------------------------------------------
(* Workers                                                                 *)

At(w, place) == down = "up" /\ worker[w] # Free /\ worker[w].at = place

Holds(w, i) == worker[w] # Free /\ worker[w].event = i

\* A bug the runs look for: Done is not called.
FinishWithoutDone(w) == worker' = [worker EXCEPT ![w] = Free] /\ UNCHANGED workqueue

\* syncHandler returned nil.
Finish(w) ==
    /\ worker' = [worker EXCEPT ![w] = Free]
    /\ workqueue' = ItemDone(workqueue, worker[w].event)

NewJob(event, wpa) ==
    [at |-> "forget", event |-> event, wpa |-> wpa,
     fresh |-> wpaWatch[event.key] = <<>>, current |-> 0, desired |-> 0,
     messages |-> 0, last |-> "never", tries |-> 0]

Hold(w, job) == worker' = [worker EXCEPT ![w] = job] /\ workqueue' = Dequeue(workqueue)

\* Get and the reads of syncHandler, up to the registry's answer to Add's list.
Get(w) ==
    /\ down = "up" /\ worker[w] = Free
    /\ workqueue.queue # <<>>
    /\ LET event == Head(workqueue.queue)
           wpa   == wpaCache[event.key]
           spec  == wpa.spec
           failed == \/ deploymentCache[spec.deployment] = Gone
                     \/ ServiceOf[spec.uri] = "malformed" /\ event.name # "delete"
           job   == [NewJob(event, wpa) EXCEPT
                        !.current = deploymentCache[spec.deployment],
                        !.last = wpa.status.last]
       IN  CASE wpa = Gone ->
                    Hold(w, NewJob(event, wpa)) /\ UNCHANGED queueVars
             [] wpa # Gone /\ spec.deployment = NoDeployment ->
                    /\ Hold(w, [NewJob(event, wpa) EXCEPT !.at = "ignore"])
                    /\ UNCHANGED queueVars
             [] wpa # Gone /\ spec.deployment # NoDeployment /\ failed ->
                    /\ Hold(w, [NewJob(event, wpa) EXCEPT !.at = "requeue"])
                    /\ UNCHANGED queueVars
             [] OTHER ->
                    \/ /\ event.name = "delete"
                       /\ Hold(w, [job EXCEPT !.at = "registry"])
                       /\ UNCHANGED queueVars
                    \/ /\ event.name # "delete"
                       /\ AddList(w, event.key, spec.uri, job.current, spec.seconds)
                       /\ Hold(w, [job EXCEPT !.at = "registry"])
                    \/ /\ event.name # "delete" /\ ServiceOf[spec.uri] = "unsupported"
                       /\ Hold(w, [job EXCEPT !.at = "decide"])
                       /\ UNCHANGED queueVars
    /\ UNCHANGED <<apiVars, cacheVars, envVars>>

\* A bug the runs look for: the registry is not told.
ForgetNothing(w) ==
    /\ At(w, "forget")
    /\ Finish(w)
    /\ UNCHANGED <<item, call, apiVars, cacheVars, envVars>>

\* The WorkerPodAutoScaler is gone.
Forget(w) ==
    /\ At(w, "forget")
    /\ Delete(w, worker[w].event.key)
    /\ Finish(w)
    /\ UNCHANGED <<apiVars, cacheVars, envVars>>

\* The spec names no workload.
Ignore(w) ==
    /\ At(w, "ignore")
    /\ Finish(w)
    /\ UNCHANGED <<item, call, apiVars, cacheVars, envVars>>

\* Bugs the runs look for: no Done here; the item is not tried again.
RequeueWithoutDone(w) ==
    /\ At(w, "requeue")
    /\ workqueue' = Delay(workqueue, worker[w].event)
    /\ worker' = [worker EXCEPT ![w] = Free]
    /\ UNCHANGED <<item, call, apiVars, cacheVars, envVars>>

RequeueNever(w) ==
    /\ At(w, "requeue")
    /\ Finish(w)
    /\ UNCHANGED <<item, call, apiVars, cacheVars, envVars>>

\* syncHandler returned an error: AddRateLimited, and Done.
Requeue(w) ==
    /\ At(w, "requeue")
    /\ workqueue' = ItemDone(Delay(workqueue, worker[w].event), worker[w].event)
    /\ worker' = [worker EXCEPT ![w] = Free]
    /\ UNCHANGED <<item, call, apiVars, cacheVars, envVars>>

\* The rest of Queues.Add, or Queues.Delete.
Registry(w) ==
    /\ At(w, "registry")
    /\ IF worker[w].event.name = "delete" THEN Delete(w, worker[w].event.key) ELSE AddSend(w)
    /\ worker' = [worker EXCEPT ![w].at = "decide"]
    /\ UNCHANGED <<apiVars, cacheVars, workqueue, envVars>>

Age(time) ==
    CASE time = "never" -> NeverScaled [] time = "recent" -> 0 [] OTHER -> ScaleDownDelay + 1

Decide(w) ==
    /\ At(w, "decide")
    /\ LET job     == worker[w]
           entry   == ListQueue(job.event.key)
           desired == GetDesiredWorkers(job.wpa.spec, entry, job.current)
           op      == GetScaleOperation(desired, job.current, Age(job.last), ScaleDownDelay)
       IN  IF entry = NoSpec \/ entry.messages = Unsynced
           THEN Finish(w)
           ELSE /\ worker' = [worker EXCEPT ![w].desired = desired,
                                            ![w].messages = entry.messages,
                                            ![w].at = IF op = "ScaleNoop" THEN "status"
                                                      ELSE "update"]
                /\ UNCHANGED workqueue
    /\ UNCHANGED <<item, call, apiVars, cacheVars, envVars>>

\* Bugs the runs look for: conflicts are retried without end; the copy taken from
\* the lister is a deep one.
NeverGiveUp(tries) == FALSE

ChangeACopy(d, n) == deploymentCache

\* RetryOnConflict ends with the last conflict.
GiveUp(tries) == tries = RetrySteps

\* The lister's object is the store's own, and is changed in place.
ChangeInPlace(d, n) ==
    IF deploymentCache[d] = Gone THEN deploymentCache ELSE [deploymentCache EXCEPT ![d] = n]

\* One try of updateDeployment: get, change, update.  A conflict is tried again,
\* any other error is fatal; the cached object keeps the change in every case.
Update(w) ==
    /\ At(w, "update")
    /\ LET d        == worker[w].wpa.spec.deployment
           tries    == worker[w].tries + 1
           absent   == Gone \in {deployments[d], deploymentCache[d]}
           conflict == ~absent /\ deploymentWatch[d] # <<>>
       IN  /\ deploymentCache' = ChangeInPlace(d, worker[w].desired)
           /\ IF absent \/ (conflict /\ GiveUp(tries))
              THEN down' = "fatal" /\ UNCHANGED worker
              ELSE /\ worker' = [worker EXCEPT
                                    ![w].tries = tries,
                                    ![w].at = IF conflict THEN "update" ELSE "status",
                                    ![w].last = IF conflict THEN @ ELSE "recent"]
                   /\ UNCHANGED down
           /\ IF absent \/ conflict
              THEN UNCHANGED <<deployments, deploymentWatch, scaledAt>>
              ELSE /\ WriteDeployment(d, worker[w].desired)
                   /\ scaledAt' = [scaledAt EXCEPT ![d] = "recent"]
    /\ UNCHANGED <<item, call, wpas, wpaWatch, wpaCache, workqueue, backlog, polling, edits>>

\* A bug the runs look for: the status is patched, whatever version the worker's
\* copy is of.
UpdateStatusForced(w) ==
    /\ At(w, "status")
    /\ LET job    == worker[w]
           k      == job.event.key
           status == [current |-> job.current, desired |-> job.desired,
                      messages |-> job.messages, last |-> job.last]
       IN  IF wpas[k] = Gone
           THEN Finish(w) /\ UNCHANGED apiVars
           ELSE /\ WriteWpa(k, [wpas[k] EXCEPT !.status = status])
                /\ worker' = [Outdate(k) EXCEPT ![w] = Free]
                /\ workqueue' = ItemDone(workqueue, job.event)
                /\ UNCHANGED <<deployments, deploymentWatch, scaledAt>>
    /\ UNCHANGED <<item, call, cacheVars, envVars>>

\* updateWorkerPodAutoScalerStatus: the update of a copy that is out of date is
\* refused, and the refusal only logged.
UpdateStatus(w) ==
    /\ At(w, "status")
    /\ LET job    == worker[w]
           k      == job.event.key
           status == [current |-> job.current, desired |-> job.desired,
                      messages |-> job.messages, last |-> job.last]
           same   == status = job.wpa.status /\ job.tries = 0
       IN  IF same \/ ~job.fresh
           THEN Finish(w) /\ UNCHANGED apiVars
           ELSE /\ WriteWpa(k, [wpas[k] EXCEPT !.status = status])
                /\ worker' = [Outdate(k) EXCEPT ![w] = Free]
                /\ workqueue' = ItemDone(workqueue, job.event)
                /\ UNCHANGED <<deployments, deploymentWatch, scaledAt>>
    /\ UNCHANGED <<item, call, cacheVars, envVars>>

syncHandler(w) ==
    \/ Forget(w) \/ Ignore(w) \/ Requeue(w)
    \/ Registry(w) \/ Decide(w) \/ Update(w) \/ UpdateStatus(w)

-----------------------------------------------------------------------------
(* The poller and the clock                                                *)

Poll(k) ==
    /\ down = "up"
    /\ Registered(k)
    /\ updateMessage(k, backlog[item[k].uri])
    /\ UNCHANGED <<apiVars, cacheVars, workqueue, worker, envVars>>

\* More than the delay passes.
Cool ==
    LET Older(time) == IF time = "recent" THEN "past" ELSE time
        OlderWpa(v) == IF v = Gone THEN v ELSE [v EXCEPT !.status.last = Older(@)]
    IN  /\ wpas' = [k \in Keys |-> OlderWpa(wpas[k])]
        /\ wpaCache' = [k \in Keys |-> OlderWpa(wpaCache[k])]
        /\ wpaWatch' = [k \in Keys |-> [i \in DOMAIN wpaWatch[k] |-> OlderWpa(wpaWatch[k][i])]]
        /\ worker' = [w \in Workers |->
                         IF worker[w] = Free THEN Free
                         ELSE [worker[w] EXCEPT !.last = Older(@), !.wpa = OlderWpa(@)]]
        /\ scaledAt' = [d \in Deployments |-> Older(scaledAt[d])]
        /\ UNCHANGED <<item, call, deployments, deploymentWatch, deploymentCache,
                       workqueue, envVars>>

-----------------------------------------------------------------------------
(* Disturbances: users, the queues' producers, the process's own end       *)

Disturb(what) == what \in Possible /\ edits < MaxEdits /\ edits' = edits + 1

\* A poll that takes longer: it reports what it has counted on the queue the entry
\* named when it began, whatever became of the entry.
StartPoll(k) ==
    /\ down = "up"
    /\ Registered(k) /\ polling[k] = Unsynced
    /\ Disturb("late")
    /\ polling' = [polling EXCEPT ![k] = backlog[item[k].uri]]
    /\ UNCHANGED <<item, call, apiVars, cacheVars, workqueue, worker, backlog, down>>

EndPoll(k) ==
    /\ down = "up"
    /\ polling[k] # Unsynced
    /\ updateMessage(k, polling[k])
    /\ polling' = [polling EXCEPT ![k] = Unsynced]
    /\ UNCHANGED <<apiVars, cacheVars, workqueue, worker, backlog, down, edits>>

UserWritesWpa(k) ==
    /\ \E spec \in WpaSpecs :
          \/ /\ Disturb("create") /\ wpas[k] = Gone
             /\ WriteWpa(k, [spec |-> spec, status |-> NewStatus])
          \/ /\ Disturb("edit") /\ wpas[k] # Gone /\ spec # wpas[k].spec
             /\ WriteWpa(k, [wpas[k] EXCEPT !.spec = spec])
          \/ /\ Disturb("delete") /\ wpas[k] # Gone
             /\ WriteWpa(k, Gone)
    /\ worker' = Outdate(k)
    /\ UNCHANGED <<item, call, deployments, deploymentWatch, scaledAt, cacheVars,
                   workqueue, backlog, polling, down>>

\* ... or Kubernetes: a pod that starts or ends is a new version of the status.
UserWritesDeployment(d) ==
    /\ \E n \in HandScaled :
          \/ Disturb("scale") /\ deployments[d] \notin {n, Gone} /\ WriteDeployment(d, n)
          \/ Disturb("deploy") /\ deployments[d] = Gone /\ WriteDeployment(d, n)
          \/ Disturb("remove") /\ deployments[d] # Gone /\ WriteDeployment(d, Gone)
          \/ /\ Disturb("rollout") /\ deployments[d] # Gone
             /\ WriteDeployment(d, deployments[d])
    /\ UNCHANGED <<item, call, wpas, wpaWatch, scaledAt, cacheVars, workqueue, worker,
                   backlog, polling, down>>

SetBacklog ==
    /\ Disturb("backlog")
    /\ \E uri \in Uris : \E n \in Backlogs \ {backlog[uri]} :
          backlog' = [backlog EXCEPT ![uri] = n]
    /\ UNCHANGED <<item, call, apiVars, cacheVars, workqueue, worker, polling, down>>

\* What the poller finds out about the workers.
ReportWorkers(k) ==
    /\ down = "up"
    /\ Disturb("backlog")
    /\ Registered(k)
    /\ \/ \E n \in SentRates : updateMessageSent(k, n)
       \/ \E n \in IdleCounts : updateIdleWorkers(k, n)
    /\ UNCHANGED <<apiVars, cacheVars, workqueue, worker, backlog, polling, down>>

\* The process is killed, or told to stop: Run returns and so does main.
End ==
    /\ down = "up"
    /\ \/ Disturb("kill") /\ down' = "killed"
       \/ Disturb("stop") /\ down' = "stopped"
    /\ UNCHANGED <<item, call, apiVars, cacheVars, workqueue, worker, backlog, polling>>

\* The pod is restarted: the informers list, and every object is an add event.
Boot ==
    /\ down # "up"
    /\ down' = "up"
    /\ item' = [k \in Keys |-> NoSpec]
    /\ call' = [w \in Workers |-> Idle]
    /\ polling' = [k \in Keys |-> Unsynced]
    /\ wpaCache' = wpas
    /\ deploymentCache' = deployments
    /\ wpaWatch' = [k \in Keys |-> <<>>]
    /\ deploymentWatch' = [d \in Deployments |-> <<>>]
    /\ LET adds == {Event(k, "add") : k \in {k \in Keys : wpas[k] # Gone}}
       IN  workqueue' = [EmptyQueue EXCEPT !.queue = SetToSeq(adds), !.dirty = adds]
    /\ worker' = [w \in Workers |-> Free]
    /\ UNCHANGED <<wpas, deployments, scaledAt, backlog, edits>>

-----------------------------------------------------------------------------

Next ==
    \/ \E k \in Keys : DeliverWpa(k) \/ Relist(k) \/ Resync(k)
    \/ \E d \in Deployments : DeliverDeployment(d)
    \/ RedeliverDelayed
    \/ \E w \in Workers : Get(w) \/ syncHandler(w)
    \/ \E k \in Keys : Poll(k) \/ StartPoll(k) \/ EndPoll(k) \/ ReportWorkers(k)
    \/ \E k \in Keys : UserWritesWpa(k)
    \/ \E d \in Deployments : UserWritesDeployment(d)
    \/ Cool \/ SetBacklog \/ End \/ Boot

\* Goroutines are scheduled, watches and back-offs deliver, the resync and the
\* poll intervals come round, the clock advances, Kubernetes restarts the pod.
\* A report that falls between an Add's list and its send is overwritten by what
\* the list found: not every report can, as the window is short.
Fairness ==
    /\ \A k \in Keys :
          /\ WF_vars(DeliverWpa(k)) /\ WF_vars(Resync(k))
          /\ SF_vars(Poll(k) /\ \A w \in Workers : call[w] = Idle)
    /\ \A d \in Deployments : WF_vars(DeliverDeployment(d))
    /\ \A w \in Workers : WF_vars(Get(w)) /\ WF_vars(syncHandler(w))
    /\ WF_vars(RedeliverDelayed) /\ WF_vars(Cool) /\ WF_vars(Boot)

Spec == Init /\ [][Next]_vars /\ Fairness

-----------------------------------------------------------------------------

\* controller.go:175 "never processing the same item simultaneously in two
\* different workers": the queue holds each item once, and only what no worker
\* has.  An item marked as being processed is with a worker, however syncHandler
\* ended: one whose Done was forgotten would never be handed out again.
OneWorkerPerItem ==
    /\ \A v, w \in Workers :
          worker[v] # Free /\ worker[w] # Free /\ worker[v].event = worker[w].event => v = w
    /\ IsInjective(workqueue.queue)
    /\ ToSet(workqueue.queue) = workqueue.dirty \ workqueue.processing
    /\ \A i \in workqueue.processing : \E w \in Workers : Holds(w, i)

Fails(w, i) == Holds(w, i) /\ worker[w].at = "requeue"

\* Of each item the queue keeps its promise: from its Add to the Get of a worker, and
\* from a failed sync through the back-off to the next Get, none is lost, although it
\* may be added while it is queued, while it is being processed, or while a back-off
\* runs.
PromiseTo(i) == INSTANCE WorkItem WITH
    wanted <- i \in workqueue.dirty,
    later <- i \in workqueue.delayed,
    holders <- {w \in Workers : Holds(w, i)},
    failing <- {w \in Workers : Fails(w, i)},
    running <- down = "up"

NoItemLost ==
    /\ \A i \in Items : PromiseTo(i)!Init
    /\ [][\A i \in Items :
             [PromiseTo(i)!Next]_<<i \in workqueue.dirty, i \in workqueue.delayed,
                                  {w \in Workers : Holds(w, i)},
                                  {w \in Workers : Fails(w, i)}>>]_vars

\* Nothing but the controller itself, the poller and the clock goes on.
Quiet == <>[][edits' = edits]_vars

Managed(k) ==
    /\ wpas[k] # Gone
    /\ wpas[k].spec.deployment # NoDeployment
    /\ deployments[wpas[k].spec.deployment] # Gone
    /\ ServiceOf[wpas[k].spec.uri] \in Services

\* A resource that is gone leaves the registry, one that stays is in it with the
\* queue its spec names (syncHandler's Add and Delete, across restarts).
\* queue.go:24 "The list is kept in sync with the wpa objects".
RegistryInSync ==
    Quiet => <>[](\A k \in Keys :
                    /\ wpas[k] = Gone => ~Registered(k)
                    /\ Managed(k) => Registered(k) /\ item[k].uri = wpas[k].spec.uri)

\* The workers of a queue end at the number its backlog asks for, whatever was
\* stale, refused, restarted or cooling off on the way.
Convergence ==
    Quiet => <>[](\A k \in Keys : Managed(k) =>
                    LET workers == deployments[wpas[k].spec.deployment]
                    IN  /\ item[k] # NoSpec /\ item[k].messages = backlog[item[k].uri]
                        /\ GetDesiredWorkers(wpas[k].spec, item[k], workers) = workers)

\* The safety under RegistryInSync: what is still to be done is never forgotten.
\* It takes that no two workers are in syncHandler for one resource, which the
\* queue does not give: it keeps (key, event) pairs apart.
OneSyncPerKey ==
    \A v, w \in Workers :
        worker[v] # Free /\ worker[w] # Free /\ worker[v].event.key = worker[w].event.key
            => v = w

\* Some event of k waits for a worker, or for its back-off to end.
Pending(k) == \E i \in workqueue.dirty : i.key = k

Delayed(k) == \E i \in workqueue.delayed : i.key = k

\* A worker is about to remove k's queue.
Removing(w, k) ==
    /\ worker[w] # Free /\ worker[w].event.key = k
    /\ \/ worker[w].at = "forget"
       \/ worker[w].at = "registry" /\ worker[w].event.name = "delete"

RemovalOnTheWay(k) ==
    down = "up" /\ wpas[k] = Gone /\ Registered(k) =>
        wpaWatch[k] # <<>> \/ Pending(k) \/ \E w \in Workers : Removing(w, k)

\* queue.go:24 "The list is kept in sync with the wpa objects": the entry of a
\* resource that is gone has its removal on the way, whatever Adds were under way
\* when it went.
DeletionFollowed == []OneSyncPerKey => [](\A k \in Keys : RemovalOnTheWay(k))

\* A deletion is not waiting any more when its resource is back.
NoLateDeletion == \A k \in Keys : wpaCache[k] # Gone => Event(k, "delete") \notin workqueue.dirty

Adding(w, k, uri) ==
    /\ worker[w] # Free /\ worker[w].event.key = k /\ worker[w].at = "registry"
    /\ call[w] # Idle /\ call[w].spec.uri = uri

Retrying(w, k) ==
    worker[w] # Free /\ worker[w].event.key = k /\ worker[w].at = "requeue"

\* The other direction: the queue a resource names is registered, or its
\* registration on the way, whatever failed, was edited or restarted meanwhile.
RegistrationOnTheWay ==
    \A k \in Keys :
       LET uri == wpas[k].spec.uri
       IN  /\ down = "up" /\ wpas[k] # Gone
           /\ wpas[k].spec.deployment # NoDeployment /\ ServiceOf[uri] \in Services
           => \/ Registered(k) /\ item[k].uri = uri
              \/ wpaWatch[k] # <<>> \/ Pending(k) \/ Delayed(k)
              \/ \E w \in Workers : Adding(w, k, uri) \/ Retrying(w, k)

\* A deletion taken late would remove the queue of the new resource: where none is,
\* and one worker at a time syncs a resource, a registration is never forgotten.
RegistrationFollowed == []OneSyncPerKey /\ []NoLateDeletion => []RegistrationOnTheWay

Reports == [messages : Backlogs, sent : SentRates \cup {Unsynced},
            idle : IdleCounts \cup {Unsynced}]

Loop(d) == INSTANCE ScaleLoop WITH
    replicas <- deployments[d], Specs <- WpaSpecs,
    EditedReplicas <- IF "scale" \in Possible THEN HandScaled ELSE {}

\* Every change of a workload is a decision taken on the replicas it has: with
\* one worker, and nobody scaling by hand, the cache is never behind them.
DecidesOnWhatIs ==
    /\ \A d \in Deployments : Loop(d)!Init
    /\ [][\A d \in Deployments : [Loop(d)!Next]_(deployments[d])]_vars

Scales(w, d) ==
    /\ At(w, "update") /\ worker[w].wpa.spec.deployment = d
    /\ deployments'[d] # deployments[d]

\* README.md:111 "the scale down cannot bring down more than 250 pods in a single
\* scale down activity": of the workers there really are.  Only maxReplicas, which
\* is applied last, may take more.
DisruptionRespected ==
    [][\A w \in Workers, d \in Deployments : Scales(w, d) =>
          LET spec == worker[w].wpa.spec
          IN  \/ deployments'[d] >= deployments[d]
                    - getMaxDisruptableWorkers(spec.maxDisruption, deployments[d])
              \/ deployments'[d] = spec.max]_vars

\* run.go:67 "scale down delay after last scale up or down in seconds": no
\* scale-down so soon after the controller's last one of either kind.
CoolOffRespected ==
    [][\A w \in Workers, d \in Deployments :
          Scales(w, d) /\ deployments'[d] < deployments[d] => scaledAt[d] # "recent"]_vars

NotBefore(time, other) == other = "never" \/ time \in {"recent", other}

\* The time of the last scaling, once in the status, is not overwritten with an
\* older one, by whatever worker, from whatever copy of the object; it ages only as
\* time goes by.
ScaleTimeKept ==
    [][\A k \in Keys : wpas[k] # Gone /\ wpas'[k] # Gone /\ ~Cool =>
          NotBefore(wpas'[k].status.last, wpas[k].status.last)]_vars

\* controller.go:553 "Retrieve the latest version of the Deployment before
\* attempting update": a lagging cache is no reason to give up.
OnlyAbsenceIsFatal ==
    [][\A w \in Workers : At(w, "update") /\ down' = "fatal" =>
          Gone \in {deployments[worker[w].wpa.spec.deployment],
                    deploymentCache[worker[w].wpa.spec.deployment]}]_vars

=============================================================================
