------------------------ MODULE ControllerRefinement ------------------------
(***************************************************************************)
(* What the controller implements.  ScaleLoop: with one worker, and nobody *)
(* else changing the workloads' replicas, every change of them is a        *)
(* decision on the replicas there are; the cached deployment is behind     *)
(* them only while a refused update is retried, and then nobody reads it.  *)
(* WorkItem: for any number of workers, every item is wanted until it is   *)
(* taken, one worker's until its Done, and wanted again after a failure.   *)
(***************************************************************************)
EXTENDS ControllerProofs

\* A worker whose last try was refused has already changed the cached object.
Refused(job, d) ==
    /\ job # Free /\ job.at = "update" /\ job.tries > 0
    /\ job.wpa.spec.deployment = d

\* What a worker is about to write was decided on the replicas of now.
Decided(job, now) ==
    /\ job.at \in {"registry", "decide", "update"} => job.current = now
    /\ job.at = "update" =>
          \E q \in Reports : job.desired = GetDesiredWorkers(job.wpa.spec, q, job.current)

\* The cache is behind the replicas only while a refused update is retried.
Current ==
    /\ deployments \in [Deployments -> Nat32]
    /\ \A d \in Deployments : deploymentWatch[d] \in Seq({deployments[d]})
    /\ down = "up" =>
          \A d \in Deployments : \/ deploymentCache[d] = deployments[d]
                                 \/ \E w \in Workers : Refused(worker[w], d)
    /\ \A w \in Workers : worker[w] # Free =>
          Decided(worker[w], deployments[worker[w].wpa.spec.deployment])

LEMMA SameDecision ==
    ASSUME NEW d, NEW w, NEW report, NEW current
    PROVE  Loop(d)!GetDesiredWorkers(w, report, current) = GetDesiredWorkers(w, report, current)
BY DEF GetDesiredWorkers, getMinWorkers, getMaxDisruptableWorkers,
       convertDesiredReplicasWithRules, isChangeTooSmall, MassiveScaleDown,
       BacklogWorkers, CeilDiv, Abs, Wrap, FloatToInt32, Int32,
       Loop!GetDesiredWorkers, Loop!getMinWorkers, Loop!getMaxDisruptableWorkers,
       Loop!convertDesiredReplicasWithRules, Loop!isChangeTooSmall, Loop!MassiveScaleDown,
       Loop!BacklogWorkers, Loop!CeilDiv, Loop!Abs, Loop!Wrap, Loop!FloatToInt32, Loop!Int32

\* The decision looks at three fields of an entry.
LEMMA SameReport ==
    ASSUME NEW w, NEW q, NEW report, NEW current,
           report.messages = q.messages, report.sent = q.sent, report.idle = q.idle
    PROVE  GetDesiredWorkers(w, report, current) = GetDesiredWorkers(w, q, current)
BY DEF GetDesiredWorkers, MassiveScaleDown

LEMMA CurrentInit == Init => Current
<1> SUFFICES ASSUME Init PROVE Current
    OBVIOUS
<1>1. deployments \in [Deployments -> HandScaled] /\ HandScaled \subseteq Nat32
    BY ControllerAssumption DEF Init
<1>2. \A d \in Deployments : deploymentWatch[d] = <<>> /\ deploymentCache[d] = deployments[d]
    BY DEF Init
<1>3. \A w \in Workers : worker[w] = Free
    BY DEF Init
<1>4. \A d \in Deployments : deploymentWatch[d] \in Seq({deployments[d]})
  <2>1. \A S : <<>> \in Seq(S)
      OBVIOUS
  <2> QED
      BY <1>2, <2>1
<1>5. deployments \in [Deployments -> Nat32]
    BY <1>1
<1> QED
    BY <1>2, <1>3, <1>4, <1>5 DEF Current

\* What does not touch the workloads, nor what a worker decides on.
Keeps(old, new) ==
    /\ new = Free <=> old = Free
    /\ new # Free =>
          /\ new.at = old.at /\ new.tries = old.tries
          /\ new.current = old.current /\ new.desired = old.desired
          /\ new.wpa.spec = old.wpa.spec

LEMMA CurrentSame ==
    ASSUME Current, UNCHANGED <<deployments, deploymentWatch, deploymentCache>>,
           down' = "up" => down = "up",
           \A w \in Workers : Keeps(worker[w], worker'[w])
    PROVE  Current'
<1>1. \A w \in Workers, d \in Deployments : Refused(worker[w], d) => Refused(worker'[w], d)
    BY DEF Refused, Keeps
<1>2. down' = "up" =>
         \A d \in Deployments : \/ deploymentCache'[d] = deployments'[d]
                                \/ \E w \in Workers : Refused(worker'[w], d)
    BY <1>1 DEF Current
<1>3. ASSUME NEW w \in Workers, worker'[w] # Free
      PROVE  Decided(worker'[w], deployments'[worker'[w].wpa.spec.deployment])
    BY <1>3 DEF Current, Keeps, Decided
<1>4. down' = "up" =>
         \A d \in Deployments : \/ deploymentCache'[d] = deployments'[d]
                                \/ \E w \in Workers : Refused(worker[w], d)'
    BY <1>2 DEF Refused
<1>5. \A w \in Workers : (worker[w] # Free)' =>
         Decided(worker[w], deployments[worker[w].wpa.spec.deployment])'
    BY <1>3 DEF Decided
<1> QED
    BY <1>4, <1>5 DEF Current

\* The one worker reads, decides or is done, with no refused update behind it.
LEMMA CurrentMove ==
    ASSUME Current, NEW w \in Workers, \A v \in Workers : v = w,
           worker[w] = Free \/ worker[w].at # "update",
           UNCHANGED <<deployments, deploymentWatch, deploymentCache, down>>,
           worker'[w] # Free =>
              Decided(worker'[w], deployments[worker'[w].wpa.spec.deployment])
    PROVE  Current'
<1>1. \A d \in Deployments : ~ \E v \in Workers : Refused(worker[v], d)
    BY DEF Refused
<1>2. down' = "up" => \A d \in Deployments : deploymentCache'[d] = deployments'[d]
    BY <1>1 DEF Current
<1>3. \A v \in Workers : worker'[v] # Free =>
         Decided(worker'[v], deployments'[worker'[v].wpa.spec.deployment])
    OBVIOUS
<1>4. \A v \in Workers : (worker[v] # Free)' =>
         Decided(worker[v], deployments[worker[v].wpa.spec.deployment])'
    BY <1>3 DEF Decided
<1> QED
    BY <1>2, <1>4 DEF Current

LEMMA CurrentGet ==
    ASSUME Types, Current, NEW w \in Workers, \A v \in Workers : v = w, Get(w)
    PROVE  Current'
<1> DEFINE event == Head(workqueue.queue)
           wpa == wpaCache[event.key]
           deployment == wpa.spec.deployment
<1>1. worker[w] = Free /\ down = "up" /\ DOMAIN worker = Workers
    BY DEF Get, Types, Holding
<1>2. UNCHANGED <<deployments, deploymentWatch, deploymentCache, down>>
    BY DEF Get, apiVars, cacheVars, envVars
<1>3. \A d \in Deployments : deploymentCache[d] = deployments[d]
    BY <1>1 DEF Current, Refused
<1>4. \/ Hold(w, NewJob(event, wpa))
      \/ \E place \in {"ignore", "requeue"} : Hold(w, HeldJob(event, wpa, place))
      \/ /\ deployment \in Deployments
         /\ \E place \in {"registry", "decide"} : Hold(w, ReadJob(event, wpa, place))
    BY GetReads
<1> HIDE DEF event, wpa
<1>5. ASSUME NEW place \in {"ignore", "requeue"}, Hold(w, HeldJob(event, wpa, place))
      PROVE  Current'
  <2>1. worker'[w] = HeldJob(event, wpa, place) /\ HeldJob(event, wpa, place).at = place
      BY <1>1, <1>5 DEF Hold, HeldJob, NewJob
  <2>2. \A now : Decided(worker'[w], now)
      BY <2>1 DEF Decided
  <2> QED
      BY <1>1, <1>2, <2>2, CurrentMove
<1>6. CASE Hold(w, NewJob(event, wpa))
  <2>1. worker'[w] = NewJob(event, wpa) /\ NewJob(event, wpa).at = "forget"
      BY <1>1, <1>6 DEF Hold, NewJob
  <2>2. \A now : Decided(worker'[w], now)
      BY <2>1 DEF Decided
  <2> QED
      BY <1>1, <1>2, <2>2, CurrentMove
<1>7. ASSUME deployment \in Deployments, NEW place \in {"registry", "decide"},
             Hold(w, ReadJob(event, wpa, place))
      PROVE  Current'
  <2>1. worker'[w] = ReadJob(event, wpa, place)
      BY <1>1, <1>7 DEF Hold
  <2>2. /\ ReadJob(event, wpa, place).at = place
        /\ ReadJob(event, wpa, place).wpa = wpa
        /\ ReadJob(event, wpa, place).current = deploymentCache[deployment]
      BY DEF ReadJob, NewJob
  <2>3. Decided(worker'[w], deployments[worker'[w].wpa.spec.deployment])
      BY <1>3, <1>7, <2>1, <2>2 DEF Decided
  <2> QED
      BY <1>1, <1>2, <2>3, CurrentMove
<1> QED
    BY <1>4, <1>5, <1>6, <1>7

LEMMA CurrentDecide ==
    ASSUME Types, Current, NEW w \in Workers, \A v \in Workers : v = w, Decide(w)
    PROVE  Current'
<1> DEFINE job == worker[w]
           entry == item[job.event.key]
           spec == job.wpa.spec
           desired == GetDesiredWorkers(spec, entry, job.current)
           Place(place) == [job EXCEPT !.desired = desired, !.messages = entry.messages, !.at = place]
<1>1. At(w, "decide") /\ job # Free /\ job.at = "decide" /\ DOMAIN worker = Workers
    BY DEF Decide, At, Types, Holding
<1>2. UNCHANGED <<deployments, deploymentWatch, deploymentCache, down>>
    BY DEF Decide, apiVars, cacheVars, envVars
<1>3. \/ Finish(w)
      \/ /\ entry # NoSpec /\ entry.messages # Unsynced
         /\ \E place \in {"status", "update"} : worker' = [worker EXCEPT ![w] = Place(place)]
    BY DEF Decide, ListQueue
<1>4. CASE Finish(w)
    BY <1>1, <1>2, <1>4, CurrentMove DEF Finish
<1>5. ASSUME entry # NoSpec, entry.messages # Unsynced, NEW place \in {"status", "update"},
             worker' = [worker EXCEPT ![w] = Place(place)]
      PROVE  Current'
  <2>1. /\ entry.messages \in Backlogs
        /\ entry.sent \in SentRates \cup {Unsynced} /\ entry.idle \in IdleCounts \cup {Unsynced}
      BY <1>1, <1>5, DecisionRange
  <2>2. job \in Job /\ job.current = deployments[spec.deployment]
    <3>1. Decided(job, deployments[spec.deployment])
        BY <1>1 DEF Current
    <3>2. job \in Job
        BY <1>1 DEF Types, WorkerTypes, Sound
    <3> QED
        BY <1>1, <3>1, <3>2 DEF Decided
  <2> HIDE DEF job, entry
  <2> DEFINE q == [messages |-> entry.messages, sent |-> entry.sent, idle |-> entry.idle]
  <2>3. q \in Reports /\ GetDesiredWorkers(spec, q, job.current) = desired
      BY <2>1, SameReport DEF Reports
  <2> HIDE DEF desired, q
  <2>4. /\ Place(place).wpa = job.wpa /\ Place(place).current = job.current
        /\ Place(place).desired = desired /\ Place(place).at = place
      BY <2>2 DEF Job
  <2>5. worker'[w] = Place(place)
      BY <1>1, <1>5
  <2> HIDE DEF Place
  <2>6. Decided(worker'[w], deployments[worker'[w].wpa.spec.deployment])
      BY <2>2, <2>3, <2>4, <2>5 DEF Decided
  <2>7. worker[w].at # "update"
      BY <1>1 DEF job
  <2> QED
      BY <1>2, <2>6, <2>7, CurrentMove
<1> HIDE DEF job, entry, desired, Place
<1> QED
    BY <1>3, <1>4, <1>5

\* The one worker tries to write what it decided.
LEMMA CurrentUpdate ==
    ASSUME Types, Current, NEW w \in Workers, \A v \in Workers : v = w, Update(w)
    PROVE  /\ Current'
           /\ \A d \in Deployments : deployments'[d] # deployments[d] =>
                 \E spec \in WpaSpecs, q \in Reports :
                     deployments'[d] = GetDesiredWorkers(spec, q, deployments[d])
<1> DEFINE job == worker[w]
           d == job.wpa.spec.deployment
           n == job.desired
           absent == Gone \in {deployments[d], deploymentCache[d]}
           conflict == ~absent /\ deploymentWatch[d] # <<>>
           new == [job EXCEPT !.tries = job.tries + 1,
                              !.at = IF conflict THEN "update" ELSE "status",
                              !.last = IF conflict THEN @ ELSE "recent"]
<1>1. job # Free /\ job.at = "update" /\ down = "up" /\ DOMAIN worker = Workers
    BY DEF Update, At, Types, Holding
<1>2. /\ job \in Job /\ d \in Deployments /\ n \in Nat32 /\ job.tries < RetrySteps
      /\ job.wpa.spec \in WpaSpecs
    BY <1>1, SpecFields DEF Types, WorkerTypes, Sound
<1>3. PICK q \in Reports : n = GetDesiredWorkers(job.wpa.spec, q, deployments[d])
    BY <1>1 DEF Current, Decided
<1>4. /\ deployments \in [Deployments -> Nat32]
      /\ \A e \in Deployments : deploymentWatch[e] \in Seq({deployments[e]})
      /\ \A e \in Deployments : e # d => deploymentCache[e] = deployments[e]
      /\ Decided(job, deployments[d])
    BY <1>1 DEF Current, Refused
<1>5. DOMAIN deploymentCache = Deployments /\ DOMAIN deploymentWatch = Deployments
    BY DEF Types, DeploymentTypes
<1>6. deploymentCache' = IF deploymentCache[d] = Gone THEN deploymentCache
                         ELSE [deploymentCache EXCEPT ![d] = n]
    BY DEF Update, ChangeInPlace
<1>7. \/ down' = "fatal" /\ UNCHANGED <<worker, deployments, deploymentWatch>>
      \/ /\ conflict /\ UNCHANGED <<down, deployments, deploymentWatch>>
         /\ worker' = [worker EXCEPT ![w] = new]
      \/ /\ ~absent /\ deploymentWatch[d] = <<>> /\ UNCHANGED down
         /\ worker' = [worker EXCEPT ![w] = new]
         /\ WriteDeployment(d, n)
    BY DEF Update
<1>8. CASE down' = "fatal" /\ UNCHANGED <<worker, deployments, deploymentWatch>>
    BY <1>8 DEF Current, Decided
<1>9. CASE /\ conflict /\ UNCHANGED <<down, deployments, deploymentWatch>>
           /\ worker' = [worker EXCEPT ![w] = new]
  <2>1. new.at = "update" /\ new.tries = job.tries + 1 /\ new.wpa = job.wpa
        /\ new.current = job.current /\ new.desired = job.desired
      BY <1>2, <1>9 DEF Job
  <2>2. job.tries \in Nat /\ job.tries + 1 \in 0 .. RetrySteps
      BY <1>2, ControllerAssumption DEF Job
  <2>3. new \in Job
      BY <1>2, <2>2 DEF Job, Times
  <2> HIDE DEF new, job
  <2>4. worker'[w] = new
      BY <1>1, <1>9
  <2>5. Refused(worker'[w], d)
      BY <2>1, <2>2, <2>3, <2>4, FreeAssumption DEF Refused
  <2>6. \A e \in Deployments : e # d => deploymentCache'[e] = deployments'[e]
      BY <1>4, <1>5, <1>6, <1>9
  <2>7. \A e \in Deployments : \/ deploymentCache'[e] = deployments'[e]
                               \/ \E v \in Workers : Refused(worker'[v], e)
      BY <2>5, <2>6
  <2>8. \A e \in Deployments : \/ deploymentCache'[e] = deployments'[e]
                               \/ \E v \in Workers : Refused(worker[v], e)'
      BY <2>7 DEF Refused
  <2>9. Decided(worker'[w], deployments'[worker'[w].wpa.spec.deployment])
      BY <1>1, <1>4, <1>9, <2>1, <2>4 DEF Decided, job, d
  <2>10. \A v \in Workers : (worker[v] # Free)' =>
            Decided(worker[v], deployments[worker[v].wpa.spec.deployment])'
      BY <2>9 DEF Decided
  <2> QED
      BY <1>4, <1>9, <2>8, <2>10 DEF Current
<1>10. CASE /\ ~absent /\ deploymentWatch[d] = <<>> /\ UNCHANGED down
            /\ worker' = [worker EXCEPT ![w] = new]
            /\ WriteDeployment(d, n)
  <2>1. new.at = "status"
      BY <1>2, <1>10 DEF Job
  <2>2. worker'[w] = new
      BY <1>1, <1>10
  <2> HIDE DEF new, job, d, n
  <2>3. /\ deployments' = [deployments EXCEPT ![d] = n]
        /\ deploymentWatch' = [deploymentWatch EXCEPT ![d] = Append(<<>>, n)]
        /\ deploymentCache' = [deploymentCache EXCEPT ![d] = n]
      BY <1>6, <1>10 DEF WriteDeployment
  <2>4. Append(<<>>, n) \in Seq({n})
      OBVIOUS
  <2>5. \A e \in Deployments : deploymentCache'[e] = deployments'[e]
      BY <1>4, <1>5, <2>3
  <2>6. \A e \in Deployments : deploymentWatch'[e] \in Seq({deployments'[e]})
    <3> SUFFICES ASSUME NEW e \in Deployments
                 PROVE  deploymentWatch'[e] \in Seq({deployments'[e]})
        OBVIOUS
    <3>1. CASE e = d
        BY <1>2, <1>4, <1>5, <2>3, <2>4, <3>1
    <3>2. CASE e # d
        BY <1>2, <1>4, <1>5, <2>3, <3>2
    <3> QED
        BY <3>1, <3>2
  <2>7. deployments' \in [Deployments -> Nat32]
      BY <1>2, <1>4, <2>3
  <2>8. \A v \in Workers : Decided(worker[v], deployments[worker[v].wpa.spec.deployment])'
      BY <2>1, <2>2 DEF Decided
  <2>9. Current'
      BY <2>5, <2>6, <2>7, <2>8 DEF Current
  <2>10. \A e \in Deployments : e # d => deployments'[e] = deployments[e]
      BY <1>4, <2>3
  <2>11. deployments'[d] = GetDesiredWorkers(job.wpa.spec, q, deployments[d])
      BY <1>2, <1>3, <1>4, <2>3
  <2> QED
      BY <1>2, <2>9, <2>10, <2>11
<1> HIDE DEF job, d, n, conflict, new
<1> QED
    BY <1>7, <1>8, <1>9, <1>10

LEMMA CurrentStatus ==
    ASSUME Types, Current, NEW w \in Workers, \A v \in Workers : v = w, UpdateStatus(w)
    PROVE  Current'
<1>1. worker[w].at # "update" /\ DOMAIN worker = Workers
    BY DEF UpdateStatus, At, Types, Holding
<1>2. worker'[w] = Free
  <2>1. DOMAIN Outdate(worker[w].event.key) = Workers
      BY DEF Outdate
  <2> QED
      BY <1>1, <2>1 DEF UpdateStatus, Finish
<1>3. UNCHANGED <<deployments, deploymentWatch, deploymentCache, down>>
    BY DEF UpdateStatus, apiVars, cacheVars, envVars
<1> QED
    BY <1>1, <1>2, <1>3, CurrentMove

LEMMA CurrentRegistry ==
    ASSUME Types, Current, NEW w \in Workers, \A v \in Workers : v = w,
           Forget(w) \/ Ignore(w) \/ Requeue(w) \/ Registry(w)
    PROVE  Current'
<1>1. /\ worker[w] # Free /\ worker[w].at \in {"forget", "ignore", "requeue", "registry"}
      /\ DOMAIN worker = Workers /\ worker[w] \in Job
    BY DEF Forget, Ignore, Requeue, Registry, At, Types, Holding, WorkerTypes, Sound
<1>2. UNCHANGED <<deployments, deploymentWatch, deploymentCache, down>>
    BY DEF Forget, Ignore, Requeue, Registry, apiVars, cacheVars, envVars
<1>3. CASE Forget(w) \/ Ignore(w) \/ Requeue(w)
    BY <1>1, <1>2, <1>3, CurrentMove DEF Forget, Ignore, Requeue, Finish
<1>4. CASE Registry(w)
  <2>1. worker[w].at = "registry" /\ worker'[w] = [worker[w] EXCEPT !.at = "decide"]
      BY <1>1, <1>4 DEF Registry, At
  <2>2. /\ worker'[w].at = "decide" /\ worker'[w].wpa = worker[w].wpa
        /\ worker'[w].current = worker[w].current
      BY <1>1, <2>1 DEF Job
  <2>3. Decided(worker'[w], deployments[worker'[w].wpa.spec.deployment])
      BY <1>1, <2>1, <2>2 DEF Current, Decided
  <2> QED
      BY <1>1, <1>2, <2>3, CurrentMove
<1> QED
    BY <1>3, <1>4

\* Watches deliver what there is, users and the clock leave decisions alone.
LEMMA CurrentOutside ==
    ASSUME Types, Current,
           Possible \cap {"scale", "deploy", "remove"} = {},
           \/ Cool
           \/ \E k \in Keys : UserWritesWpa(k)
           \/ \E d \in Deployments : DeliverDeployment(d) \/ UserWritesDeployment(d)
           \/ Boot
    PROVE  Current' /\ UNCHANGED deployments
<1>1. ASSUME NEW w \in Workers, worker[w] # Free PROVE worker[w] \in Job
    BY <1>1 DEF Types, WorkerTypes, Sound
<1>2. CASE Cool
  <2>1. /\ worker' = [w \in Workers |->
                         IF worker[w] = Free THEN Free
                         ELSE [worker[w] EXCEPT !.last = Older(@), !.wpa = OlderWpa(@)]]
        /\ UNCHANGED <<deployments, deploymentWatch, deploymentCache, down>>
      BY <1>2, CoolEffect DEF envVars
  <2>2. ASSUME NEW w \in Workers PROVE Keeps(worker[w], worker'[w])
    <3> DEFINE job == worker[w]
               new == [job EXCEPT !.last = Older(@), !.wpa = OlderWpa(@)]
    <3>1. CASE job = Free
        BY <2>1, <3>1 DEF Keeps
    <3>2. CASE job # Free
      <4>1. worker'[w] = new /\ job \in Job
          BY <1>1, <2>1, <3>2
      <4> HIDE DEF job
      <4>2. Older(job.last) \in Times /\ OlderWpa(job.wpa) \in WpaVersion
          BY <4>1, OlderType DEF Job
      <4>3. new \in Job
          BY <4>1, <4>2 DEF Job
      <4>4. /\ new.at = job.at /\ new.tries = job.tries /\ new.current = job.current
            /\ new.desired = job.desired /\ new.wpa = OlderWpa(job.wpa)
          BY <4>1 DEF Job
      <4>5. OlderWpa(job.wpa).spec = job.wpa.spec
        <5>1. job.wpa \in WpaVersion
            BY <4>1 DEF Job
        <5> QED
            BY <5>1 DEF OlderWpa, WpaVersion
      <4> HIDE DEF new
      <4>6. Keeps(job, new)
          BY <3>2, <4>3, <4>4, <4>5, FreeAssumption DEF Keeps
      <4> QED
          BY <4>1, <4>6 DEF job
    <3> QED
        BY <3>1, <3>2
  <2> QED
      BY <2>1, <2>2, CurrentSame
<1>3. ASSUME NEW k \in Keys, UserWritesWpa(k) PROVE Current' /\ UNCHANGED deployments
  <2>1. /\ worker' = Outdate(k)
        /\ UNCHANGED <<deployments, deploymentWatch, deploymentCache, down>>
      BY <1>3 DEF UserWritesWpa, cacheVars
  <2>2. ASSUME NEW w \in Workers PROVE Keeps(worker[w], worker'[w])
    <3> DEFINE job == worker[w]
               new == [job EXCEPT !.fresh = FALSE]
    <3>1. worker'[w] = job \/ (job # Free /\ worker'[w] = new)
        BY <2>1 DEF Outdate
    <3>2. CASE worker'[w] = job
        BY <3>2 DEF Keeps
    <3>3. CASE job # Free /\ worker'[w] = new
      <4>1. job \in Job
          BY <1>1, <3>3
      <4> HIDE DEF job
      <4>2. new \in Job
          BY <4>1 DEF Job
      <4>3. /\ new.at = job.at /\ new.tries = job.tries /\ new.current = job.current
            /\ new.desired = job.desired /\ new.wpa = job.wpa
          BY <4>1 DEF Job
      <4> HIDE DEF new
      <4>4. Keeps(job, new)
          BY <3>3, <4>2, <4>3, FreeAssumption DEF Keeps
      <4> QED
          BY <3>3, <4>4 DEF job
    <3> QED
        BY <3>1, <3>2, <3>3
  <2> QED
      BY <2>1, <2>2, CurrentSame
<1>4. \A w \in Workers : worker[w] # Free =>
         Decided(worker[w], deployments[worker[w].wpa.spec.deployment])
    BY DEF Current
<1>5. ASSUME UNCHANGED worker, UNCHANGED deployments
      PROVE  \A w \in Workers : (worker[w] # Free)' =>
                Decided(worker[w], deployments[worker[w].wpa.spec.deployment])'
    BY <1>4, <1>5 DEF Decided
<1>6. ASSUME NEW d \in Deployments, DeliverDeployment(d) PROVE Current' /\ UNCHANGED deployments
  <2>1. /\ deploymentWatch[d] # <<>> /\ deploymentWatch[d] \in Seq({deployments[d]})
        /\ DOMAIN deploymentWatch = Deployments /\ DOMAIN deploymentCache = Deployments
      BY <1>6 DEF DeliverDeployment, Current, Types, DeploymentTypes
  <2>2. Head(deploymentWatch[d]) = deployments[d] /\ Tail(deploymentWatch[d]) \in Seq({deployments[d]})
      BY <2>1, NewestTail
  <2>3. /\ deploymentCache' = [deploymentCache EXCEPT ![d] = deployments[d]]
        /\ deploymentWatch' = [deploymentWatch EXCEPT ![d] = Tail(deploymentWatch[d])]
        /\ UNCHANGED <<deployments, worker, down>>
      BY <1>6, <2>2 DEF DeliverDeployment, envVars
  <2>4. \A e \in Deployments : deploymentWatch'[e] \in Seq({deployments[e]})
    <3> SUFFICES ASSUME NEW e \in Deployments PROVE deploymentWatch'[e] \in Seq({deployments[e]})
        OBVIOUS
    <3>1. deploymentWatch[e] \in Seq({deployments[e]})
        BY DEF Current
    <3>2. CASE e = d
        BY <2>1, <2>2, <2>3, <3>2
    <3>3. CASE e # d
        BY <2>1, <2>3, <3>1, <3>3
    <3> QED
        BY <3>2, <3>3
  <2>5. down = "up" => \A e \in Deployments : \/ deploymentCache'[e] = deployments[e]
                                              \/ \E w \in Workers : Refused(worker[w], e)
      BY <2>1, <2>3 DEF Current
  <2>6. \A e \in Deployments : (\E w \in Workers : Refused(worker[w], e)) =>
                                  \E w \in Workers : Refused(worker[w], e)'
      BY <2>3 DEF Refused
  <2> QED
      BY <1>5, <2>3, <2>4, <2>5, <2>6 DEF Current
<1>7. ASSUME NEW d \in Deployments, UserWritesDeployment(d) PROVE Current' /\ UNCHANGED deployments
  <2>1. WriteDeployment(d, deployments[d])
      BY <1>7 DEF UserWritesDeployment, Disturb
  <2>2. deployments \in [Deployments -> DeploymentVersion] /\ DOMAIN deploymentWatch = Deployments
      BY DEF Types, DeploymentTypes
  <2>3a. [deployments EXCEPT ![d] = deployments[d]] = deployments
      BY <2>2
  <2>3. /\ UNCHANGED <<deployments, deploymentCache, worker, down>>
        /\ deploymentWatch' = [deploymentWatch EXCEPT ![d] = Append(@, deployments[d])]
      BY <1>7, <2>1, <2>3a DEF UserWritesDeployment, WriteDeployment, cacheVars
  <2>4. \A e \in Deployments : deploymentWatch'[e] \in Seq({deployments[e]})
    <3> SUFFICES ASSUME NEW e \in Deployments PROVE deploymentWatch'[e] \in Seq({deployments[e]})
        OBVIOUS
    <3>1. deploymentWatch[e] \in Seq({deployments[e]})
        BY DEF Current
    <3>2. Append(deploymentWatch[e], deployments[e]) \in Seq({deployments[e]})
        BY <3>1, NewestAppend
    <3>3. deploymentWatch'[e] \in {deploymentWatch[e], Append(deploymentWatch[e], deployments[e])}
        BY <2>2, <2>3
    <3> QED
        BY <3>1, <3>2, <3>3
  <2>5. \A e \in Deployments : (\E w \in Workers : Refused(worker[w], e)) =>
                                  \E w \in Workers : Refused(worker[w], e)'
      BY <2>3 DEF Refused
  <2> QED
      BY <1>5, <2>3, <2>4, <2>5 DEF Current
<1>8. CASE Boot
  <2>1. /\ deploymentCache' = deployments /\ UNCHANGED deployments
        /\ deploymentWatch' = [d \in Deployments |-> <<>>]
        /\ worker' = [w \in Workers |-> Free]
      BY <1>8 DEF Boot
  <2>2. \A S : <<>> \in Seq(S)
      OBVIOUS
  <2>3. \A d \in Deployments : deploymentWatch'[d] \in Seq({deployments[d]})
      BY <2>1, <2>2
  <2> QED
      BY <2>1, <2>3 DEF Current
<1> QED
    BY <1>2, <1>3, <1>6, <1>7, <1>8

LEMMA CurrentNext ==
    ASSUME \A v, w \in Workers : v = w,
           Possible \cap {"scale", "deploy", "remove"} = {},
           Types, Current, [Next]_vars
    PROVE  /\ Current'
           /\ \A d \in Deployments : deployments'[d] # deployments[d] =>
                 \E spec \in WpaSpecs, q \in Reports :
                     deployments'[d] = GetDesiredWorkers(spec, q, deployments[d])
           /\ UNCHANGED deployments \/ \E w \in Workers : Update(w)
<1>1. ASSUME UNCHANGED <<deployments, deploymentWatch, deploymentCache, worker>>,
             down' = "up" => down = "up"
      PROVE  Current'
    BY <1>1, CurrentSame DEF Keeps
<1>2. ASSUME NEW w \in Workers, Get(w) \/ syncHandler(w)
      PROVE  \/ Current' /\ UNCHANGED deployments
             \/ Update(w)
  <2>1. ~Update(w) => UNCHANGED deployments
      BY <1>2 DEF Get, syncHandler, Forget, Ignore, Requeue, Registry, Decide, UpdateStatus, apiVars
  <2> QED
      BY <1>2, <2>1, CurrentGet, CurrentRegistry, CurrentDecide, CurrentStatus DEF syncHandler
<1>3. ASSUME NEW k \in Keys,
             \/ DeliverWpa(k) \/ Relist(k) \/ Resync(k)
             \/ Poll(k) \/ StartPoll(k) \/ EndPoll(k) \/ ReportWorkers(k)
      PROVE  Current' /\ UNCHANGED deployments
    BY <1>1, <1>3 DEF DeliverWpa, Relist, Resync, Poll, StartPoll, EndPoll, ReportWorkers, apiVars, cacheVars, envVars
<1>4. CASE RedeliverDelayed \/ SetBacklog \/ End \/ UNCHANGED vars
    BY <1>1, <1>4 DEF RedeliverDelayed, SetBacklog, End, vars, apiVars, cacheVars, envVars
<1> QED
    BY <1>2, <1>3, <1>4, CurrentOutside, CurrentUpdate DEF Next

\* With one worker, and nobody else changing the workloads' replicas, every
\* change of them is a decision GetDesiredWorkers takes on the replicas there are,
\* whatever the caches lag behind, is refused, retried or restarted: the cached
\* deployment is behind them only while a refused update is retried.
THEOREM Decisions ==
    ASSUME IsFiniteSet(Keys), \A v, w \in Workers : v = w,
           Possible \cap {"scale", "deploy", "remove"} = {}
    PROVE  Spec => DecidesOnWhatIs
<1>1. Types /\ Current /\ [Next]_vars => (Types /\ Current)'
    BY TypesNext, CurrentNext
<1>2. Init => \A d \in Deployments : Loop(d)!Init
    BY CurrentInit DEF Current, Loop!Init, Loop!Nat32, Nat32
<1>3. Types /\ Current /\ [Next]_vars => [\A d \in Deployments : [Loop(d)!Next]_(deployments[d])]_vars
  <2> SUFFICES ASSUME Types, Current, [Next]_vars, NEW d \in Deployments,
                      deployments'[d] # deployments[d]
               PROVE  Loop(d)!Next
      BY DEF vars
  <2>1. PICK spec \in WpaSpecs, q \in Reports :
           deployments'[d] = GetDesiredWorkers(spec, q, deployments[d])
      BY CurrentNext
  <2>2. Loop(d)!GetDesiredWorkers(spec, q, deployments[d]) = deployments'[d]
      BY <2>1, SameDecision
  <2> QED
      BY <2>2 DEF Loop!Next, Loop!Scale
<1> QED
    BY <1>1, <1>2, <1>3, TypesInit, CurrentInit, PTL DEF Spec, DecidesOnWhatIs

-----------------------------------------------------------------------------
(* What one update may take away                                           *)

\* The rules end at maxReplicas or leave what maxDisruption does not give.
LEMMA DecisionKeeps ==
    ASSUME NEW w, NEW q, NEW current \in Nat32, SpecOK(w), ReportOK(q),
           q.messages \in Nat32, w.target > 0, Sane(w.maxDisruption),
           ~MassiveScaleDown(w, q, current)
    PROVE  LET desired == GetDesiredWorkers(w, q, current)
           IN  \/ desired >= current - getMaxDisruptableWorkers(w.maxDisruption, current)
               \/ desired = w.max
<1> DEFINE min == getMinWorkers(q.sent, w.min, w.seconds)
           wanted == Wanted(w, q, current)
           limit == Limit(w, q, current)
<1>1. /\ wanted \in Nat32 /\ limit \in Nat32 /\ min \in Nat32
      /\ GetDesiredWorkers(w, q, current) = Clamp(Kept(current, wanted, limit), min, w.max)
    BY DesiredClamps
<1>2. limit = getMaxDisruptableWorkers(w.maxDisruption, current)
    BY DEF Limit
<1> HIDE DEF min, wanted, limit
<1>3. /\ wanted \in Int /\ limit \in Int /\ min \in Int /\ w.max \in Int /\ current \in Int
    BY <1>1, ScalingAssumption DEF SpecOK, Nat32
<1>4. \/ Clamp(Kept(current, wanted, limit), min, w.max) >= current - limit
      \/ Clamp(Kept(current, wanted, limit), min, w.max) = w.max
    BY <1>3 DEF Clamp, Kept
<1> QED
    BY <1>1, <1>2, <1>4

\* Under the assumptions of Decisions, for positive targets and a maxDisruption that
\* does not overflow, and when no report calls all workers idle, no update takes
\* more workers than maxDisruption gives of those there are, unless it goes to
\* maxReplicas: no stale cache, retry or restart makes two decisions of one.
THEOREM Disruption ==
    ASSUME IsFiniteSet(Keys), \A v, w \in Workers : v = w,
           Possible \cap {"scale", "deploy", "remove"} = {},
           \A spec \in WpaSpecs : spec.target > 0 /\ Sane(spec.maxDisruption),
           IdleCounts \cap Nat32 \subseteq {0}
    PROVE  Spec => DisruptionRespected
<1> DEFINE Respected(w, d) ==
        LET spec == worker[w].wpa.spec
        IN  \/ deployments'[d] >= deployments[d]
                  - getMaxDisruptableWorkers(spec.maxDisruption, deployments[d])
            \/ deployments'[d] = spec.max
<1>1. Types /\ Current /\ [Next]_vars => (Types /\ Current)'
    BY TypesNext, CurrentNext
<1>2. ASSUME Types, Current, [Next]_vars, NEW w \in Workers, NEW d \in Deployments, Scales(w, d)
      PROVE  Respected(w, d)
  <2> DEFINE job == worker[w]
             spec == job.wpa.spec
  <2>1. Update(w)
      BY <1>2, CurrentNext DEF Scales
  <2>2. job # Free /\ job.at = "update" /\ spec.deployment = d
      BY <1>2, <2>1 DEF Scales, Update, At
  <2>3. spec \in WpaSpecs /\ SpecOK(spec)
      BY <1>2, <2>2, SpecFields DEF Types, WorkerTypes, Sound
  <2>4. deployments \in [Deployments -> Nat32] /\ deployments[d] \in Nat32
      BY <1>2 DEF Current
  <2>5. PICK q \in Reports : job.desired = GetDesiredWorkers(spec, q, deployments[d])
      BY <1>2, <2>2 DEF Current, Decided
  <2>6. deployments'[d] = job.desired
      BY <1>2, <2>1, <2>2, <2>4 DEF Update, WriteDeployment, Scales
  <2>7. /\ ReportOK(q) /\ q.messages \in Nat32 /\ q.idle \in IdleCounts \cup {Unsynced}
    <3>1. /\ q.messages \in Backlogs /\ q.sent \in SentRates \cup {Unsynced}
          /\ q.idle \in IdleCounts \cup {Unsynced}
        BY DEF Reports
    <3>2. /\ Backlogs \subseteq Nat32 /\ SentRates \subseteq Int /\ IdleCounts \subseteq Int
          /\ Nat32 \subseteq Int /\ Unsynced \in Int
        BY ControllerAssumption, ScalingAssumption DEF Unsynced, Nat32, Int32
    <3>3. q.messages \in Nat32 /\ q.messages \in Int /\ q.sent \in Int /\ q.idle \in Int
        BY <3>1, <3>2
    <3> QED
        BY <3>1, <3>3 DEF ReportOK
  <2>8. ~MassiveScaleDown(spec, q, deployments[d])
    <3>1. Unsynced \notin Nat32
        BY ScalingAssumption DEF Unsynced, Nat32
    <3> QED
        BY <2>4, <2>7, <3>1 DEF MassiveScaleDown
  <2>9. spec.target > 0 /\ Sane(spec.maxDisruption)
      BY <2>3
  <2> HIDE DEF job, spec
  <2>10. \/ job.desired >= deployments[d]
                - getMaxDisruptableWorkers(spec.maxDisruption, deployments[d])
         \/ job.desired = spec.max
      BY <2>3, <2>4, <2>5, <2>7, <2>8, <2>9, DecisionKeeps
  <2> QED
      BY <2>6, <2>10 DEF job, spec
<1>3. Types /\ Current /\ [Next]_vars =>
         [\A w \in Workers, d \in Deployments : Scales(w, d) => Respected(w, d)]_vars
    BY <1>2
<1> QED
    BY <1>1, <1>3, TypesInit, CurrentInit, PTL DEF Spec, DisruptionRespected

-----------------------------------------------------------------------------
(* The promise of the work queue                                           *)

HoldersOf(i) == {w \in Workers : Holds(w, i)}
FailingOf(i) == {w \in Workers : Fails(w, i)}

\* Of one item: it is wanted, it is held back, who has it, and who has failed.
Keep(i) ==
    [PromiseTo(i)!Next]_<<i \in workqueue.dirty, i \in workqueue.delayed,
                          {w \in Workers : Holds(w, i)}, {w \in Workers : Fails(w, i)}>>

SameWith(i) ==
    /\ HoldersOf(i)' = HoldersOf(i) /\ FailingOf(i)' = FailingOf(i)
    /\ (i \in workqueue.delayed)' = (i \in workqueue.delayed)
    /\ (i \in workqueue.dirty)' = (i \in workqueue.dirty)

\* Whoever keeps the item it has, or none, has it as before.
LEMMA SameHolders ==
    ASSUME NEW i, \A w \in Workers : Same(worker[w], worker'[w])
                                     \/ /\ ~Holds(w, i)
                                        /\ worker'[w] = Free \/ worker'[w].event # i
    PROVE  HoldersOf(i)' = HoldersOf(i) /\ FailingOf(i)' = FailingOf(i)
<1>1. \A w \in Workers : /\ Holds(w, i)' <=> Holds(w, i)
                         /\ Fails(w, i)' <=> Fails(w, i)
    BY DEF Holds, Fails, Same
<1> QED
    BY <1>1 DEF HoldersOf, FailingOf

LEMMA SameKept ==
    ASSUME NEW i, SameWith(i)
    PROVE  Keep(i)
BY DEF Keep, SameWith, HoldersOf, FailingOf

LEMMA AddedKept ==
    ASSUME Types, NEW i \in Items, NEW j \in Items, Added(j), UNCHANGED down
    PROVE  Keep(i)
<1>1. HoldersOf(i)' = HoldersOf(i) /\ FailingOf(i)' = FailingOf(i)
    BY SameHolders DEF Added, Stays
<1>2. CASE i # j
  <2>1. SameWith(i)
      BY <1>1, <1>2 DEF Added, SameWith
  <2> QED
      BY <2>1, SameKept
<1>3. CASE i = j /\ workqueue'.delayed = workqueue.delayed
  <2>1. PromiseTo(i)!Add
      BY <1>1, <1>3 DEF PromiseTo!Add, Added, HoldersOf, FailingOf
  <2> QED
      BY <2>1 DEF Keep, PromiseTo!Next
<1>4. CASE /\ i = j /\ j \in workqueue.delayed
           /\ workqueue'.delayed = workqueue.delayed \ {j}
  <2>1. PromiseTo(i)!Redeliver
      BY <1>1, <1>4 DEF PromiseTo!Redeliver, Added, HoldersOf, FailingOf
  <2> QED
      BY <2>1 DEF Keep, PromiseTo!Next
<1> QED
    BY <1>2, <1>3, <1>4 DEF Added

LEMMA HandedKept ==
    ASSUME Types, NEW i \in Items, NEW w \in Workers, NEW j \in Items, Handed(w, j),
           UNCHANGED down
    PROVE  Keep(i)
<1>1. CASE i # j
  <2>1. HoldersOf(i)' = HoldersOf(i) /\ FailingOf(i)' = FailingOf(i)
      BY <1>1, SameHolders DEF Handed, OnlyMoves, Holds, Same
  <2>2. SameWith(i)
      BY <1>1, <2>1 DEF Handed, Taken, SameWith
  <2> QED
      BY <2>2, SameKept
<1>2. CASE i = j
  <2>1. \A v \in Workers : ~Holds(v, i)
      BY <1>2 DEF Handed, Taken, Holds, Types, Holding
  <2>2. \A v \in Workers : Holds(v, i)' <=> v = w
      BY <1>2, <2>1 DEF Handed, OnlyMoves, Holds
  <2>3. HoldersOf(i) = {} /\ HoldersOf(i)' = {w}
      BY <2>1, <2>2 DEF HoldersOf
  <2>4. FailingOf(i) = {} /\ FailingOf(i)' \in {{}, {w}}
      BY <2>1, <2>2 DEF FailingOf, Fails
  <2>5. PromiseTo(i)!Take(w)
      BY <1>2, <2>3, <2>4 DEF PromiseTo!Take, Handed, Taken, HoldersOf, FailingOf
  <2> QED
      BY <2>5 DEF Keep, PromiseTo!Next
<1> QED
    BY <1>1, <1>2

LEMMA EndedKept ==
    ASSUME Types, NEW i \in Items, NEW w \in Workers, Ended(w), UNCHANGED down
    PROVE  Keep(i)
<1>1. CASE i # worker[w].event
  <2>1. HoldersOf(i)' = HoldersOf(i) /\ FailingOf(i)' = FailingOf(i)
      BY <1>1, SameHolders DEF Ended, Holds
  <2>2. SameWith(i)
      BY <1>1, <2>1 DEF Ended, SameWith
  <2> QED
      BY <2>2, SameKept
<1>2. CASE i = worker[w].event
  <2>1. \A v \in Workers : Holds(v, i) <=> v = w
      BY <1>2 DEF Types, Holding, Holds, Ended
  <2>2. \A v \in Workers : ~Holds(v, i)'
      BY <1>2, <2>1 DEF Ended, Holds, Same
  <2>3. HoldersOf(i) = {w} /\ HoldersOf(i)' = {}
      BY <2>1, <2>2 DEF HoldersOf
  <2>4. /\ FailingOf(i) = IF worker[w].at = "requeue" THEN {w} ELSE {}
        /\ FailingOf(i)' = {}
      BY <2>1, <2>2 DEF FailingOf, Fails
  <2>5. CASE worker[w].at = "requeue"
    <3>1. PromiseTo(i)!Retry(w)
        BY <1>2, <2>3, <2>4, <2>5 DEF PromiseTo!Retry, Ended, HoldersOf, FailingOf
    <3> QED
        BY <3>1 DEF Keep, PromiseTo!Next
  <2>6. CASE worker[w].at # "requeue"
    <3>1. PromiseTo(i)!Done(w)
        BY <1>2, <2>3, <2>4, <2>6 DEF PromiseTo!Done, Ended, HoldersOf, FailingOf
    <3> QED
        BY <3>1 DEF Keep, PromiseTo!Next
  <2> QED
      BY <2>5, <2>6
<1> QED
    BY <1>1, <1>2

\* What each kind of step is for one item.
LEMMA PromiseKept ==
    ASSUME Types, ItemStep, NEW i \in Items
    PROVE  Keep(i)
<1>1. CASE Stays /\ SameQueue
  <2>1. HoldersOf(i)' = HoldersOf(i) /\ FailingOf(i)' = FailingOf(i)
      BY <1>1, SameHolders DEF Stays
  <2>2. SameWith(i)
      BY <1>1, <2>1 DEF SameQueue, SameWith
  <2> QED
      BY <2>2, SameKept
<1>2. CASE Boot
  <2>1. \A v \in Workers : ~Holds(v, i)'
      BY <1>2 DEF Boot, Holds
  <2>2. /\ HoldersOf(i)' = {} /\ FailingOf(i)' = {} /\ i \notin workqueue'.delayed
        /\ down # "up" /\ down' = "up"
      BY <1>2, <2>1 DEF Boot, EmptyQueue, HoldersOf, FailingOf, Fails
  <2>3. PromiseTo(i)!Restart
      BY <2>2 DEF PromiseTo!Restart, HoldersOf, FailingOf
  <2> QED
      BY <2>3 DEF Keep, PromiseTo!Next
<1> QED
    BY <1>1, <1>2, AddedKept, HandedKept, EndedKept DEF ItemStep

\* Of each item the queue keeps its promise, whatever the number of workers: from
\* its Add it is wanted until a worker takes it, that worker alone has it until its
\* Done, and a sync that fails leaves it held back until it is wanted again: only the
\* end of the process may lose it.
THEOREM NothingLost ==
    ASSUME IsFiniteSet(Keys)
    PROVE  Spec => NoItemLost
<1>1. Init => \A i \in Items : PromiseTo(i)!Init
    BY DEF Init, EmptyQueue, Holds, Fails, PromiseTo!Init
<1>2. Types /\ [Next]_vars =>
        [\A i \in Items :
            [PromiseTo(i)!Next]_<<i \in workqueue.dirty, i \in workqueue.delayed,
                                  {w \in Workers : Holds(w, i)},
                                  {w \in Workers : Fails(w, i)}>>]_vars
    BY ItemStepNext, PromiseKept DEF Keep
<1>3. Types /\ [Next]_vars => Types'
    BY TypesNext
<1> QED
    BY <1>1, <1>2, <1>3, TypesInit, PTL DEF Spec, NoItemLost

=============================================================================
