------------------------ MODULE ControllerProofs ------------------------
(***************************************************************************)
(* Of the controller, for every number of workers and resources: type      *)
(* correctness; what the work queue holds and who has it; that no status   *)
(* update puts an older scale time over a newer one; and that what the     *)
(* registry still has to be told is never forgotten.  That a status update *)
(* never writes to an object that is gone takes more than types: a cached  *)
(* object is the API server's once its watch is empty, and a worker's copy *)
(* that is still fresh is it, too.                                         *)
(***************************************************************************)
EXTENDS Controller, QueuesProofs, ScalingProofs, FiniteSetTheorems, SequenceTheorems

-----------------------------------------------------------------------------
(* What the operators of Workqueue promise, for every set of items: an     *)
(* item is in the queue at most once, and only while no worker has it.     *)

QueueOf(S) == [queue : Seq(S), dirty : SUBSET S, processing : SUBSET S, delayed : SUBSET S]

Once(wq) ==
    /\ IsInjective(wq.queue)
    /\ ToSet(wq.queue) = wq.dirty \ wq.processing

-----------------------------------------------------------------------------
(* Sequences without repetitions                                           *)

LEMMA AppendOnce ==
    ASSUME NEW S, NEW s \in Seq(S), IsInjective(s), NEW e \in S, e \notin ToSet(s)
    PROVE  /\ Append(s, e) \in Seq(S) /\ IsInjective(Append(s, e))
           /\ ToSet(Append(s, e)) = ToSet(s) \cup {e}
<1> DEFINE t == Append(s, e)
<1>1. /\ Len(s) \in Nat /\ DOMAIN s = 1 .. Len(s)
      /\ t \in Seq(S) /\ Len(t) = Len(s) + 1 /\ DOMAIN t = 1 .. Len(s) + 1
      /\ \A i \in 1 .. Len(s) : t[i] = s[i]
      /\ t[Len(s) + 1] = e
    OBVIOUS
<1> HIDE DEF t
<1>2. \A i \in 1 .. Len(s) : s[i] # e
    BY <1>1 DEF ToSet
<1>3. \A i \in 1 .. Len(s) + 1 : i \in 1 .. Len(s) \/ i = Len(s) + 1
    BY <1>1
<1>4. IsInjective(t)
    BY <1>1, <1>2, <1>3 DEF IsInjective
<1>5. ToSet(t) = ToSet(s) \cup {e}
    BY <1>1, <1>3 DEF ToSet
<1> QED
    BY <1>1, <1>4, <1>5 DEF t

LEMMA TailOnce ==
    ASSUME NEW S, NEW s \in Seq(S), IsInjective(s), s # <<>>
    PROVE  /\ Head(s) \in S /\ Head(s) \in ToSet(s)
           /\ Tail(s) \in Seq(S) /\ IsInjective(Tail(s))
           /\ ToSet(Tail(s)) = ToSet(s) \ {Head(s)}
<1> DEFINE t == Tail(s)
           h == Head(s)
<1>1. /\ Len(s) \in Nat /\ Len(s) > 0 /\ DOMAIN s = 1 .. Len(s)
      /\ t \in Seq(S) /\ Len(t) = Len(s) - 1 /\ DOMAIN t = 1 .. Len(s) - 1
      /\ \A i \in 1 .. Len(s) - 1 : t[i] = s[i + 1]
      /\ h = s[1] /\ h \in S
    BY HeadTailProperties, LenProperties
<1> HIDE DEF t, h
<1>2. \A i \in 1 .. Len(s) - 1 : i + 1 \in 1 .. Len(s) /\ i + 1 # 1
    BY <1>1
<1>3. \A i \in 1 .. Len(s) : i = 1 \/ (i - 1 \in 1 .. Len(s) - 1 /\ (i - 1) + 1 = i)
    BY <1>1
<1>4. 1 \in 1 .. Len(s)
    BY <1>1
<1>5. h \in ToSet(s)
    BY <1>1, <1>4 DEF ToSet
<1>6. IsInjective(t)
  <2> SUFFICES ASSUME NEW i \in 1 .. Len(s) - 1, NEW j \in 1 .. Len(s) - 1, t[i] = t[j]
               PROVE  i = j
      BY <1>1 DEF IsInjective
  <2>1. i + 1 = j + 1
      BY <1>1, <1>2 DEF IsInjective
  <2> QED
      BY <2>1
<1>7. \A i \in 1 .. Len(s) - 1 : t[i] \in ToSet(s) /\ t[i] # h
    BY <1>1, <1>2, <1>4 DEF ToSet, IsInjective
<1>8. \A i \in 1 .. Len(s) : s[i] = h \/ s[i] \in ToSet(t)
  <2> TAKE i \in 1 .. Len(s)
  <2>1. CASE i = 1
      BY <1>1, <2>1
  <2>2. CASE i # 1
    <3>1. i - 1 \in 1 .. Len(s) - 1 /\ t[i - 1] = s[i]
        BY <1>1, <1>3, <2>2
    <3> QED
        BY <1>1, <3>1 DEF ToSet
  <2> QED
      BY <2>1, <2>2
<1>9. ToSet(t) = ToSet(s) \ {h}
    BY <1>1, <1>7, <1>8 DEF ToSet
<1> QED
    BY <1>1, <1>5, <1>6, <1>9 DEF t, h

-----------------------------------------------------------------------------
(* The operations                                                          *)

LEMMA EnqueueOnce ==
    ASSUME NEW S, NEW wq \in QueueOf(S), Once(wq), NEW todo \in S
    PROVE  /\ Enqueue(wq, todo) \in QueueOf(S) /\ Once(Enqueue(wq, todo))
           /\ Enqueue(wq, todo).processing = wq.processing
<1>1. CASE todo \in wq.dirty
    BY <1>1 DEF Enqueue
<1>2. CASE todo \notin wq.dirty /\ todo \in wq.processing
    BY <1>2 DEF Enqueue, QueueOf, Once
<1>3. CASE todo \notin wq.dirty /\ todo \notin wq.processing
  <2> DEFINE q == Append(wq.queue, todo)
  <2>1. todo \notin ToSet(wq.queue) /\ wq.queue \in Seq(S)
      BY <1>3 DEF Once, QueueOf
  <2>2. q \in Seq(S) /\ IsInjective(q) /\ ToSet(q) = ToSet(wq.queue) \cup {todo}
      BY <2>1, AppendOnce DEF Once
  <2>3. Enqueue(wq, todo) = [wq EXCEPT !.dirty = @ \cup {todo}, !.queue = q]
      BY <1>3 DEF Enqueue
  <2> HIDE DEF q
  <2>4. /\ Enqueue(wq, todo) \in QueueOf(S)
        /\ Enqueue(wq, todo).queue = q /\ Enqueue(wq, todo).dirty = wq.dirty \cup {todo}
        /\ Enqueue(wq, todo).processing = wq.processing
      BY <2>2, <2>3 DEF QueueOf
  <2> QED
      BY <1>3, <2>2, <2>4 DEF Once
<1> QED
    BY <1>1, <1>2, <1>3

\* Get hands out what no other worker has.
LEMMA DequeueOnce ==
    ASSUME NEW S, NEW wq \in QueueOf(S), Once(wq), wq.queue # <<>>
    PROVE  /\ Head(wq.queue) \in S /\ Head(wq.queue) \notin wq.processing
           /\ Dequeue(wq) \in QueueOf(S) /\ Once(Dequeue(wq))
           /\ Dequeue(wq).processing = wq.processing \cup {Head(wq.queue)}
<1> DEFINE h == Head(wq.queue)
           q == Tail(wq.queue)
<1>1. wq.queue \in Seq(S)
    BY DEF QueueOf
<1>2. /\ h \in S /\ h \in ToSet(wq.queue)
      /\ q \in Seq(S) /\ IsInjective(q) /\ ToSet(q) = ToSet(wq.queue) \ {h}
    BY <1>1, TailOnce DEF Once
<1>3. Dequeue(wq) = [wq EXCEPT !.queue = q, !.dirty = @ \ {h}, !.processing = @ \cup {h}]
    BY DEF Dequeue
<1> HIDE DEF h, q
<1>4. /\ Dequeue(wq) \in QueueOf(S) /\ Dequeue(wq).queue = q
      /\ Dequeue(wq).dirty = wq.dirty \ {h} /\ Dequeue(wq).processing = wq.processing \cup {h}
    BY Zenon, <1>2, <1>3 DEF QueueOf
<1>5. h \notin wq.processing /\ Once(Dequeue(wq))
    BY <1>2, <1>4 DEF Once
<1> QED
    BY <1>2, <1>4, <1>5 DEF h

\* Done queues again what was added in the meantime.
LEMMA ItemDoneOnce ==
    ASSUME NEW S, NEW wq \in QueueOf(S), Once(wq), NEW todo \in wq.processing
    PROVE  /\ ItemDone(wq, todo) \in QueueOf(S) /\ Once(ItemDone(wq, todo))
           /\ ItemDone(wq, todo).processing = wq.processing \ {todo}
<1>1. CASE todo \notin wq.dirty
    BY <1>1 DEF ItemDone, QueueOf, Once
<1>2. CASE todo \in wq.dirty
  <2> DEFINE q == Append(wq.queue, todo)
  <2>1. todo \notin ToSet(wq.queue) /\ wq.queue \in Seq(S) /\ todo \in S
      BY DEF Once, QueueOf
  <2>2. q \in Seq(S) /\ IsInjective(q) /\ ToSet(q) = ToSet(wq.queue) \cup {todo}
      BY <2>1, AppendOnce DEF Once
  <2>3. ItemDone(wq, todo) = [wq EXCEPT !.processing = @ \ {todo}, !.queue = q]
      BY <1>2 DEF ItemDone
  <2> HIDE DEF q
  <2>4. /\ ItemDone(wq, todo) \in QueueOf(S)
        /\ ItemDone(wq, todo).queue = q /\ ItemDone(wq, todo).dirty = wq.dirty
        /\ ItemDone(wq, todo).processing = wq.processing \ {todo}
      BY <2>2, <2>3 DEF QueueOf
  <2> QED
      BY <1>2, <2>2, <2>4 DEF Once
<1> QED
    BY <1>1, <1>2

LEMMA DelayOnce ==
    ASSUME NEW S, NEW wq \in QueueOf(S), Once(wq), NEW todo \in S
    PROVE  /\ Delay(wq, todo) \in QueueOf(S) /\ Once(Delay(wq, todo))
           /\ Delay(wq, todo).processing = wq.processing
BY DEF Delay, QueueOf, Once

LEMMA RedeliverOnce ==
    ASSUME NEW S, NEW wq \in QueueOf(S), Once(wq), NEW todo \in S
    PROVE  /\ Redeliver(wq, todo) \in QueueOf(S) /\ Once(Redeliver(wq, todo))
           /\ Redeliver(wq, todo).processing = wq.processing
<1> DEFINE rest == [wq EXCEPT !.delayed = @ \ {todo}]
<1>1. rest \in QueueOf(S) /\ Once(rest) /\ rest.processing = wq.processing
    BY DEF QueueOf, Once
<1> HIDE DEF rest
<1> QED
    BY <1>1, EnqueueOnce DEF Redeliver, rest

-----------------------------------------------------------------------------
(* Who holds an item                                                       *)

\* A record with an event, as every worker in syncHandler has one.
HasEvent(job) == "event" \in DOMAIN job

\* Whoever is in syncHandler has its item marked as being processed, and is the
\* only one.
Holding ==
    /\ workqueue \in QueueOf(Items)
    /\ Once(workqueue)
    /\ DOMAIN worker = Workers
    /\ \A w \in Workers :
          worker[w] # Free => HasEvent(worker[w]) /\ worker[w].event \in workqueue.processing
    /\ \A v, w \in Workers :
          worker[v] # Free /\ worker[w] # Free /\ worker[v].event = worker[w].event => v = w

LEMMA HoldingInit == Init => Holding
<1> SUFFICES ASSUME Init PROVE Holding
    OBVIOUS
<1>1. workqueue = EmptyQueue /\ worker = [w \in Workers |-> Free]
    BY DEF Init
<1>2. <<>> \in Seq(Items) /\ DOMAIN <<>> = {}
    OBVIOUS
<1> QED
    BY <1>1, <1>2 DEF Holding, EmptyQueue, QueueOf, Once, IsInjective, ToSet

\* Nobody takes or ends an item.
SameItems ==
    /\ DOMAIN worker' = Workers
    /\ \A w \in Workers : worker'[w] # Free =>
          /\ worker[w] # Free
          /\ HasEvent(worker'[w]) /\ worker'[w].event = worker[w].event

LEMMA HoldingSame ==
    ASSUME Holding, SameItems,
           workqueue' \in QueueOf(Items), Once(workqueue'),
           workqueue'.processing = workqueue.processing
    PROVE  Holding'
BY DEF Holding, SameItems

\* An event handler, the resync or a back-off adds an item.
LEMMA HoldingAdd ==
    ASSUME Holding, NEW i \in Items, UNCHANGED worker,
           workqueue' \in {Enqueue(workqueue, i), Redeliver(workqueue, i)}
    PROVE  Holding'
<1>1. SameItems
    BY DEF SameItems, Holding
<1> QED
    BY <1>1, EnqueueOnce, RedeliverOnce, HoldingSame DEF Holding

\* Get hands an item to a worker that is free.
LEMMA HoldingHold ==
    ASSUME Holding, NEW w \in Workers, workqueue.queue # <<>>, NEW job, HasEvent(job),
           job.event = Head(workqueue.queue), Hold(w, job)
    PROVE  Holding'
<1>1. /\ job.event \notin workqueue.processing
      /\ workqueue' \in QueueOf(Items) /\ Once(workqueue')
      /\ workqueue'.processing = workqueue.processing \cup {job.event}
    BY DequeueOnce DEF Hold, Holding
<1>2. /\ worker' = [worker EXCEPT ![w] = job] /\ DOMAIN worker' = Workers
      /\ worker'[w] = job /\ \A v \in Workers : v # w => worker'[v] = worker[v]
    BY DEF Hold, Holding
<1> QED
    BY <1>1, <1>2 DEF Holding

LEMMA HoldingGet ==
    ASSUME Holding, NEW w \in Workers, Get(w)
    PROVE  Holding'
<1> DEFINE event == Head(workqueue.queue)
           wpa == wpaCache[event.key]
           new == NewJob(event, wpa)
           job == [new EXCEPT !.current = deploymentCache[wpa.spec.deployment],
                              !.last = wpa.status.last]
<1>1. \/ Hold(w, new)
      \/ Hold(w, [new EXCEPT !.at = "ignore"])
      \/ Hold(w, [new EXCEPT !.at = "requeue"])
      \/ Hold(w, [job EXCEPT !.at = "registry"])
      \/ Hold(w, [job EXCEPT !.at = "decide"])
    BY Zenon DEF Get
<1>2. workqueue.queue # <<>>
    BY Zenon DEF Get
<1> HIDE DEF event, wpa
<1>3. HasEvent(new) /\ new.event = event
    BY DEF HasEvent, NewJob
<1> HIDE DEF new
<1>3a. /\ HasEvent(job) /\ job.event = event
       /\ \A place \in {"ignore", "requeue"} :
             HasEvent([new EXCEPT !.at = place]) /\ [new EXCEPT !.at = place].event = event
    BY <1>3 DEF HasEvent
<1> HIDE DEF job
<1>3b. \A place \in {"registry", "decide"} :
          HasEvent([job EXCEPT !.at = place]) /\ [job EXCEPT !.at = place].event = event
    BY <1>3a DEF HasEvent
<1>4. event = Head(workqueue.queue)
    BY DEF event
<1> QED
    BY <1>1, <1>2, <1>3, <1>3a, <1>3b, <1>4, HoldingHold

\* A worker is done with its item.
LEMMA HoldingFinish ==
    ASSUME Holding, NEW w \in Workers, worker[w] # Free,
           DOMAIN worker' = Workers, worker'[w] = Free,
           \A v \in Workers \ {w} : worker'[v] # Free =>
              worker[v] # Free /\ HasEvent(worker'[v]) /\ worker'[v].event = worker[v].event,
           workqueue' = ItemDone(workqueue, worker[w].event)
    PROVE  Holding'
<1>1. worker[w].event \in workqueue.processing
    BY DEF Holding
<1>2. /\ workqueue' \in QueueOf(Items) /\ Once(workqueue')
      /\ workqueue'.processing = workqueue.processing \ {worker[w].event}
    BY <1>1, ItemDoneOnce DEF Holding
<1> QED
    BY <1>2 DEF Holding

\* ... or has failed, and puts it back for later first.
LEMMA HoldingRetried ==
    ASSUME Holding, NEW w \in Workers, worker[w] # Free,
           worker' = [worker EXCEPT ![w] = Free],
           workqueue' = ItemDone(Delay(workqueue, worker[w].event), worker[w].event)
    PROVE  Holding'
<1> DEFINE event == worker[w].event
           wq == Delay(workqueue, event)
<1>1. event \in workqueue.processing /\ event \in Items
    BY DEF Holding, QueueOf
<1>2. wq \in QueueOf(Items) /\ Once(wq) /\ wq.processing = workqueue.processing
    BY <1>1, DelayOnce DEF Holding
<1> HIDE DEF wq
<1>3. /\ workqueue' \in QueueOf(Items) /\ Once(workqueue')
      /\ workqueue'.processing = workqueue.processing \ {event}
    BY <1>1, <1>2, ItemDoneOnce DEF wq
<1> QED
    BY <1>3 DEF Holding

\* Copies of an object go out of date, times go by: items stay.
LEMMA OutdateSame ==
    ASSUME Holding, NEW k
    PROVE  /\ DOMAIN Outdate(k) = Workers
           /\ \A w \in Workers : Outdate(k)[w] # Free =>
                 /\ worker[w] # Free
                 /\ HasEvent(Outdate(k)[w]) /\ Outdate(k)[w].event = worker[w].event
BY DEF Holding, Outdate, HasEvent

\* A worker goes on with its item.
LEMMA HoldingStep ==
    ASSUME Holding, NEW w \in Workers, worker[w] # Free,
           DOMAIN worker' = Workers,
           \A v \in Workers : v # w => worker'[v] = worker[v],
           DOMAIN worker'[w] = DOMAIN worker[w], worker'[w].event = worker[w].event
    PROVE  SameItems
BY DEF SameItems, Holding, HasEvent

LEMMA HoldingHandler ==
    ASSUME Holding, NEW w \in Workers, syncHandler(w)
    PROVE  Holding'
<1>1. worker[w] # Free /\ HasEvent(worker[w])
    BY Zenon DEF syncHandler, Forget, Ignore, Requeue, Registry, Decide, Update, UpdateStatus, At, Holding
<1>2. ASSUME Finish(w) PROVE Holding'
    BY <1>1, <1>2, HoldingFinish DEF Finish, Holding
<1>3. CASE Forget(w) \/ Ignore(w)
    BY <1>2, <1>3 DEF Forget, Ignore
<1>3a. CASE Requeue(w)
    BY <1>1, <1>3a, HoldingRetried DEF Requeue, Holding
<1>4. CASE Registry(w)
  <2>1. worker' = [worker EXCEPT ![w].at = "decide"] /\ UNCHANGED workqueue
      BY <1>4 DEF Registry
  <2>2. SameItems
      BY <1>1, <2>1 DEF SameItems, Holding, HasEvent
  <2> QED
      BY <2>1, <2>2, HoldingSame DEF Holding
<1>5. CASE Decide(w)
  <2>1. \/ Finish(w)
        \/ /\ \E desired, messages, place :
                 worker' = [worker EXCEPT ![w].desired = desired, ![w].messages = messages,
                                          ![w].at = place]
           /\ UNCHANGED workqueue
      BY <1>5, Zenon DEF Decide
  <2>2. ASSUME NEW desired, NEW messages, NEW place,
               worker' = [worker EXCEPT ![w].desired = desired, ![w].messages = messages,
                                        ![w].at = place]
        PROVE  SameItems
    <3>1. /\ DOMAIN worker' = Workers
          /\ \A v \in Workers : v # w => worker'[v] = worker[v]
          /\ DOMAIN worker'[w] = DOMAIN worker[w]
          /\ worker'[w].event = worker[w].event
        BY <1>1, <2>2 DEF Holding
    <3> QED
        BY <1>1, <3>1, HoldingStep
  <2>3. CASE Finish(w)
      BY <1>2, <2>3
  <2>4. CASE ~Finish(w)
    <3>1. PICK desired, messages, place :
             worker' = [worker EXCEPT ![w].desired = desired, ![w].messages = messages,
                                      ![w].at = place]
        BY <2>1, <2>4, Zenon
    <3>2. SameItems
        BY <2>2, <3>1, Zenon
    <3>3. UNCHANGED workqueue
        BY <2>1, <2>4
    <3> QED
        BY <3>2, <3>3, HoldingSame DEF Holding
  <2> QED
      BY <2>3, <2>4
<1>6. CASE Update(w)
  <2>1. UNCHANGED workqueue
      BY <1>6, Zenon DEF Update
  <2>2. CASE UNCHANGED worker
    <3>1. SameItems
        BY <2>2 DEF SameItems, Holding
    <3> QED
        BY <2>1, <3>1, HoldingSame DEF Holding
  <2>3. CASE ~UNCHANGED worker
    <3> DEFINE d == worker[w].wpa.spec.deployment
               tries == worker[w].tries + 1
               absent == Gone \in {deployments[d], deploymentCache[d]}
               conflict == ~absent /\ deploymentWatch[d] # <<>>
    <3>1. worker' = [worker EXCEPT ![w].tries = tries,
                                   ![w].at = IF conflict THEN "update" ELSE "status",
                                   ![w].last = IF conflict THEN @ ELSE "recent"]
        BY Zenon, <1>6, <2>3 DEF Update
    <3> HIDE DEF tries, conflict
    <3>2. /\ DOMAIN worker' = Workers
          /\ \A v \in Workers : v # w => worker'[v] = worker[v]
          /\ DOMAIN worker'[w] = DOMAIN worker[w]
          /\ worker'[w].event = worker[w].event
        BY <1>1, <3>1 DEF Holding
    <3>3. SameItems
        BY <1>1, <3>2, HoldingStep
    <3> QED
        BY <2>1, <3>3, HoldingSame DEF Holding
  <2> QED
      BY <2>2, <2>3
<1>7. CASE UpdateStatus(w)
  <2>1. \/ Finish(w)
        \/ /\ worker' = [Outdate(worker[w].event.key) EXCEPT ![w] = Free]
           /\ workqueue' = ItemDone(workqueue, worker[w].event)
      BY <1>7 DEF UpdateStatus
  <2>2. ASSUME worker' = [Outdate(worker[w].event.key) EXCEPT ![w] = Free],
               workqueue' = ItemDone(workqueue, worker[w].event)
        PROVE  Holding'
    <3>1. /\ DOMAIN worker' = Workers /\ worker'[w] = Free
          /\ \A v \in Workers \ {w} : worker'[v] = Outdate(worker[w].event.key)[v]
        BY <2>2, OutdateSame
    <3>2. \A v \in Workers \ {w} : worker'[v] # Free =>
             worker[v] # Free /\ HasEvent(worker'[v]) /\ worker'[v].event = worker[v].event
        BY <3>1, OutdateSame
    <3> QED
        BY <1>1, <2>2, <3>1, <3>2, HoldingFinish
  <2> QED
      BY <1>2, <2>1, <2>2
<1> QED
    BY <1>3, <1>3a, <1>4, <1>5, <1>6, <1>7 DEF syncHandler

\* The clock and the users touch no item.
LEMMA HoldingOutside ==
    ASSUME Holding, Cool \/ \E k \in Keys : UserWritesWpa(k)
    PROVE  Holding'
<1>1. UNCHANGED workqueue
    BY Zenon DEF Cool, UserWritesWpa
<1>2. CASE Cool
  <2>1. DOMAIN worker' = Workers
      BY <1>2 DEF Cool
  <2>2. \A w \in Workers : \/ worker'[w] = Free
                           \/ /\ worker[w] # Free
                              /\ \E last, wpa :
                                    worker'[w] = [worker[w] EXCEPT !.last = last, !.wpa = wpa]
      BY <1>2 DEF Cool
  <2>3. SameItems
      BY <2>1, <2>2 DEF SameItems, Holding, HasEvent
  <2> QED
      BY <1>1, <2>3, HoldingSame DEF Holding
<1>3. CASE \E k \in Keys : UserWritesWpa(k)
  <2>1. PICK k \in Keys : worker' = Outdate(k)
      BY <1>3 DEF UserWritesWpa
  <2>2. SameItems
      BY <2>1, OutdateSame DEF SameItems
  <2> QED
      BY <1>1, <2>2, HoldingSame DEF Holding
<1> QED
    BY <1>2, <1>3

-----------------------------------------------------------------------------
(* The restart                                                             *)

\* SetToSeq lists every element of a finite set, each of them once.
LEMMA SetToSeqOnce ==
    ASSUME NEW S, IsFiniteSet(S)
    PROVE  SetToSeq(S) \in Seq(S) /\ IsInjective(SetToSeq(S)) /\ ToSet(SetToSeq(S)) = S
<1> DEFINE n == Cardinality(S)
           f == SetToSeq(S)
<1>1. n \in Nat /\ ExistsBijection(1 .. n, S)
    BY FS_CardinalityType
<1>2. \E g \in [1 .. n -> S] : IsInjective(g)
    BY <1>1 DEF ExistsBijection, Bijection, Injection
<1>3. f \in [1 .. n -> S] /\ IsInjective(f)
    BY <1>2 DEF SetToSeq
<1>4. Cardinality(1 .. n) = n
    BY <1>1, FS_Interval
<1> HIDE DEF f
<1>5. f \in Injection(1 .. n, S)
    BY <1>3 DEF Injection
<1>6. f \in Surjection(1 .. n, S)
    BY <1>4, <1>5, FS_Injection
<1>7. \A t \in S : \E i \in 1 .. n : f[i] = t
    BY <1>6 DEF Surjection
<1>8. f \in Seq(S)
    BY <1>1, <1>3
<1>9. ToSet(f) = S
    BY <1>3, <1>7 DEF ToSet
<1> QED
    BY <1>3, <1>8, <1>9 DEF f

LEMMA HoldingBoot ==
    ASSUME IsFiniteSet(Keys), Holding, Boot
    PROVE  Holding'
<1> DEFINE present == {k \in Keys : wpas[k] # Gone}
           adds == {Event(k, "add") : k \in present}
           list == SetToSeq(adds)
<1>1. /\ workqueue' = [EmptyQueue EXCEPT !.queue = list, !.dirty = adds]
      /\ worker' = [w \in Workers |-> Free]
    BY DEF Boot
<1>2. IsFiniteSet(adds)
  <2> DEFINE f == [k \in present |-> Event(k, "add")]
  <2>1. f \in Surjection(present, adds)
      BY DEF Surjection
  <2>2. IsFiniteSet(present)
      BY FS_Subset
  <2> QED
      BY <2>1, <2>2, FS_Surjection
<1>3. adds \subseteq Items
    BY DEF Event, Items
<1> HIDE DEF adds
<1>4. list \in Seq(adds) /\ IsInjective(list) /\ ToSet(list) = adds
    BY <1>2, SetToSeqOnce
<1> HIDE DEF list
<1>5. list \in Seq(Items)
    BY <1>3, <1>4
<1>6. /\ workqueue'.queue = list /\ workqueue'.dirty = adds
      /\ workqueue'.processing = {} /\ workqueue'.delayed = {}
      /\ workqueue' \in QueueOf(Items)
    BY <1>1, <1>3, <1>5 DEF EmptyQueue, QueueOf
<1> QED
    BY <1>1, <1>4, <1>6 DEF Holding, Once

-----------------------------------------------------------------------------

\* Informers add items; what happens elsewhere leaves the work queue alone.
LEMMA HoldingInformers ==
    ASSUME Holding, NEW k \in Keys, DeliverWpa(k) \/ Relist(k) \/ Resync(k)
    PROVE  Holding'
<1>1. UNCHANGED worker
    BY DEF DeliverWpa, Relist, Resync
<1>2. \/ UNCHANGED workqueue
      \/ \E name \in {"add", "update", "delete"} : workqueue' = Enqueue(workqueue, Event(k, name))
    BY DEF DeliverWpa, Relist, Resync
<1>3. CASE UNCHANGED workqueue
    BY <1>1, <1>3 DEF Holding, Once
<1>4. ASSUME NEW name \in {"add", "update", "delete"},
             workqueue' = Enqueue(workqueue, Event(k, name))
      PROVE  Holding'
  <2>1. Event(k, name) \in Items
      BY DEF Event, Items
  <2> QED
      BY <1>1, <1>4, <2>1, HoldingAdd
<1> QED
    BY <1>2, <1>3, <1>4

LEMMA HoldingNext ==
    ASSUME IsFiniteSet(Keys), Holding, [Next]_vars
    PROVE  Holding'
<1>1. CASE UNCHANGED <<worker, workqueue>>
    BY <1>1 DEF Holding, Once
<1>2. ASSUME NEW k \in Keys, DeliverWpa(k) \/ Relist(k) \/ Resync(k) PROVE Holding'
    BY <1>2, HoldingInformers
<1>3. ASSUME NEW d \in Deployments, DeliverDeployment(d) \/ UserWritesDeployment(d)
      PROVE  UNCHANGED <<worker, workqueue>>
    BY <1>3 DEF DeliverDeployment, UserWritesDeployment
<1>4. CASE RedeliverDelayed
  <2>1. PICK i \in workqueue.delayed : workqueue' = Redeliver(workqueue, i)
      BY <1>4 DEF RedeliverDelayed
  <2>2. i \in Items /\ UNCHANGED worker
      BY <1>4, <2>1 DEF RedeliverDelayed, Holding, QueueOf
  <2> QED
      BY <2>1, <2>2, HoldingAdd
<1>5. ASSUME NEW w \in Workers, Get(w) \/ syncHandler(w) PROVE Holding'
    BY <1>5, HoldingGet, HoldingHandler
<1>6. ASSUME NEW k \in Keys, Poll(k) \/ StartPoll(k) \/ EndPoll(k) \/ ReportWorkers(k)
      PROVE  UNCHANGED <<worker, workqueue>>
    BY <1>6 DEF Poll, StartPoll, EndPoll, ReportWorkers
<1>7. CASE Cool \/ \E k \in Keys : UserWritesWpa(k)
    BY <1>7, HoldingOutside
<1>8. CASE SetBacklog \/ End
    BY <1>1, <1>8 DEF SetBacklog, End
<1>9. CASE Boot
    BY <1>9, HoldingBoot
<1>10. CASE UNCHANGED vars
    BY <1>1, <1>10 DEF vars
<1> QED
    BY <1>1, <1>2, <1>3, <1>4, <1>5, <1>6, <1>7, <1>8, <1>9, <1>10 DEF Next

-----------------------------------------------------------------------------
(* Type correctness                                                        *)

Object == [spec : WpaSpecs, status : Status]

\* What the poller may have told the registry of a queue.
Known(q) ==
    /\ q.messages \in Backlogs \cup {Unsynced}
    /\ q.sent \in SentRates \cup {Unsynced}
    /\ q.idle \in IdleCounts \cup {Unsynced}

RegistryTypes ==
    /\ QueuesTypeOK
    /\ \A k \in Keys : Registered(k) => Known(item[k])
    /\ \A c \in Callers : call[c] # Idle => Known(call[c].spec)

\* What an informer will have seen of an object when its watch has nothing left.
Newest(cached, watch) == IF watch = <<>> THEN cached ELSE watch[Len(watch)]

WpaTypes ==
    /\ wpas \in [Keys -> WpaVersion]
    /\ wpaCache \in [Keys -> WpaVersion]
    /\ wpaWatch \in [Keys -> Seq(WpaVersion)]
    /\ \A k \in Keys : Newest(wpaCache[k], wpaWatch[k]) = wpas[k]

DeploymentTypes ==
    /\ deployments \in [Deployments -> DeploymentVersion]
    /\ deploymentCache \in [Deployments -> DeploymentVersion]
    /\ deploymentWatch \in [Deployments -> Seq(DeploymentVersion)]

\* A worker past its reads has an object, of a workload it may scale, and knows
\* when it is the API server's.
Sound(job, current) ==
    /\ job \in Job
    /\ job.desired \in Nat32
    /\ job.fresh => job.wpa = current
    /\ job.at # "forget" => job.wpa \in Object
    /\ job.at \notin {"forget", "ignore"} => job.wpa.spec.deployment \in Deployments
    /\ job.at \in {"registry", "decide"} => job.tries = 0
    /\ job.at = "update" => job.tries < RetrySteps

WorkerTypes ==
    /\ DOMAIN worker = Workers
    /\ \A w \in Workers : worker[w] # Free => Sound(worker[w], wpas[worker[w].event.key])

OtherTypes ==
    /\ backlog \in [Uris -> Backlogs]
    /\ polling \in [Keys -> Backlogs \cup {Unsynced}]
    /\ down \in {"up", "fatal", "killed", "stopped"}
    /\ scaledAt \in [Deployments -> Times]
    /\ edits \in 0 .. MaxEdits

Types == Holding /\ RegistryTypes /\ WpaTypes /\ DeploymentTypes /\ WorkerTypes /\ OtherTypes

-----------------------------------------------------------------------------
(* Watches                                                                 *)

LEMMA NewestTail ==
    ASSUME NEW S, NEW watch \in Seq(S), watch # <<>>, NEW cached
    PROVE  /\ Head(watch) \in S /\ Tail(watch) \in Seq(S)
           /\ Newest(Head(watch), Tail(watch)) = Newest(cached, watch)
<1> DEFINE t == Tail(watch)
<1>1. /\ Len(watch) \in Nat /\ Len(watch) > 0
      /\ Head(watch) = watch[1] /\ Head(watch) \in S
      /\ t \in Seq(S) /\ Len(t) \in Nat /\ Len(t) = Len(watch) - 1
      /\ \A i \in 1 .. Len(watch) - 1 : t[i] = watch[i + 1]
    OBVIOUS
<1>4. t = <<>> <=> Len(t) = 0
    BY <1>1, EmptySeq
<1> HIDE DEF t
<1>2. CASE t = <<>>
    BY <1>1, <1>4, <1>2 DEF Newest
<1>3. CASE t # <<>>
  <2>1. Len(t) \in 1 .. Len(watch) - 1 /\ Len(t) + 1 = Len(watch)
      BY <1>1, <1>4, <1>3
  <2>2. t[Len(t)] = watch[Len(watch)]
      BY <1>1, <2>1
  <2> QED
      BY <1>1, <1>3, <2>2 DEF Newest
<1> QED
    BY <1>1, <1>2, <1>3 DEF t

LEMMA SeqElements ==
    ASSUME NEW S, NEW s \in Seq(S)
    PROVE  ToSet(s) \subseteq S
<1>1. \A i \in DOMAIN s : s[i] \in S
    OBVIOUS
<1> QED
    BY <1>1 DEF ToSet

LEMMA NewestAppend ==
    ASSUME NEW S, NEW watch \in Seq(S), NEW version \in S, NEW cached
    PROVE  /\ Append(watch, version) \in Seq(S)
           /\ Newest(cached, Append(watch, version)) = version
<1> DEFINE t == Append(watch, version)
<1>1. /\ t \in Seq(S) /\ Len(t) = Len(watch) + 1 /\ Len(watch) \in Nat
      /\ t[Len(watch) + 1] = version /\ t # <<>>
    OBVIOUS
<1> HIDE DEF t
<1>2. t[Len(t)] = version
    BY <1>1
<1> QED
    BY <1>1, <1>2 DEF Newest, t

-----------------------------------------------------------------------------

LEMMA TypesTypeOK == Types => TypeOK
<1> SUFFICES ASSUME Types PROVE TypeOK
    OBVIOUS
<1>1. \A k \in Keys : {wpas[k], wpaCache[k]} \cup ToSet(wpaWatch[k]) \subseteq WpaVersion
    BY SeqElements DEF Types, WpaTypes
<1>2. \A d \in Deployments :
         {deployments[d], deploymentCache[d]} \cup ToSet(deploymentWatch[d])
             \subseteq DeploymentVersion
    BY SeqElements DEF Types, DeploymentTypes
<1>3. workqueue.dirty \cup workqueue.processing \cup workqueue.delayed \subseteq Items
    BY DEF Types, Holding, QueueOf
<1>4. QueuesTypeOK /\ \A w \in Workers : worker[w] # Free => worker[w] \in Job
    BY DEF Types, RegistryTypes, WorkerTypes, Sound
<1>5. /\ backlog \in [Uris -> Backlogs]
      /\ polling \in [Keys -> Backlogs \cup {Unsynced}]
      /\ down \in {"up", "fatal", "killed", "stopped"}
      /\ scaledAt \in [Deployments -> Times]
      /\ edits \in 0 .. MaxEdits
    BY DEF Types, OtherTypes
<1> QED
    BY <1>1, <1>2, <1>3, <1>4, <1>5 DEF TypeOK

LEMMA TypesInit == Init => Types
<1> SUFFICES ASSUME Init PROVE Types
    OBVIOUS
<1>1. RegistryTypes
    BY DEF Init, QueuesInit, RegistryTypes, QueuesTypeOK, Registered
<1>2. WpaTypes
    BY DEF Init, WpaTypes, WpaVersion, Newest
<1>3. DeploymentTypes
    BY ControllerAssumption DEF Init, DeploymentTypes, DeploymentVersion
<1>4. WorkerTypes
    BY DEF Init, WorkerTypes
<1>5. OtherTypes
    BY ControllerAssumption DEF Init, OtherTypes, Times
<1> QED
    BY <1>1, <1>2, <1>3, <1>4, <1>5, HoldingInit DEF Types

-----------------------------------------------------------------------------
(* The registry                                                            *)

LEMMA Nat32IsNat == Nat32 \subseteq Nat /\ Int32 \subseteq Int
BY ScalingAssumption DEF Nat32, Int32

LEMMA RegistryAddList ==
    ASSUME RegistryTypes, NEW c \in Callers, NEW key \in Keys, NEW uri \in Uris,
           NEW workers \in Int, NEW seconds \in Nat, AddList(c, key, uri, workers, seconds)
    PROVE  RegistryTypes'
<1> DEFINE built == BuildSpec(item[key], uri, workers, seconds)
<1>1. QueuesTypeOK'
    BY AddListType DEF RegistryTypes
<1>2. Known(built)
  <2>1. item[key] # NoSpec => Known(item[key])
      BY DEF RegistryTypes, Registered
  <2>2. /\ built.messages = IF item[key] = NoSpec THEN Unsynced ELSE item[key].messages
        /\ built.sent = IF item[key] = NoSpec THEN Unsynced ELSE item[key].sent
        /\ built.idle = IF item[key] = NoSpec THEN Unsynced ELSE item[key].idle
      BY DEF BuildSpec
  <2> QED
      BY <2>1, <2>2 DEF Known
<1> HIDE DEF built
<1>3. call' = [call EXCEPT ![c] = [key |-> key, spec |-> built]] /\ UNCHANGED item
    BY DEF AddList, ListQueue, built
<1>4. \A d \in Callers : call'[d] = call[d] \/ call'[d] = [key |-> key, spec |-> built]
    BY <1>3 DEF RegistryTypes, QueuesTypeOK
<1>5. \A d \in Callers : call'[d] # Idle => Known(call'[d].spec)
    BY <1>2, <1>4 DEF RegistryTypes
<1>6. \A k \in Keys : Registered(k)' => Known(item[k])'
    BY <1>3 DEF RegistryTypes, Registered, Known
<1>7. \A d \in Callers : (call[d] # Idle)' => Known(call[d].spec)'
    BY <1>5 DEF Known
<1> QED
    BY <1>1, <1>6, <1>7 DEF RegistryTypes

LEMMA RegistryAddSend ==
    ASSUME RegistryTypes, NEW c \in Callers, AddSend(c)
    PROVE  RegistryTypes'
<1>1. QueuesTypeOK'
    BY AddSendType DEF RegistryTypes
<1>2. Known(call[c].spec)
    BY DEF RegistryTypes, AddSend
<1>3. \A k \in Keys : item'[k] \in {item[k], call[c].spec}
    BY DEF RegistryTypes, QueuesTypeOK, AddSend
<1>4. \A d \in Callers : call'[d] \in {call[d], Idle}
    BY DEF RegistryTypes, QueuesTypeOK, AddSend
<1>5. \A k \in Keys : Registered(k)' => Known(item[k])'
    BY <1>2, <1>3 DEF RegistryTypes, Registered, Known
<1>6. \A d \in Callers : (call[d] # Idle)' => Known(call[d].spec)'
    BY <1>4 DEF RegistryTypes, Known
<1> QED
    BY <1>1, <1>5, <1>6 DEF RegistryTypes

LEMMA RegistryDelete ==
    ASSUME RegistryTypes, NEW c \in Callers, NEW key \in Keys, Delete(c, key)
    PROVE  RegistryTypes'
<1>1. QueuesTypeOK'
    BY DeleteType DEF RegistryTypes
<1>2. \A k \in Keys : item'[k] \in {item[k], NoSpec}
    BY DEF RegistryTypes, QueuesTypeOK, Delete
<1>3. \A k \in Keys : Registered(k)' => Known(item[k])'
    BY <1>2 DEF RegistryTypes, Registered, Known
<1> QED
    BY <1>1, <1>3 DEF RegistryTypes, Delete, Known

LEMMA RegistryReport ==
    ASSUME RegistryTypes, NEW key \in Keys,
           \/ \E n \in Backlogs : updateMessage(key, n)
           \/ \E n \in SentRates : updateMessageSent(key, n)
           \/ \E n \in IdleCounts : updateIdleWorkers(key, n)
    PROVE  RegistryTypes'
<1>1. PICK n : \/ n \in Backlogs /\ updateMessage(key, n)
               \/ n \in SentRates /\ updateMessageSent(key, n)
               \/ n \in IdleCounts /\ updateIdleWorkers(key, n)
    OBVIOUS
<1>2. n \in Int
  <2>1. Backlogs \subseteq Int /\ SentRates \subseteq Int /\ IdleCounts \subseteq Int
      BY ControllerAssumption, Nat32IsNat
  <2>2. n \in Backlogs \/ n \in SentRates \/ n \in IdleCounts
      BY <1>1
  <2> QED
      BY <2>1, <2>2
<1>3. Reported(key)
    BY <1>1, <1>2, ReportType DEF RegistryTypes
<1>4. QueuesTypeOK'
    BY <1>3 DEF Reported, RegistryTypes, QueuesTypeOK
<1>5. \A k \in Keys : item[k] \in QueueSpec \cup {NoSpec}
    BY DEF RegistryTypes, QueuesTypeOK
<1>6. ASSUME NEW k \in Keys, item'[k] # NoSpec PROVE Known(item'[k])
  <2>1. item[k] # NoSpec /\ item[k] \in QueueSpec /\ Known(item[k])
      BY <1>3, <1>5, <1>6 DEF Reported, RegistryTypes, Registered
  <2>2. \/ item' = item
        \/ n \in Backlogs /\ item' = [item EXCEPT ![key].messages = n]
        \/ n \in SentRates /\ item' = [item EXCEPT ![key].sent = n]
        \/ n \in IdleCounts /\ item' = [item EXCEPT ![key].idle = n]
      BY <1>1 DEF updateMessage, updateMessageSent, updateIdleWorkers
  <2>3. \/ item'[k] = item[k]
        \/ n \in Backlogs /\ item'[k] = [item[k] EXCEPT !.messages = n]
        \/ n \in SentRates /\ item'[k] = [item[k] EXCEPT !.sent = n]
        \/ n \in IdleCounts /\ item'[k] = [item[k] EXCEPT !.idle = n]
      BY <2>2 DEF RegistryTypes, QueuesTypeOK
  <2> QED
      BY <2>1, <2>3 DEF Known, QueueSpec
<1>7. \A k \in Keys : Registered(k)' => Known(item[k])'
    BY <1>6 DEF Registered, Known
<1> QED
    BY <1>3, <1>4, <1>7 DEF Reported, RegistryTypes, Known

\* What a worker reads of a spec is what Add takes.
LEMMA SpecFields ==
    ASSUME NEW version \in Object
    PROVE  /\ version.spec \in WpaSpecs
           /\ version.spec.uri \in Uris /\ version.spec.seconds \in Nat
           /\ version.spec.deployment \in Deployments \cup {NoDeployment}
           /\ version.status.last \in Times
           /\ SpecOK(version.spec)
<1>1. version.spec \in WpaSpecs /\ version.spec \in WpaSpec /\ version.status \in Status
    BY ControllerAssumption DEF Object
<1>2. Nat32 \subseteq Nat
    BY Nat32IsNat
<1> QED
    BY <1>1, <1>2 DEF WpaSpec, Status, SpecOK

-----------------------------------------------------------------------------
(* Get                                                                     *)

\* What a worker has read when Get leaves it with an item: nothing more when there
\* is nothing to sync, or what it needs is missing.
HeldJob(event, wpa, place) == [NewJob(event, wpa) EXCEPT !.at = place]

ReadJob(event, wpa, place) ==
    [NewJob(event, wpa) EXCEPT !.current = deploymentCache[wpa.spec.deployment],
                               !.last = wpa.status.last, !.at = place]

LEMMA GetReads ==
    ASSUME Types, NEW w \in Workers, Get(w)
    PROVE  LET event == Head(workqueue.queue)
               wpa == wpaCache[event.key]
           IN  /\ event \in Items
               /\ UNCHANGED <<apiVars, cacheVars, envVars>>
               /\ \/ wpa = Gone /\ Hold(w, NewJob(event, wpa)) /\ UNCHANGED <<item, call>>
                  \/ /\ wpa \in Object
                     /\ \/ Hold(w, HeldJob(event, wpa, "ignore"))
                        \/ /\ wpa.spec.deployment \in Deployments
                           /\ Hold(w, HeldJob(event, wpa, "requeue"))
                     /\ UNCHANGED <<item, call>>
                  \/ /\ wpa \in Object /\ wpa.spec.deployment \in Deployments
                     /\ deploymentCache[wpa.spec.deployment] \in Nat32
                     /\ \E place \in {"registry", "decide"} : Hold(w, ReadJob(event, wpa, place))
                     /\ \/ UNCHANGED <<item, call>>
                        \/ AddList(w, event.key, wpa.spec.uri,
                                   deploymentCache[wpa.spec.deployment], wpa.spec.seconds)
<1> DEFINE event == Head(workqueue.queue)
           wpa == wpaCache[event.key]
           deployment == wpa.spec.deployment
           job == [NewJob(event, wpa) EXCEPT !.current = deploymentCache[deployment],
                                             !.last = wpa.status.last]
<1>1. event \in Items
  <2>1. workqueue.queue \in Seq(Items) /\ workqueue.queue # <<>>
      BY Zenon DEF Types, Holding, QueueOf, Get
  <2> QED
      BY <2>1
<1>2. event.key \in Keys
    BY <1>1 DEF Items
<1>3. wpa # Gone => wpa \in Object
    BY <1>2 DEF Types, WpaTypes, WpaVersion, Object
<1>4. UNCHANGED <<apiVars, cacheVars, envVars>>
    BY Zenon DEF Get
<1>5. \/ wpa = Gone /\ Hold(w, NewJob(event, wpa)) /\ UNCHANGED queueVars
      \/ wpa # Gone /\ Hold(w, HeldJob(event, wpa, "ignore")) /\ UNCHANGED queueVars
      \/ /\ wpa # Gone /\ deployment # NoDeployment
         /\ Hold(w, HeldJob(event, wpa, "requeue")) /\ UNCHANGED queueVars
      \/ /\ wpa # Gone /\ deployment # NoDeployment /\ deploymentCache[deployment] # Gone
         /\ \/ Hold(w, [job EXCEPT !.at = "registry"]) /\ UNCHANGED queueVars
            \/ /\ Hold(w, [job EXCEPT !.at = "registry"])
               /\ AddList(w, event.key, wpa.spec.uri, job.current, wpa.spec.seconds)
            \/ Hold(w, [job EXCEPT !.at = "decide"]) /\ UNCHANGED queueVars
    BY Zenon DEF Get, HeldJob
<1>6. /\ job.current = deploymentCache[deployment]
      /\ \A place : [job EXCEPT !.at = place] = ReadJob(event, wpa, place)
    BY DEF NewJob, ReadJob
<1> HIDE DEF event, wpa, job
<1>7. CASE wpa = Gone /\ Hold(w, NewJob(event, wpa)) /\ UNCHANGED queueVars
    BY <1>1, <1>4, <1>7 DEF queueVars, event, wpa
<1>8. CASE /\ wpa # Gone /\ UNCHANGED queueVars
           /\ \/ Hold(w, HeldJob(event, wpa, "ignore"))
              \/ deployment # NoDeployment /\ Hold(w, HeldJob(event, wpa, "requeue"))
  <2>1. wpa \in Object /\ (deployment # NoDeployment => deployment \in Deployments)
      BY <1>3, <1>8, SpecFields
  <2> QED
      BY <1>1, <1>4, <1>8, <2>1, Zenon DEF queueVars, event, wpa
<1>9. CASE /\ wpa # Gone /\ deployment # NoDeployment /\ deploymentCache[deployment] # Gone
           /\ \/ Hold(w, [job EXCEPT !.at = "registry"]) /\ UNCHANGED queueVars
              \/ /\ Hold(w, [job EXCEPT !.at = "registry"])
                 /\ AddList(w, event.key, wpa.spec.uri, job.current, wpa.spec.seconds)
              \/ Hold(w, [job EXCEPT !.at = "decide"]) /\ UNCHANGED queueVars
  <2>1. wpa \in Object /\ deployment \in Deployments
      BY <1>3, <1>9, SpecFields
  <2>2. deploymentCache[deployment] \in Nat32
      BY <1>9, <2>1 DEF Types, DeploymentTypes, DeploymentVersion
  <2>3. /\ \E place \in {"registry", "decide"} : Hold(w, ReadJob(event, wpa, place))
        /\ \/ UNCHANGED <<item, call>>
           \/ AddList(w, event.key, wpa.spec.uri, deploymentCache[deployment], wpa.spec.seconds)
      BY <1>6, <1>9 DEF queueVars
  <2> QED
      BY <1>1, <1>4, <2>1, <2>2, <2>3 DEF event, wpa
<1> QED
    BY Zenon, <1>5, <1>7, <1>8, <1>9

LEMMA WorkerItem ==
    ASSUME Types, NEW w \in Workers, worker[w] # Free
    PROVE  /\ worker[w].event \in Items /\ worker[w].event.key \in Keys
           /\ Sound(worker[w], wpas[worker[w].event.key])
<1>1. worker[w].event \in Items
    BY DEF Types, Holding, QueueOf
<1> QED
    BY <1>1 DEF Types, WorkerTypes, Items

LEMMA RegistryNext ==
    ASSUME Types, [Next]_vars
    PROVE  RegistryTypes'
<1>1. RegistryTypes /\ (UNCHANGED <<item, call>> => RegistryTypes')
    BY DEF Types, RegistryTypes, QueuesTypeOK, Registered, Known
<1>2. ASSUME NEW w \in Workers, Get(w) PROVE RegistryTypes'
  <2> DEFINE event == Head(workqueue.queue)
             wpa == wpaCache[event.key]
             current == deploymentCache[wpa.spec.deployment]
  <2>1. \/ UNCHANGED <<item, call>>
        \/ /\ event \in Items /\ wpa \in Object /\ current \in Nat32
           /\ AddList(w, event.key, wpa.spec.uri, current, wpa.spec.seconds)
      BY <1>2, GetReads
  <2> HIDE DEF event, wpa, current
  <2>2. ASSUME event \in Items, wpa \in Object, current \in Nat32,
               AddList(w, event.key, wpa.spec.uri, current, wpa.spec.seconds)
        PROVE  RegistryTypes'
    <3>1. event.key \in Keys /\ current \in Int /\ w \in Callers
        BY <2>2, Nat32IsNat DEF Items, Workers
    <3> QED
        BY <1>1, <2>2, <3>1, SpecFields, RegistryAddList
  <2> QED
      BY <1>1, <2>1, <2>2
<1>3. ASSUME NEW w \in Workers, syncHandler(w) PROVE RegistryTypes'
  <2>1. worker[w] # Free
      BY Zenon, <1>3 DEF syncHandler, Forget, Ignore, Requeue, Registry, Decide, Update, UpdateStatus, At
  <2>2. \/ UNCHANGED <<item, call>>
        \/ Delete(w, worker[w].event.key)
        \/ AddSend(w)
      BY Zenon, <1>3 DEF syncHandler, Forget, Ignore, Requeue, Registry, Decide, Update, UpdateStatus
  <2>3. worker[w].event.key \in Keys /\ w \in Callers
      BY <2>1, WorkerItem DEF Workers
  <2> QED
      BY <1>1, <2>2, <2>3, RegistryDelete, RegistryAddSend
<1>4. ASSUME NEW k \in Keys, Poll(k) PROVE RegistryTypes'
  <2>1. item[k] \in QueueSpec
      BY <1>4 DEF Types, RegistryTypes, QueuesTypeOK, Poll, Registered
  <2>2. backlog[item[k].uri] \in Backlogs
      BY <2>1 DEF Types, OtherTypes, QueueSpec
  <2> QED
      BY <1>1, <1>4, <2>2, RegistryReport DEF Poll
<1>4a. ASSUME NEW k \in Keys, StartPoll(k) \/ EndPoll(k) PROVE RegistryTypes'
  <2>1. polling[k] # Unsynced => polling[k] \in Backlogs
      BY DEF Types, OtherTypes
  <2> QED
      BY <1>1, <1>4a, <2>1, RegistryReport DEF StartPoll, EndPoll
<1>5. ASSUME NEW k \in Keys, ReportWorkers(k) PROVE RegistryTypes'
    BY <1>1, <1>5, RegistryReport DEF ReportWorkers
<1>6. CASE Boot
  <2>1. item' = [k \in Keys |-> NoSpec] /\ call' = [c \in Callers |-> Idle]
      BY <1>6 DEF Boot, Workers
  <2> QED
      BY <2>1 DEF RegistryTypes, QueuesTypeOK, Registered
<1>7. ASSUME NEW k \in Keys, DeliverWpa(k) \/ Relist(k) \/ Resync(k) \/ UserWritesWpa(k)
      PROVE  UNCHANGED <<item, call>>
    BY <1>7 DEF DeliverWpa, Relist, Resync, UserWritesWpa
<1>8. ASSUME NEW d \in Deployments, DeliverDeployment(d) \/ UserWritesDeployment(d)
      PROVE  UNCHANGED <<item, call>>
    BY <1>8 DEF DeliverDeployment, UserWritesDeployment
<1>9. CASE RedeliverDelayed \/ Cool \/ SetBacklog \/ End
    BY Zenon, <1>1, <1>9 DEF RedeliverDelayed, Cool, SetBacklog, End
<1>10. CASE UNCHANGED vars
    BY <1>1, <1>10 DEF vars
<1> QED
    BY <1>1, <1>2, <1>3, <1>4, <1>4a, <1>5, <1>6, <1>7, <1>8, <1>9, <1>10 DEF Next

-----------------------------------------------------------------------------
(* The objects                                                             *)

\* What Cool makes of a time and of a version.
Older(time) == IF time = "recent" THEN "past" ELSE time

OlderWpa(v) == IF v = Gone THEN v ELSE [v EXCEPT !.status.last = Older(@)]

LEMMA OlderType ==
    /\ \A time \in Times : Older(time) \in Times
    /\ \A v \in Object : [v EXCEPT !.status.last = Older(@)] \in Object
    /\ \A v \in WpaVersion : OlderWpa(v) \in WpaVersion
<1>1. \A time \in Times : Older(time) \in Times
    BY DEF Older, Times
<1>2. ASSUME NEW v \in Object PROVE [v EXCEPT !.status.last = Older(@)] \in Object
  <2>1. Older(v.status.last) \in Times
      BY <1>1 DEF Object, Status
  <2> QED
      BY <2>1 DEF Object, Status
<1>3. ASSUME NEW v \in WpaVersion PROVE OlderWpa(v) \in WpaVersion
    BY <1>2 DEF OlderWpa, WpaVersion, Object
<1> QED
    BY <1>1, <1>2, <1>3

LEMMA CoolEffect ==
    ASSUME Cool
    PROVE  /\ wpas' = [k \in Keys |-> OlderWpa(wpas[k])]
           /\ wpaCache' = [k \in Keys |-> OlderWpa(wpaCache[k])]
           /\ wpaWatch' = [k \in Keys |-> [i \in DOMAIN wpaWatch[k] |-> OlderWpa(wpaWatch[k][i])]]
           /\ worker' = [w \in Workers |->
                            IF worker[w] = Free THEN Free
                            ELSE [worker[w] EXCEPT !.last = Older(@), !.wpa = OlderWpa(@)]]
           /\ scaledAt' = [d \in Deployments |-> Older(scaledAt[d])]
           /\ UNCHANGED <<item, call, deployments, deploymentWatch, deploymentCache,
                          workqueue, envVars>>
BY DEF Cool, Older, OlderWpa

\* Writes to the API server's object, in all the places they come from.
LEMMA WpaWrite ==
    ASSUME WpaTypes, NEW k \in Keys, NEW version \in WpaVersion, WriteWpa(k, version),
           UNCHANGED wpaCache
    PROVE  WpaTypes' /\ wpas' = [wpas EXCEPT ![k] = version]
<1>1. /\ wpas' = [wpas EXCEPT ![k] = version]
      /\ wpaWatch' = [wpaWatch EXCEPT ![k] = Append(@, version)]
    BY DEF WriteWpa
<1>2. /\ Append(wpaWatch[k], version) \in Seq(WpaVersion)
      /\ Newest(wpaCache[k], Append(wpaWatch[k], version)) = version
    BY NewestAppend DEF WpaTypes
<1>3. \A i \in Keys : Newest(wpaCache[i], wpaWatch'[i]) = wpas'[i]
    BY <1>1, <1>2 DEF WpaTypes
<1>4. \A i \in Keys : Newest(wpaCache[i], wpaWatch[i])' = wpas'[i]
    BY <1>3 DEF Newest
<1> QED
    BY <1>1, <1>2, <1>4 DEF WpaTypes

\* Writes of the status, and of the users.
LEMMA StatusVersion ==
    ASSUME Types, NEW w \in Workers, At(w, "status"), worker[w].fresh
    PROVE  [wpas[worker[w].event.key] EXCEPT
               !.status = [current |-> worker[w].current, desired |-> worker[w].desired,
                           messages |-> worker[w].messages, last |-> worker[w].last]] \in WpaVersion
<1> DEFINE job == worker[w]
           k == job.event.key
           status == [current |-> job.current, desired |-> job.desired,
                      messages |-> job.messages, last |-> job.last]
<1>1. Sound(job, wpas[k]) /\ job.at = "status" /\ job.fresh
    BY WorkerItem DEF At
<1> HIDE DEF k, job
<1>2. wpas[k] \in Object
    BY <1>1 DEF Sound
<1>3. job.current \in Nat32 /\ job.desired \in Nat32 /\ job.messages \in Messages /\ job.last \in Times
    BY <1>1 DEF Sound, Job
<1>4. status \in Status
    BY <1>3 DEF Status
<1> HIDE DEF status
<1>5. [wpas[k] EXCEPT !.status = status] \in Object
    BY <1>2, <1>4 DEF Object
<1> QED
    BY <1>5 DEF Object, WpaVersion, status, k, job

LEMMA UserVersion ==
    ASSUME Types, NEW k \in Keys, UserWritesWpa(k)
    PROVE  \E version \in WpaVersion : WriteWpa(k, version)
<1>1. NewStatus \in Status
    BY ScalingAssumption DEF NewStatus, Status, Times, Messages, Nat32
<1>2. wpas[k] \in WpaVersion
    BY DEF Types, WpaTypes
<1>3. PICK spec \in WpaSpecs :
         \/ WriteWpa(k, [spec |-> spec, status |-> NewStatus])
         \/ wpas[k] # Gone /\ WriteWpa(k, [wpas[k] EXCEPT !.spec = spec])
         \/ WriteWpa(k, Gone)
    BY DEF UserWritesWpa
<1>4. /\ [spec |-> spec, status |-> NewStatus] \in WpaVersion
      /\ wpas[k] # Gone => [wpas[k] EXCEPT !.spec = spec] \in WpaVersion
      /\ Gone \in WpaVersion
    BY <1>1, <1>2 DEF WpaVersion
<1> QED
    BY <1>3, <1>4

\* Time goes by for all that a watch has left.
LEMMA OlderWatch ==
    ASSUME NEW watch \in Seq(WpaVersion), NEW cached \in WpaVersion
    PROVE  LET older == [i \in DOMAIN watch |-> OlderWpa(watch[i])]
           IN  /\ older \in Seq(WpaVersion)
               /\ Newest(OlderWpa(cached), older) = OlderWpa(Newest(cached, watch))
<1> DEFINE older == [i \in DOMAIN watch |-> OlderWpa(watch[i])]
<1>1. /\ Len(watch) \in Nat /\ DOMAIN watch = 1 .. Len(watch)
      /\ \A i \in 1 .. Len(watch) : watch[i] \in WpaVersion
    OBVIOUS
<1>2. \A i \in 1 .. Len(watch) : OlderWpa(watch[i]) \in WpaVersion
    BY <1>1, OlderType
<1>3. older \in Seq(WpaVersion) /\ Len(older) = Len(watch)
    BY <1>1, <1>2
<1>4. watch = <<>> <=> older = <<>>
    BY <1>1, <1>3, EmptySeq
<1>5. watch # <<>> => Len(watch) \in 1 .. Len(watch)
    BY <1>1, EmptySeq
<1>6. watch # <<>> => older[Len(watch)] = OlderWpa(watch[Len(watch)])
    BY <1>1, <1>5
<1> HIDE DEF older
<1> QED
    BY <1>3, <1>4, <1>6 DEF Newest, older

LEMMA WpaNext ==
    ASSUME Types, [Next]_vars
    PROVE  WpaTypes'
<1>1. WpaTypes
    BY DEF Types
<1>2. UNCHANGED <<wpas, wpaCache, wpaWatch>> => WpaTypes'
    BY <1>1 DEF WpaTypes, Newest
<1>3. ASSUME NEW k \in Keys, NEW left \in Seq(WpaVersion), NEW new \in WpaVersion,
             wpaCache' = [wpaCache EXCEPT ![k] = new],
             wpaWatch' = [wpaWatch EXCEPT ![k] = left],
             wpas' = wpas, Newest(new, left) = wpas[k]
      PROVE  WpaTypes'
  <2>1. \A i \in Keys : Newest(wpaCache'[i], wpaWatch'[i]) = wpas[i]
      BY <1>1, <1>3 DEF WpaTypes
  <2>2. \A i \in Keys : Newest(wpaCache[i], wpaWatch[i])' = wpas'[i]
      BY <1>3, <2>1 DEF Newest
  <2> QED
      BY <1>1, <1>3, <2>2 DEF WpaTypes
<1>4. ASSUME NEW k \in Keys, DeliverWpa(k) PROVE WpaTypes'
  <2>1. wpaWatch[k] \in Seq(WpaVersion) /\ wpaWatch[k] # <<>>
      BY <1>1, <1>4 DEF WpaTypes, DeliverWpa
  <2>2. /\ Head(wpaWatch[k]) \in WpaVersion /\ Tail(wpaWatch[k]) \in Seq(WpaVersion)
        /\ Newest(Head(wpaWatch[k]), Tail(wpaWatch[k])) = wpas[k]
      BY <1>1, <2>1, NewestTail DEF WpaTypes
  <2>3. /\ wpaCache' = [wpaCache EXCEPT ![k] = Head(wpaWatch[k])]
        /\ wpaWatch' = [wpaWatch EXCEPT ![k] = Tail(wpaWatch[k])] /\ wpas' = wpas
      BY <1>4 DEF DeliverWpa
  <2> QED
      BY <1>3, <2>2, <2>3
<1>5. ASSUME NEW k \in Keys, Relist(k) PROVE WpaTypes'
  <2>1. /\ wpaCache' = [wpaCache EXCEPT ![k] = wpas[k]]
        /\ wpaWatch' = [wpaWatch EXCEPT ![k] = <<>>] /\ wpas' = wpas
      BY <1>5 DEF Relist
  <2>2. <<>> \in Seq(WpaVersion) /\ wpas[k] \in WpaVersion /\ Newest(wpas[k], <<>>) = wpas[k]
      BY <1>1 DEF WpaTypes, Newest
  <2> QED
      BY <1>3, <2>1, <2>2
<1>6. ASSUME NEW w \in Workers, Get(w) PROVE WpaTypes'
    BY Zenon, <1>2, <1>6 DEF Get, apiVars, cacheVars
<1>7. ASSUME NEW w \in Workers, syncHandler(w) PROVE WpaTypes'
  <2>1. CASE UpdateStatus(w)
    <3> DEFINE job == worker[w]
               k == job.event.key
               status == [current |-> job.current, desired |-> job.desired,
                          messages |-> job.messages, last |-> job.last]
    <3>1. \/ UNCHANGED <<apiVars, cacheVars>>
          \/ /\ job.fresh /\ UNCHANGED cacheVars
             /\ WriteWpa(k, [wpas[k] EXCEPT !.status = status])
        BY <2>1 DEF UpdateStatus
    <3>2. CASE UNCHANGED <<apiVars, cacheVars>>
        BY <1>2, <3>2 DEF apiVars, cacheVars
    <3>3. CASE /\ job.fresh /\ UNCHANGED cacheVars
               /\ WriteWpa(k, [wpas[k] EXCEPT !.status = status])
      <4>1. At(w, "status") /\ job # Free
          BY <2>1 DEF UpdateStatus, At
      <4>2. k \in Keys /\ [wpas[k] EXCEPT !.status = status] \in WpaVersion
          BY <3>3, <4>1, WorkerItem, StatusVersion
      <4> HIDE DEF k, status
      <4> QED
          BY <1>1, <3>3, <4>2, WpaWrite DEF cacheVars
    <3> QED
        BY <3>1, <3>2, <3>3
  <2>2. CASE Forget(w) \/ Ignore(w) \/ Requeue(w) \/ Registry(w) \/ Decide(w) \/ Update(w)
      BY Zenon, <1>2, <2>2 DEF Forget, Ignore, Requeue, Registry, Decide, Update, apiVars, cacheVars
  <2> QED
      BY <1>7, <2>1, <2>2 DEF syncHandler
<1>8. ASSUME NEW k \in Keys, UserWritesWpa(k) PROVE WpaTypes'
  <2>1. PICK version \in WpaVersion : WriteWpa(k, version)
      BY <1>8, UserVersion
  <2>2. UNCHANGED wpaCache
      BY <1>8 DEF UserWritesWpa, cacheVars
  <2> QED
      BY <1>1, <2>1, <2>2, WpaWrite
<1>9. CASE Cool
  <2>1. /\ wpas' = [k \in Keys |-> OlderWpa(wpas[k])]
        /\ wpaCache' = [k \in Keys |-> OlderWpa(wpaCache[k])]
        /\ wpaWatch' = [k \in Keys |-> [i \in DOMAIN wpaWatch[k] |-> OlderWpa(wpaWatch[k][i])]]
      BY <1>9, CoolEffect
  <2>2. \A k \in Keys :
           /\ OlderWpa(wpas[k]) \in WpaVersion /\ OlderWpa(wpaCache[k]) \in WpaVersion
           /\ wpaWatch'[k] \in Seq(WpaVersion)
           /\ Newest(wpaCache'[k], wpaWatch'[k]) = OlderWpa(wpas[k])
      BY <1>1, <2>1, OlderType, OlderWatch DEF WpaTypes
  <2>3. \A k \in Keys : Newest(wpaCache[k], wpaWatch[k])' = wpas'[k]
      BY <2>1, <2>2 DEF Newest
  <2> QED
      BY <2>1, <2>2, <2>3 DEF WpaTypes
<1>10. CASE Boot
  <2>1. wpaCache' = wpas /\ wpas' = wpas /\ wpaWatch' = [k \in Keys |-> <<>>]
      BY <1>10 DEF Boot
  <2> QED
      BY <1>1, <2>1 DEF WpaTypes, Newest
<1>11. ASSUME NEW k \in Keys, Resync(k) \/ Poll(k) \/ StartPoll(k) \/ EndPoll(k) \/ ReportWorkers(k) PROVE WpaTypes'
    BY <1>2, <1>11 DEF Resync, Poll, StartPoll, EndPoll, ReportWorkers, apiVars, cacheVars
<1>12. ASSUME NEW d \in Deployments, DeliverDeployment(d) \/ UserWritesDeployment(d)
       PROVE  WpaTypes'
    BY <1>2, <1>12 DEF DeliverDeployment, UserWritesDeployment, cacheVars
<1>13. CASE RedeliverDelayed \/ SetBacklog \/ End \/ UNCHANGED vars
    BY <1>2, <1>13 DEF RedeliverDelayed, SetBacklog, End, vars, apiVars, cacheVars
<1> QED
    BY <1>4, <1>5, <1>6, <1>7, <1>8, <1>9, <1>10, <1>11, <1>12, <1>13 DEF Next

LEMMA DeploymentNext ==
    ASSUME Types, [Next]_vars
    PROVE  DeploymentTypes'
<1>1. DeploymentTypes
    BY DEF Types
<1>2. UNCHANGED <<deployments, deploymentCache, deploymentWatch>> => DeploymentTypes'
    BY <1>1 DEF DeploymentTypes
<1>3. ASSUME NEW d \in Deployments, NEW version \in DeploymentVersion, WriteDeployment(d, version)
      PROVE  /\ deployments' \in [Deployments -> DeploymentVersion]
             /\ deploymentWatch' \in [Deployments -> Seq(DeploymentVersion)]
    BY <1>1, <1>3, NewestAppend DEF DeploymentTypes, WriteDeployment
<1>4. ASSUME NEW d \in Deployments, DeliverDeployment(d) PROVE DeploymentTypes'
  <2>1. deploymentWatch[d] \in Seq(DeploymentVersion) /\ deploymentWatch[d] # <<>>
      BY <1>1, <1>4 DEF DeploymentTypes, DeliverDeployment
  <2>2. Head(deploymentWatch[d]) \in DeploymentVersion /\ Tail(deploymentWatch[d]) \in Seq(DeploymentVersion)
      BY <2>1, NewestTail
  <2> QED
      BY <1>1, <1>4, <2>2 DEF DeploymentTypes, DeliverDeployment
<1>5. ASSUME NEW w \in Workers, Update(w) PROVE DeploymentTypes'
  <2> DEFINE d == worker[w].wpa.spec.deployment
             n == worker[w].desired
  <2>1. worker[w] # Free /\ worker[w].at = "update"
      BY <1>5 DEF Update, At
  <2>2. d \in Deployments /\ n \in DeploymentVersion
      BY <2>1, WorkerItem DEF Sound, DeploymentVersion
  <2>3. /\ deploymentCache' = ChangeInPlace(d, n)
        /\ \/ UNCHANGED <<deployments, deploymentWatch>>
           \/ WriteDeployment(d, n)
      BY <1>5 DEF Update
  <2> HIDE DEF d, n
  <2>4. deploymentCache' \in [Deployments -> DeploymentVersion]
      BY <1>1, <2>2, <2>3 DEF DeploymentTypes, ChangeInPlace
  <2> QED
      BY <1>1, <1>3, <2>2, <2>3, <2>4 DEF DeploymentTypes
<1>6. ASSUME NEW d \in Deployments, UserWritesDeployment(d) PROVE DeploymentTypes'
  <2>1. PICK version \in DeploymentVersion : WriteDeployment(d, version)
    <3>1. deployments[d] \in DeploymentVersion /\ HandScaled \subseteq DeploymentVersion
        BY <1>1, ControllerAssumption DEF DeploymentTypes, DeploymentVersion
    <3>2. Gone \in DeploymentVersion
        BY DEF DeploymentVersion
    <3> QED
        BY <1>6, <3>1, <3>2 DEF UserWritesDeployment
  <2> QED
      BY <1>1, <1>3, <1>6, <2>1 DEF DeploymentTypes, UserWritesDeployment, cacheVars
<1>7. ASSUME NEW w \in Workers, Get(w) PROVE DeploymentTypes'
    BY Zenon, <1>2, <1>7 DEF Get, apiVars, cacheVars
<1>8. ASSUME NEW w \in Workers, Forget(w) \/ Ignore(w) \/ Requeue(w) \/ Registry(w) \/ Decide(w) \/ UpdateStatus(w)
      PROVE  DeploymentTypes'
    BY <1>2, <1>8 DEF Forget, Ignore, Requeue, Registry, Decide, UpdateStatus, apiVars, cacheVars
<1>9. ASSUME NEW k \in Keys, \/ DeliverWpa(k) \/ Relist(k) \/ Resync(k) \/ Poll(k) \/ StartPoll(k)
                             \/ EndPoll(k) \/ ReportWorkers(k) \/ UserWritesWpa(k)
      PROVE  DeploymentTypes'
    BY <1>2, <1>9 DEF DeliverWpa, Relist, Resync, Poll, StartPoll, EndPoll, ReportWorkers, UserWritesWpa, apiVars, cacheVars
<1>10. CASE Boot
  <2>1. /\ deploymentCache' = deployments /\ deployments' = deployments
        /\ deploymentWatch' = [d \in Deployments |-> <<>>]
      BY <1>10 DEF Boot
  <2> QED
      BY <1>1, <2>1 DEF DeploymentTypes
<1>11. CASE Cool
    BY <1>1, <1>11, CoolEffect DEF DeploymentTypes
<1>12. CASE RedeliverDelayed \/ SetBacklog \/ End \/ UNCHANGED vars
    BY <1>2, <1>12 DEF RedeliverDelayed, SetBacklog, End, vars, apiVars, cacheVars
<1> QED
    BY <1>4, <1>5, <1>6, <1>7, <1>8, <1>9, <1>10, <1>11, <1>12 DEF Next, syncHandler

LEMMA OtherNext ==
    ASSUME Types, [Next]_vars
    PROVE  OtherTypes'
<1>1. OtherTypes
    BY DEF Types
<1>2. UNCHANGED <<scaledAt, envVars>> => OtherTypes'
    BY <1>1 DEF OtherTypes, envVars
<1>3. \A what : Disturb(what) => edits' \in 0 .. MaxEdits
    BY <1>1, ControllerAssumption DEF OtherTypes, Disturb
<1>4. ASSUME NEW k \in Keys, Relist(k) PROVE OtherTypes'
  <2>1. edits' \in 0 .. MaxEdits
      BY <1>1, <1>4, ControllerAssumption DEF OtherTypes, Relist
  <2> QED
      BY <1>1, <1>4, <2>1 DEF OtherTypes, Relist
<1>5. ASSUME NEW w \in Workers, Update(w) PROVE OtherTypes'
  <2>1. \/ UNCHANGED scaledAt
        \/ \E d : scaledAt' = [scaledAt EXCEPT ![d] = "recent"]
      BY <1>5, Zenon DEF Update
  <2>2. scaledAt' \in [Deployments -> Times]
      BY <1>1, <2>1 DEF OtherTypes, Times
  <2>3. down' \in {down, "fatal"} /\ UNCHANGED <<backlog, polling, edits>>
      BY <1>5 DEF Update
  <2> QED
      BY <1>1, <2>2, <2>3 DEF OtherTypes
<1>6. CASE Cool
  <2>1. scaledAt' = [d \in Deployments |-> Older(scaledAt[d])] /\ UNCHANGED envVars
      BY <1>6, CoolEffect
  <2> QED
      BY <1>1, <2>1, OlderType DEF OtherTypes, envVars
<1>7. ASSUME NEW k \in Keys, UserWritesWpa(k) \/ ReportWorkers(k) PROVE OtherTypes'
    BY <1>1, <1>3, <1>7 DEF OtherTypes, UserWritesWpa, ReportWorkers, apiVars
<1>7a. ASSUME NEW k \in Keys, StartPoll(k) \/ EndPoll(k) PROVE OtherTypes'
  <2>1. polling' \in [Keys -> Backlogs \cup {Unsynced}]
    <3>1. StartPoll(k) => backlog[item[k].uri] \in Backlogs
      <4>1. StartPoll(k) => item[k] \in QueueSpec
          BY DEF Types, RegistryTypes, QueuesTypeOK, StartPoll, Registered
      <4> QED
          BY <1>1, <4>1 DEF OtherTypes, QueueSpec
    <3> QED
        BY <1>1, <1>7a, <3>1 DEF OtherTypes, StartPoll, EndPoll
  <2>2. edits' \in 0 .. MaxEdits /\ UNCHANGED <<backlog, down, scaledAt>>
      BY <1>1, <1>3, <1>7a DEF OtherTypes, StartPoll, EndPoll, apiVars
  <2> QED
      BY <1>1, <2>1, <2>2 DEF OtherTypes
<1>8. ASSUME NEW d \in Deployments, UserWritesDeployment(d) PROVE OtherTypes'
    BY <1>1, <1>3, <1>8 DEF OtherTypes, UserWritesDeployment
<1>9. CASE SetBacklog
  <2>1. backlog' \in [Uris -> Backlogs]
      BY <1>1, <1>9 DEF OtherTypes, SetBacklog
  <2> QED
      BY <1>1, <1>3, <1>9, <2>1 DEF OtherTypes, SetBacklog, apiVars
<1>10. CASE End
    BY <1>1, <1>3, <1>10 DEF OtherTypes, End, apiVars
<1>11. CASE Boot
    BY <1>1, <1>11 DEF OtherTypes, Boot
<1>12. ASSUME NEW w \in Workers, Get(w) PROVE OtherTypes'
    BY Zenon, <1>2, <1>12 DEF Get, apiVars
<1>13. ASSUME NEW w \in Workers, Forget(w) \/ Ignore(w) \/ Requeue(w) \/ Registry(w) \/ Decide(w) \/ UpdateStatus(w)
       PROVE  OtherTypes'
    BY <1>2, <1>13 DEF Forget, Ignore, Requeue, Registry, Decide, UpdateStatus, apiVars
<1>14. ASSUME NEW k \in Keys, DeliverWpa(k) \/ Resync(k) \/ Poll(k) PROVE OtherTypes'
    BY <1>2, <1>14 DEF DeliverWpa, Resync, Poll, apiVars
<1>15. ASSUME NEW d \in Deployments, DeliverDeployment(d) PROVE OtherTypes'
    BY <1>2, <1>15 DEF DeliverDeployment
<1>16. CASE RedeliverDelayed \/ UNCHANGED vars
    BY <1>2, <1>16 DEF RedeliverDelayed, vars, apiVars
<1> QED
    BY <1>4, <1>5, <1>6, <1>7, <1>7a, <1>8, <1>9, <1>10, <1>11, <1>12, <1>13, <1>14, <1>15, <1>16
    DEF Next, syncHandler

-----------------------------------------------------------------------------
(* The workers                                                             *)

\* One worker goes on, is done or starts, and no object is written.
LEMMA OneMoves ==
    ASSUME WorkerTypes, NEW w \in Workers, NEW job, UNCHANGED wpas,
           worker' = [worker EXCEPT ![w] = job],
           job # Free => Sound(job, wpas[job.event.key])
    PROVE  WorkerTypes'
<1>1. \A v \in Workers : worker'[v] # Free => Sound(worker'[v], wpas[worker'[v].event.key])
    BY DEF WorkerTypes
<1>2. \A v \in Workers : (worker[v] # Free)' => Sound(worker[v], wpas[worker[v].event.key])'
    BY <1>1 DEF Sound
<1> QED
    BY <1>2 DEF WorkerTypes

\* The copies of the object that is written are no longer fresh.
LEMMA OutdateSound ==
    ASSUME Types, NEW k \in Keys, NEW version, wpas' = [wpas EXCEPT ![k] = version]
    PROVE  /\ DOMAIN Outdate(k) = Workers
           /\ \A w \in Workers : Outdate(k)[w] # Free =>
                 Sound(Outdate(k)[w], wpas'[Outdate(k)[w].event.key])
<1>1. DOMAIN Outdate(k) = Workers
    BY DEF Outdate
<1>2. ASSUME NEW w \in Workers, Outdate(k)[w] # Free
      PROVE  Sound(Outdate(k)[w], wpas'[Outdate(k)[w].event.key])
  <2> DEFINE job == worker[w]
             new == Outdate(k)[w]
  <2>1. job # Free
      BY <1>2 DEF Outdate
  <2>2. Sound(job, wpas[job.event.key]) /\ job.event.key \in Keys
      BY <2>1, WorkerItem
  <2>3. new = IF job.event.key = k THEN [job EXCEPT !.fresh = FALSE] ELSE job
      BY <2>1 DEF Outdate
  <2> HIDE DEF job, new
  <2>4. job.event.key # k => wpas'[job.event.key] = wpas[job.event.key]
      BY <2>2 DEF Types, WpaTypes
  <2>5. CASE job.event.key = k
    <3>1. new = [job EXCEPT !.fresh = FALSE]
        BY <2>3, <2>5
    <3>2. job \in Job
        BY <2>2 DEF Sound
    <3>3. new \in Job
        BY <3>1, <3>2 DEF Job
    <3>4. /\ new.wpa = job.wpa /\ new.desired = job.desired /\ new.at = job.at
          /\ new.tries = job.tries /\ new.fresh = FALSE
        BY <3>1, <3>2 DEF Job
    <3>5. Sound(new, wpas'[new.event.key])
        BY <2>2, <3>3, <3>4 DEF Sound
    <3> QED
        BY <3>5 DEF new
  <2>6. CASE job.event.key # k
    <3>1. new = job /\ Sound(new, wpas'[new.event.key])
        BY <2>2, <2>3, <2>4, <2>6
    <3> QED
        BY <3>1 DEF new
  <2> QED
      BY <2>5, <2>6
<1> QED
    BY <1>1, <1>2

LEMMA WorkerGet ==
    ASSUME Types, NEW w \in Workers, Get(w)
    PROVE  WorkerTypes'
<1> DEFINE event == Head(workqueue.queue)
           wpa == wpaCache[event.key]
           current == deploymentCache[wpa.spec.deployment]
<1>1. /\ event \in Items
      /\ UNCHANGED <<apiVars, cacheVars, envVars>>
      /\ \/ wpa = Gone /\ Hold(w, NewJob(event, wpa))
         \/ /\ wpa \in Object
            /\ \/ Hold(w, HeldJob(event, wpa, "ignore"))
               \/ /\ wpa.spec.deployment \in Deployments
                  /\ Hold(w, HeldJob(event, wpa, "requeue"))
         \/ /\ wpa \in Object /\ wpa.spec.deployment \in Deployments /\ current \in Nat32
            /\ \E place \in {"registry", "decide"} : Hold(w, ReadJob(event, wpa, place))
    BY GetReads
<1>2. WorkerTypes /\ UNCHANGED wpas
    BY <1>1 DEF Types, apiVars
<1>3. event.key \in Keys
    BY <1>1 DEF Items
<1>4. /\ wpaWatch[event.key] = <<>> => wpa = wpas[event.key]
      /\ wpa \in WpaVersion
    BY <1>3 DEF Types, WpaTypes, Newest
<1>5. 0 \in Nat32 /\ 0 \in Int32 /\ 0 \in 0 .. RetrySteps /\ 0 \in Messages
    BY ScalingAssumption, ControllerAssumption DEF Nat32, Int32, Messages
<1>6. /\ NewJob(event, wpa).event = event /\ NewJob(event, wpa).at = "forget"
      /\ NewJob(event, wpa).desired = 0 /\ NewJob(event, wpa).wpa = wpa
      /\ NewJob(event, wpa).fresh = (wpaWatch[event.key] = <<>>)
    BY DEF NewJob
<1>7. NewJob(event, wpa) \in Job
    BY <1>1, <1>4, <1>5 DEF NewJob, Job, Times
<1>8. ASSUME wpa \in Object, NEW place \in {"ignore", "requeue"},
             place = "requeue" => wpa.spec.deployment \in Deployments,
             Hold(w, HeldJob(event, wpa, place))
      PROVE  WorkerTypes'
  <2> DEFINE job == HeldJob(event, wpa, place)
  <2>1. /\ job.event = event /\ job.wpa = wpa /\ job.desired = 0 /\ job.at = place
        /\ job.fresh = (wpaWatch[event.key] = <<>>)
      BY DEF HeldJob, NewJob
  <2>2. job = [NewJob(event, wpa) EXCEPT !.at = place]
      BY DEF HeldJob
  <2>3. job \in Job
      BY <1>7, <2>2 DEF Job
  <2>4. worker' = [worker EXCEPT ![w] = job]
      BY <1>8 DEF Hold
  <2> HIDE DEF job, event, wpa
  <2>5. Sound(job, wpas[job.event.key])
      BY <1>4, <1>5, <1>8, <2>1, <2>3 DEF Sound
  <2> QED
      BY <1>2, <2>4, <2>5, OneMoves
<1>9. CASE wpa = Gone /\ Hold(w, NewJob(event, wpa))
  <2>1. Sound(NewJob(event, wpa), wpas[NewJob(event, wpa).event.key])
      BY <1>4, <1>5, <1>6, <1>7 DEF Sound
  <2>2. worker' = [worker EXCEPT ![w] = NewJob(event, wpa)]
      BY <1>9 DEF Hold
  <2> QED
      BY <1>2, <2>1, <2>2, OneMoves
<1>10. ASSUME wpa \in Object, wpa.spec.deployment \in Deployments, current \in Nat32,
              NEW place \in {"registry", "decide"}, Hold(w, ReadJob(event, wpa, place))
       PROVE  WorkerTypes'
  <2> DEFINE job == ReadJob(event, wpa, place)
  <2>1. wpa.status.last \in Times
      BY <1>10, SpecFields
  <2>2. /\ job.event = event /\ job.wpa = wpa /\ job.desired = 0 /\ job.tries = 0
        /\ job.at = place /\ job.fresh = (wpaWatch[event.key] = <<>>)
      BY DEF ReadJob, NewJob
  <2>3. job = [NewJob(event, wpa) EXCEPT !.current = current, !.last = wpa.status.last,
                                         !.at = place]
      BY DEF ReadJob
  <2>4. job \in Job
      BY <1>7, <1>10, <2>1, <2>3 DEF Job
  <2>5. job.fresh => job.wpa = wpas[event.key]
      BY <1>4, <2>2
  <2>6. worker' = [worker EXCEPT ![w] = job]
      BY <1>10 DEF Hold
  <2> HIDE DEF job, event, wpa, current
  <2>7. Sound(job, wpas[job.event.key])
      BY <1>5, <1>10, <2>2, <2>4, <2>5 DEF Sound
  <2> QED
      BY <1>2, <2>6, <2>7, OneMoves
<1> HIDE DEF event, wpa, current
<1> QED
    BY <1>1, <1>8, <1>9, <1>10

\* What Decide finds, and what it makes of it.
LEMMA DecisionRange ==
    ASSUME Types, NEW w \in Workers, At(w, "decide"),
           item[worker[w].event.key] # NoSpec,
           item[worker[w].event.key].messages # Unsynced
    PROVE  LET entry == item[worker[w].event.key]
           IN  /\ entry.messages \in Backlogs /\ entry.messages \in Messages
               /\ entry.sent \in SentRates \cup {Unsynced}
               /\ entry.idle \in IdleCounts \cup {Unsynced}
               /\ GetDesiredWorkers(worker[w].wpa.spec, entry, worker[w].current) \in Nat32
<1> DEFINE entry == item[worker[w].event.key]
           spec == worker[w].wpa.spec
<1>1. /\ worker[w].event.key \in Keys /\ worker[w].at = "decide"
      /\ Sound(worker[w], wpas[worker[w].event.key])
    BY WorkerItem DEF At
<1>2. SpecOK(spec) /\ worker[w].current \in Nat32
    BY <1>1, SpecFields DEF Sound, Job
<1>3. Known(entry)
    BY <1>1 DEF Types, RegistryTypes, Registered
<1> HIDE DEF entry, spec
<1>4. Backlogs \subseteq Int /\ SentRates \subseteq Int /\ IdleCounts \subseteq Int
      /\ Unsynced \in Int /\ Backlogs \subseteq Messages
    BY ControllerAssumption, Nat32IsNat DEF Unsynced, Messages
<1>5. ReportOK(entry)
    BY <1>3, <1>4 DEF Known, ReportOK
<1>6. GetDesiredWorkers(spec, entry, worker[w].current) \in Nat32
    BY <1>2, <1>5, DesiredRange
<1>7. entry.messages \in Backlogs
    BY <1>3 DEF entry, Known
<1> QED
    BY <1>3, <1>4, <1>6, <1>7 DEF entry, spec, Known

LEMMA WorkerRegistry ==
    ASSUME Types, NEW w \in Workers, Registry(w)
    PROVE  WorkerTypes'
<1> DEFINE job == worker[w]
           new == [job EXCEPT !.at = "decide"]
<1>1. job # Free /\ job.at = "registry"
    BY DEF Registry, At
<1>2. Sound(job, wpas[job.event.key])
    BY <1>1, WorkerItem
<1>3. worker' = [worker EXCEPT ![w] = new] /\ UNCHANGED wpas
    BY DEF Registry, apiVars
<1> HIDE DEF job
<1>4. new \in Job
    BY <1>2 DEF Sound, Job
<1>5. /\ new.event = job.event /\ new.wpa = job.wpa /\ new.fresh = job.fresh
      /\ new.desired = job.desired /\ new.tries = job.tries /\ new.at = "decide"
    BY <1>2 DEF Sound, Job
<1> HIDE DEF new
<1>6. Sound(new, wpas[new.event.key])
    BY <1>1, <1>2, <1>4, <1>5 DEF Sound
<1> QED
    BY <1>3, <1>6, OneMoves DEF Types

LEMMA WorkerDecide ==
    ASSUME Types, NEW w \in Workers, Decide(w)
    PROVE  WorkerTypes'
<1> DEFINE job == worker[w]
           entry == item[job.event.key]
           desired == GetDesiredWorkers(job.wpa.spec, entry, job.current)
           Place(place) == [job EXCEPT !.desired = desired, !.messages = entry.messages, !.at = place]
<1>1. At(w, "decide") /\ job # Free /\ job.at = "decide"
    BY DEF Decide, At
<1>2. Sound(job, wpas[job.event.key])
    BY <1>1, WorkerItem
<1>3. UNCHANGED wpas
    BY DEF Decide, apiVars
<1>4. \/ Finish(w)
      \/ /\ entry # NoSpec /\ entry.messages # Unsynced
         /\ \E place \in {"status", "update"} : worker' = [worker EXCEPT ![w] = Place(place)]
    BY DEF Decide, ListQueue
<1>5. CASE Finish(w)
    BY <1>3, <1>5, OneMoves DEF Finish, Types
<1>6. ASSUME entry # NoSpec, entry.messages # Unsynced, NEW place \in {"status", "update"},
             worker' = [worker EXCEPT ![w] = Place(place)]
      PROVE  WorkerTypes'
  <2>1. desired \in Nat32 /\ entry.messages \in Messages
      BY <1>1, <1>6, DecisionRange
  <2> HIDE DEF desired, entry, job
  <2>2. job \in Job
      BY <1>2 DEF Sound
  <2>3. Nat32 \subseteq Int32
      BY ScalingAssumption DEF Nat32, Int32
  <2>4. Place(place) \in Job
      BY <2>1, <2>2, <2>3 DEF Job
  <2>5. /\ Place(place).event = job.event /\ Place(place).wpa = job.wpa
        /\ Place(place).fresh = job.fresh /\ Place(place).desired = desired
        /\ Place(place).tries = job.tries /\ Place(place).at = place
      BY <2>2 DEF Job
  <2>6. job.tries = 0 /\ 0 < RetrySteps
      BY <1>1, <1>2, ControllerAssumption DEF Sound, job
  <2> HIDE DEF Place
  <2>7. Sound(Place(place), wpas[Place(place).event.key])
      BY <1>1, <1>2, <2>1, <2>4, <2>5, <2>6 DEF Sound
  <2> QED
      BY <1>3, <1>6, <2>7, OneMoves DEF Types
<1> HIDE DEF job, entry, desired, Place
<1> QED
    BY <1>4, <1>5, <1>6

LEMMA WorkerUpdate ==
    ASSUME Types, NEW w \in Workers, Update(w)
    PROVE  WorkerTypes'
<1> DEFINE job == worker[w]
           d == job.wpa.spec.deployment
           absent == Gone \in {deployments[d], deploymentCache[d]}
           conflict == ~absent /\ deploymentWatch[d] # <<>>
           new == [job EXCEPT !.tries = job.tries + 1,
                              !.at = IF conflict THEN "update" ELSE "status",
                              !.last = IF conflict THEN @ ELSE "recent"]
<1>1. job # Free /\ job.at = "update"
    BY DEF Update, At
<1>2. Sound(job, wpas[job.event.key])
    BY <1>1, WorkerItem
<1>3. UNCHANGED wpas
    BY DEF Update
<1>4. \/ UNCHANGED worker
      \/ /\ ~(conflict /\ GiveUp(job.tries + 1))
         /\ worker' = [worker EXCEPT ![w] = new]
    BY DEF Update
<1>5. CASE UNCHANGED worker
    BY <1>3, <1>5 DEF Types, WorkerTypes, Sound
<1>6. CASE /\ ~(conflict /\ GiveUp(job.tries + 1))
           /\ worker' = [worker EXCEPT ![w] = new]
  <2> HIDE DEF job, conflict
  <2>1. job \in Job /\ job.tries < RetrySteps
      BY <1>1, <1>2 DEF Sound
  <2>2. job.tries \in Nat /\ job.tries + 1 \in 0 .. RetrySteps
      BY <2>1, ControllerAssumption DEF Job
  <2>3. new \in Job
      BY <2>1, <2>2 DEF Job, Times
  <2>4. /\ new.event = job.event /\ new.wpa = job.wpa /\ new.fresh = job.fresh
        /\ new.desired = job.desired /\ new.tries = job.tries + 1
        /\ new.at = IF conflict THEN "update" ELSE "status"
      BY <2>1 DEF Job
  <2>5. conflict => new.tries < RetrySteps
      BY <1>6, <2>2, <2>4, ControllerAssumption DEF GiveUp
  <2> HIDE DEF new
  <2>6. Sound(new, wpas[new.event.key])
      BY <1>1, <1>2, <2>3, <2>4, <2>5 DEF Sound
  <2> QED
      BY <1>3, <1>6, <2>6, OneMoves DEF Types
<1> HIDE DEF job, conflict, new
<1> QED
    BY <1>4, <1>5, <1>6

LEMMA WorkerStatus ==
    ASSUME Types, NEW w \in Workers, UpdateStatus(w)
    PROVE  WorkerTypes'
<1> DEFINE k == worker[w].event.key
<1>1. worker[w] # Free
    BY DEF UpdateStatus, At
<1>2. k \in Keys
    BY <1>1, WorkerItem
<1> HIDE DEF k
<1>3. \/ Finish(w) /\ UNCHANGED apiVars
      \/ /\ \E version : WriteWpa(k, version)
         /\ worker' = [Outdate(k) EXCEPT ![w] = Free]
    BY DEF UpdateStatus, k
<1>4. CASE Finish(w) /\ UNCHANGED apiVars
    BY <1>4, OneMoves DEF Finish, Types, apiVars
<1>5. ASSUME NEW version, WriteWpa(k, version), worker' = [Outdate(k) EXCEPT ![w] = Free]
      PROVE  WorkerTypes'
  <2>1. wpas' = [wpas EXCEPT ![k] = version]
      BY <1>5 DEF WriteWpa
  <2>2. /\ DOMAIN Outdate(k) = Workers
        /\ \A v \in Workers : Outdate(k)[v] # Free =>
              Sound(Outdate(k)[v], wpas'[Outdate(k)[v].event.key])
      BY <1>2, <2>1, OutdateSound
  <2>3. DOMAIN worker' = Workers
        /\ \A v \in Workers : worker'[v] # Free => Sound(worker'[v], wpas'[worker'[v].event.key])
      BY <1>5, <2>2
  <2>4. \A v \in Workers : (worker[v] # Free)' => Sound(worker[v], wpas[worker[v].event.key])'
      BY <2>3 DEF Sound
  <2> QED
      BY <2>3, <2>4 DEF WorkerTypes
<1> QED
    BY <1>3, <1>4, <1>5

\* Time goes by for the copies as for the objects.
LEMMA WorkerCool ==
    ASSUME Types, Cool
    PROVE  WorkerTypes'
<1>1. /\ wpas' = [k \in Keys |-> OlderWpa(wpas[k])]
      /\ worker' = [w \in Workers |->
                       IF worker[w] = Free THEN Free
                       ELSE [worker[w] EXCEPT !.last = Older(@), !.wpa = OlderWpa(@)]]
    BY CoolEffect
<1>2. ASSUME NEW w \in Workers, worker'[w] # Free
      PROVE  Sound(worker'[w], wpas'[worker'[w].event.key])
  <2> DEFINE job == worker[w]
             new == [job EXCEPT !.last = Older(@), !.wpa = OlderWpa(@)]
  <2>1. job # Free /\ worker'[w] = new
      BY <1>1, <1>2
  <2>2. Sound(job, wpas[job.event.key]) /\ job.event.key \in Keys
      BY <2>1, WorkerItem
  <2>3. wpas'[job.event.key] = OlderWpa(wpas[job.event.key])
      BY <1>1, <2>2
  <2> HIDE DEF job
  <2>4. job \in Job
      BY <2>2 DEF Sound
  <2>5. Older(job.last) \in Times /\ OlderWpa(job.wpa) \in WpaVersion
      BY <2>4, OlderType DEF Job
  <2>6. new \in Job
      BY <2>4, <2>5 DEF Job
  <2>7. /\ new.event = job.event /\ new.wpa = OlderWpa(job.wpa) /\ new.fresh = job.fresh
        /\ new.desired = job.desired /\ new.tries = job.tries /\ new.at = job.at
      BY <2>4 DEF Job
  <2>8. job.wpa \in Object => OlderWpa(job.wpa) \in Object \/ OlderWpa(job.wpa) = job.wpa
      BY OlderType DEF OlderWpa
  <2>9. job.wpa \in Object =>
           OlderWpa(job.wpa) \in Object /\ OlderWpa(job.wpa).spec = job.wpa.spec
    <3>1. job.wpa \in Object => [job.wpa EXCEPT !.status.last = Older(@)].spec = job.wpa.spec
        BY DEF Object
    <3> QED
        BY <2>8, <3>1 DEF OlderWpa
  <2> HIDE DEF new
  <2>10. Sound(new, wpas'[new.event.key])
      BY <2>2, <2>3, <2>6, <2>7, <2>9 DEF Sound
  <2> QED
      BY <2>1, <2>10
<1>3. \A w \in Workers : (worker[w] # Free)' => Sound(worker[w], wpas[worker[w].event.key])'
    BY <1>2 DEF Sound
<1> QED
    BY Zenon, <1>1, <1>3 DEF WorkerTypes

LEMMA WorkerUser ==
    ASSUME Types, NEW k \in Keys, UserWritesWpa(k)
    PROVE  WorkerTypes'
<1>1. PICK version \in WpaVersion : WriteWpa(k, version)
    BY UserVersion
<1>2. wpas' = [wpas EXCEPT ![k] = version] /\ worker' = Outdate(k)
    BY <1>1 DEF WriteWpa, UserWritesWpa
<1>3. DOMAIN worker' = Workers
      /\ \A w \in Workers : worker'[w] # Free => Sound(worker'[w], wpas'[worker'[w].event.key])
    BY <1>2, OutdateSound
<1>4. \A w \in Workers : (worker[w] # Free)' => Sound(worker[w], wpas[worker[w].event.key])'
    BY <1>3 DEF Sound
<1> QED
    BY <1>3, <1>4 DEF WorkerTypes

LEMMA WorkerNext ==
    ASSUME Types, [Next]_vars
    PROVE  WorkerTypes'
<1>1. UNCHANGED <<worker, wpas>> => WorkerTypes'
    BY DEF Types, WorkerTypes, Sound
<1>2. ASSUME NEW k \in Keys, \/ DeliverWpa(k) \/ Relist(k) \/ Resync(k) \/ Poll(k) \/ StartPoll(k)
                             \/ EndPoll(k) \/ ReportWorkers(k)
      PROVE  WorkerTypes'
    BY <1>1, <1>2 DEF DeliverWpa, Relist, Resync, Poll, StartPoll, EndPoll, ReportWorkers, apiVars
<1>3. ASSUME NEW d \in Deployments, DeliverDeployment(d) \/ UserWritesDeployment(d)
      PROVE  WorkerTypes'
    BY <1>1, <1>3 DEF DeliverDeployment, UserWritesDeployment
<1>4. ASSUME NEW w \in Workers, Forget(w) \/ Ignore(w) \/ Requeue(w) PROVE WorkerTypes'
    BY <1>4, OneMoves DEF Forget, Ignore, Requeue, Finish, Types, apiVars
<1>5. CASE Boot
  <2>1. worker' = [w \in Workers |-> Free]
      BY <1>5 DEF Boot
  <2> QED
      BY <2>1 DEF WorkerTypes, Sound
<1>6. CASE RedeliverDelayed \/ SetBacklog \/ End \/ UNCHANGED vars
    BY <1>1, <1>6 DEF RedeliverDelayed, SetBacklog, End, vars, apiVars
<1> QED
    BY <1>2, <1>3, <1>4, <1>5, <1>6, WorkerGet, WorkerRegistry, WorkerDecide, WorkerUpdate,
       WorkerStatus, WorkerCool, WorkerUser
    DEF Next, syncHandler

-----------------------------------------------------------------------------

LEMMA TypesNext ==
    ASSUME IsFiniteSet(Keys), Types, [Next]_vars
    PROVE  Types'
BY HoldingNext, RegistryNext, WpaNext, DeploymentNext, WorkerNext, OtherNext DEF Types

\* Every variable of the controller keeps its type, for any number of workers,
\* resources and workloads: no decision leaves int32, and no retry counts past its
\* limit.
THEOREM TypeCorrect ==
    ASSUME IsFiniteSet(Keys)
    PROVE  Spec => []TypeOK
<1>1. Types /\ [Next]_vars => Types'
    BY TypesNext
<1> QED
    BY <1>1, TypesInit, TypesTypeOK, PTL DEF Spec

\* What stands for the version numbers that the model has not: a cached object is the
\* API server's once its watch has nothing left to deliver, and a worker's copy that
\* is still fresh is it, too, whoever has written, listed or restarted meanwhile.
CopiesKnown ==
    /\ \A k \in Keys : wpaWatch[k] = <<>> => wpaCache[k] = wpas[k]
    /\ \A w \in Workers :
          worker[w] # Free /\ worker[w].fresh => worker[w].wpa = wpas[worker[w].event.key]

\* A status update, which is refused unless the copy it was made from is fresh, is
\* never made from anything but the object it replaces (controller.go:822, and the
\* resource versions behind its error).
THEOREM Copies ==
    ASSUME IsFiniteSet(Keys)
    PROVE  Spec => []CopiesKnown
<1>1. Types /\ [Next]_vars => Types'
    BY TypesNext
<1>2. Types => CopiesKnown
    BY DEF Types, WpaTypes, Newest, WorkerTypes, Sound, CopiesKnown
<1> QED
    BY <1>1, <1>2, TypesInit, PTL DEF Spec

-----------------------------------------------------------------------------
(* What becomes of a worker that goes on                                   *)

\* It keeps its item and its copy, and has read the registry.
Onward(job, new) ==
    /\ new \in Job /\ new # Free
    /\ new.event = job.event /\ new.wpa = job.wpa /\ new.fresh = job.fresh
    /\ new.last \in {job.last, "recent"}
    /\ new.at \in {"decide", "update", "status"}

OnlyMoves(w) == \A v \in Workers : v # w => worker'[v] = worker[v]

LEMMA OnwardRegistry ==
    ASSUME Types, NEW w \in Workers, Registry(w)
    PROVE  Onward(worker[w], worker'[w]) /\ OnlyMoves(w)
<1> DEFINE job == worker[w]
           new == [job EXCEPT !.at = "decide"]
<1>1. job \in Job
    BY DEF Registry, At, Types, WorkerTypes, Sound
<1>2. worker'[w] = new /\ OnlyMoves(w)
    BY DEF Registry, Types, Holding, OnlyMoves
<1> HIDE DEF job
<1>3. new \in Job
    BY <1>1 DEF Job
<1>4. /\ new.event = job.event /\ new.wpa = job.wpa /\ new.fresh = job.fresh
      /\ new.last = job.last /\ new.at = "decide"
    BY <1>1 DEF Job
<1> HIDE DEF new
<1> QED
    BY <1>2, <1>3, <1>4, FreeAssumption DEF Onward, job

LEMMA OnwardDecide ==
    ASSUME Types, NEW w \in Workers, Decide(w)
    PROVE  Finish(w) \/ (Onward(worker[w], worker'[w]) /\ OnlyMoves(w) /\ UNCHANGED workqueue)
<1> DEFINE job == worker[w]
           entry == item[job.event.key]
           desired == GetDesiredWorkers(job.wpa.spec, entry, job.current)
           Place(place) == [job EXCEPT !.desired = desired, !.messages = entry.messages, !.at = place]
<1>1. At(w, "decide") /\ job \in Job /\ DOMAIN worker = Workers
    BY DEF Decide, At, Types, WorkerTypes, Sound
<1>2. \/ Finish(w)
      \/ /\ entry # NoSpec /\ entry.messages # Unsynced /\ UNCHANGED workqueue
         /\ \E place \in {"status", "update"} : worker' = [worker EXCEPT ![w] = Place(place)]
    BY DEF Decide, ListQueue
<1>3. ASSUME entry # NoSpec, entry.messages # Unsynced, UNCHANGED workqueue,
             NEW place \in {"status", "update"}, worker' = [worker EXCEPT ![w] = Place(place)]
      PROVE  Onward(worker[w], worker'[w]) /\ OnlyMoves(w)
  <2>1. desired \in Int32 /\ entry.messages \in Messages
    <3>1. Nat32 \subseteq Int32
        BY ScalingAssumption DEF Nat32, Int32
    <3> QED
        BY <1>1, <1>3, <3>1, DecisionRange
  <2>2. worker'[w] = Place(place) /\ OnlyMoves(w)
      BY <1>1, <1>3 DEF OnlyMoves
  <2> HIDE DEF desired, entry, job
  <2>3. Place(place) \in Job
      BY <1>1, <2>1 DEF Job
  <2>4. /\ Place(place).event = job.event /\ Place(place).wpa = job.wpa
        /\ Place(place).fresh = job.fresh /\ Place(place).last = job.last
        /\ Place(place).at = place
      BY <1>1 DEF Job
  <2> HIDE DEF Place
  <2> QED
      BY <2>2, <2>3, <2>4, FreeAssumption DEF Onward, job
<1> HIDE DEF entry, desired, Place
<1> QED
    BY <1>2, <1>3

LEMMA OnwardUpdate ==
    ASSUME Types, NEW w \in Workers, Update(w)
    PROVE  /\ UNCHANGED workqueue
           /\ \/ UNCHANGED worker /\ down' = "fatal"
              \/ Onward(worker[w], worker'[w]) /\ OnlyMoves(w) /\ UNCHANGED down
<1> DEFINE job == worker[w]
           d == job.wpa.spec.deployment
           absent == Gone \in {deployments[d], deploymentCache[d]}
           conflict == ~absent /\ deploymentWatch[d] # <<>>
           new == [job EXCEPT !.tries = job.tries + 1,
                              !.at = IF conflict THEN "update" ELSE "status",
                              !.last = IF conflict THEN @ ELSE "recent"]
<1>1. job \in Job /\ job.tries < RetrySteps
    BY DEF Update, At, Types, WorkerTypes, Sound
<1>2. /\ UNCHANGED workqueue
      /\ \/ UNCHANGED worker /\ down' = "fatal"
         \/ worker' = [worker EXCEPT ![w] = new] /\ UNCHANGED down
    BY DEF Update
<1>3. CASE worker' = [worker EXCEPT ![w] = new] /\ UNCHANGED down
  <2>1. worker'[w] = new /\ OnlyMoves(w)
      BY <1>3 DEF OnlyMoves, Types, Holding
  <2> HIDE DEF job, conflict
  <2>2. job.tries \in Nat /\ job.tries + 1 \in 0 .. RetrySteps
      BY <1>1, ControllerAssumption DEF Job
  <2>3. new \in Job
      BY <1>1, <2>2 DEF Job, Times
  <2>4. /\ new.event = job.event /\ new.wpa = job.wpa /\ new.fresh = job.fresh
        /\ new.last \in {job.last, "recent"} /\ new.at \in {"update", "status"}
      BY <1>1 DEF Job
  <2> HIDE DEF new
  <2> QED
      BY <1>2, <1>3, <2>1, <2>3, <2>4, FreeAssumption DEF Onward, job
<1> HIDE DEF new
<1> QED
    BY <1>2, <1>3

\* Elsewhere a worker's copy goes out of date, or time goes by.
LEMMA OnwardOutdate ==
    ASSUME Types, NEW k, NEW w \in Workers, worker[w] # Free
    PROVE  LET new == Outdate(k)[w]
           IN  /\ new \in Job /\ new # Free
               /\ new.event = worker[w].event /\ new.at = worker[w].at
               /\ new.wpa = worker[w].wpa /\ new.last = worker[w].last
               /\ new.fresh => worker[w].fresh /\ new.event.key # k
<1> DEFINE job == worker[w]
           new == [job EXCEPT !.fresh = FALSE]
<1>1. job \in Job
    BY DEF Types, WorkerTypes, Sound
<1>2. Outdate(k)[w] = IF job.event.key = k THEN new ELSE job
    BY DEF Outdate
<1> HIDE DEF job
<1>3. new \in Job
    BY <1>1 DEF Job
<1>4. /\ new.event = job.event /\ new.at = job.at /\ new.wpa = job.wpa /\ new.last = job.last
      /\ new.fresh = FALSE
    BY <1>1 DEF Job
<1> HIDE DEF new
<1> QED
    BY <1>1, <1>2, <1>3, <1>4, FreeAssumption DEF job

LEMMA OnwardCool ==
    ASSUME Types, Cool, NEW w \in Workers, worker[w] # Free
    PROVE  LET new == worker'[w]
           IN  /\ new \in Job /\ new # Free
               /\ new.event = worker[w].event /\ new.at = worker[w].at
               /\ new.wpa = OlderWpa(worker[w].wpa) /\ new.last = Older(worker[w].last)
               /\ new.fresh = worker[w].fresh
<1> DEFINE job == worker[w]
           new == [job EXCEPT !.last = Older(@), !.wpa = OlderWpa(@)]
<1>1. job \in Job
    BY DEF Types, WorkerTypes, Sound
<1>2. worker'[w] = new
    BY CoolEffect
<1> HIDE DEF job
<1>3. Older(job.last) \in Times /\ OlderWpa(job.wpa) \in WpaVersion
    BY <1>1, OlderType DEF Job
<1>4. new \in Job
    BY <1>1, <1>3 DEF Job
<1>5. /\ new.event = job.event /\ new.at = job.at /\ new.wpa = OlderWpa(job.wpa)
      /\ new.last = Older(job.last) /\ new.fresh = job.fresh
    BY <1>1 DEF Job
<1> HIDE DEF new
<1> QED
    BY <1>2, <1>4, <1>5, FreeAssumption DEF job

-----------------------------------------------------------------------------
(* What a step does to the items and to who has them                       *)

LEMMA DirtyItems ==
    ASSUME NEW S, NEW wq \in QueueOf(S), NEW todo \in S
    PROVE  /\ Enqueue(wq, todo).dirty = wq.dirty \cup {todo}
           /\ Redeliver(wq, todo).dirty = wq.dirty \cup {todo}
           /\ Dequeue(wq).dirty = wq.dirty \ {Head(wq.queue)}
           /\ ItemDone(wq, todo).dirty = wq.dirty
           /\ Delay(wq, todo).dirty = wq.dirty
BY DEF QueueOf, Enqueue, Redeliver, Dequeue, ItemDone, Delay

LEMMA DelayedItems ==
    ASSUME NEW S, NEW wq \in QueueOf(S), NEW todo \in S
    PROVE  /\ Enqueue(wq, todo).delayed = wq.delayed
           /\ Redeliver(wq, todo).delayed = wq.delayed \ {todo}
           /\ Dequeue(wq).delayed = wq.delayed
           /\ ItemDone(wq, todo).delayed = wq.delayed
           /\ Delay(wq, todo).delayed = wq.delayed \cup {todo}
BY DEF QueueOf, Enqueue, Redeliver, Dequeue, ItemDone, Delay

\* A worker keeps its item, or none, and whether its sync has failed.
Same(job, new) ==
    IF job = Free THEN new = Free
    ELSE new # Free /\ new.event = job.event /\ (new.at = "requeue" <=> job.at = "requeue")

\* No worker takes or ends an item.
Stays == \A w \in Workers : Same(worker[w], worker'[w])

SameQueue ==
    /\ workqueue'.dirty = workqueue.dirty /\ workqueue'.delayed = workqueue.delayed
    /\ workqueue'.processing = workqueue.processing

\* By an informer, or at the end of a back-off.
Added(i) ==
    /\ Stays
    /\ workqueue'.dirty = workqueue.dirty \cup {i}
    /\ workqueue'.processing = workqueue.processing
    /\ \/ workqueue'.delayed = workqueue.delayed
       \/ i \in workqueue.delayed /\ workqueue'.delayed = workqueue.delayed \ {i}

Taken(i) ==
    /\ i \in workqueue.dirty /\ i \notin workqueue.processing
    /\ workqueue'.dirty = workqueue.dirty \ {i}

Handed(w, i) ==
    /\ Taken(i)
    /\ workqueue'.processing = workqueue.processing \cup {i}
    /\ workqueue'.delayed = workqueue.delayed
    /\ worker[w] = Free /\ worker'[w] # Free /\ worker'[w].event = i
    /\ OnlyMoves(w)

Ended(w) ==
    /\ worker[w] # Free /\ worker'[w] = Free
    /\ \A v \in Workers \ {w} : Same(worker[v], worker'[v])
    /\ workqueue'.dirty = workqueue.dirty
    /\ workqueue'.processing = workqueue.processing \ {worker[w].event}
    /\ workqueue'.delayed = IF worker[w].at = "requeue" THEN workqueue.delayed \cup {worker[w].event}
                            ELSE workqueue.delayed

ItemStep ==
    \/ Stays /\ SameQueue
    \/ /\ UNCHANGED down
       /\ \/ \E i \in Items : Added(i)
          \/ \E w \in Workers : Ended(w) \/ \E i \in Items : Handed(w, i)
    \/ Boot

LEMMA ItemStepGet ==
    ASSUME Types, NEW w \in Workers, Get(w)
    PROVE  ItemStep
<1> DEFINE event == Head(workqueue.queue)
           wpa == wpaCache[event.key]
           deployment == wpa.spec.deployment
           new == NewJob(event, wpa)
           job == [new EXCEPT !.current = deploymentCache[deployment],
                              !.last = wpa.status.last]
           taken == Dequeue(workqueue)
<1>1. /\ workqueue \in QueueOf(Items) /\ Once(workqueue) /\ workqueue.queue # <<>>
      /\ workqueue.queue \in Seq(Items) /\ worker[w] = Free /\ DOMAIN worker = Workers
    BY Zenon DEF Types, Holding, QueueOf, Get
<1>2. /\ event \in Items /\ event \notin workqueue.processing
      /\ event \in ToSet(workqueue.queue)
      /\ taken \in QueueOf(Items) /\ taken.processing = workqueue.processing \cup {event}
      /\ taken.dirty = workqueue.dirty \ {event} /\ taken.delayed = workqueue.delayed
    BY <1>1, DequeueOnce, DirtyItems, DelayedItems, TailOnce DEF Once
<1>3. event \in workqueue.dirty
    BY <1>1, <1>2 DEF Once
<1>4. UNCHANGED down
    BY Zenon DEF Get, envVars
<1>5. \/ wpa = Gone /\ Hold(w, new)
      \/ \E place \in {"ignore", "requeue"} : Hold(w, [new EXCEPT !.at = place])
      \/ /\ wpa # Gone /\ deployment # NoDeployment /\ deploymentCache[deployment] # Gone
         /\ \E place \in {"registry", "decide"} : Hold(w, [job EXCEPT !.at = place])
    BY Zenon DEF Get
<1>6. event.key \in Keys /\ (wpa # Gone => wpa \in Object) /\ wpa \in WpaVersion
    BY <1>2 DEF Items, Types, WpaTypes, WpaVersion, Object
<1>7. 0 \in Nat32 /\ 0 \in Int32 /\ 0 \in 0 .. RetrySteps /\ 0 \in Messages
    BY ScalingAssumption, ControllerAssumption DEF Nat32, Int32, Messages
<1>8. new \in Job /\ new.event = event
    BY <1>2, <1>6, <1>7 DEF NewJob, Job, Times
<1>9. ASSUME NEW got \in Job, got.event = event, Hold(w, got) PROVE ItemStep
  <2>1. workqueue' = taken /\ worker' = [worker EXCEPT ![w] = got]
      BY <1>9 DEF Hold
  <2>2. Handed(w, event)
      BY <1>1, <1>2, <1>3, <1>9, <2>1, FreeAssumption DEF Handed, Taken, OnlyMoves
  <2> QED
      BY <1>2, <1>4, <2>2 DEF ItemStep
<1> HIDE DEF event, wpa, new, taken
<1>10. ASSUME wpa # Gone, deployment # NoDeployment, deploymentCache[deployment] # Gone,
              NEW place \in {"registry", "decide"}
       PROVE  [job EXCEPT !.at = place] \in Job /\ [job EXCEPT !.at = place].event = event
  <2>1. wpa \in Object /\ deployment \in Deployments /\ wpa.status.last \in Times
      BY <1>6, <1>10, SpecFields
  <2>2. deploymentCache[deployment] \in Nat32
      BY <1>10, <2>1 DEF Types, DeploymentTypes, DeploymentVersion
  <2>3. job \in Job /\ job.event = event
      BY <1>8, <2>1, <2>2 DEF Job
  <2> HIDE DEF job
  <2> QED
      BY <1>10, <2>3 DEF Job
<1>11. \A place \in {"ignore", "requeue"} :
          [new EXCEPT !.at = place] \in Job /\ [new EXCEPT !.at = place].event = event
    BY <1>8 DEF Job
<1> QED
    BY <1>5, <1>8, <1>9, <1>10, <1>11

LEMMA ItemStepHandler ==
    ASSUME Types, NEW w \in Workers, syncHandler(w)
    PROVE  ItemStep
<1>1. /\ worker[w] # Free /\ DOMAIN worker = Workers
      /\ workqueue \in QueueOf(Items) /\ worker[w].event \in Items
    BY Zenon, WorkerItem DEF syncHandler, Forget, Ignore, Requeue, Registry, Decide, Update, UpdateStatus, At, Types, Holding
<1>2. ASSUME worker'[w] = Free, UNCHANGED down, worker[w].at # "requeue",
             \A v \in Workers \ {w} : Same(worker[v], worker'[v]),
             workqueue' = ItemDone(workqueue, worker[w].event)
      PROVE  ItemStep
  <2>1. /\ workqueue'.processing = workqueue.processing \ {worker[w].event}
        /\ workqueue'.dirty = workqueue.dirty /\ workqueue'.delayed = workqueue.delayed
      BY <1>1, <1>2 DEF ItemDone, QueueOf
  <2>2. Ended(w)
      BY <1>1, <1>2, <2>1 DEF Ended
  <2> QED
      BY <1>2, <2>2 DEF ItemStep
<1>3. ASSUME Finish(w), UNCHANGED down, worker[w].at # "requeue" PROVE ItemStep
    BY <1>1, <1>2, <1>3 DEF Finish, Same
<1>4. ASSUME Onward(worker[w], worker'[w]), OnlyMoves(w), UNCHANGED workqueue,
             worker[w].at # "requeue"
      PROVE  ItemStep
  <2>1. Stays /\ SameQueue
      BY <1>1, <1>4 DEF Onward, OnlyMoves, Stays, SameQueue, Same
  <2> QED
      BY <2>1 DEF ItemStep
<1>5. CASE Forget(w) \/ Ignore(w)
    BY <1>3, <1>5 DEF Forget, Ignore, At, envVars
<1>5a. CASE Requeue(w)
  <2>1. /\ worker' = [worker EXCEPT ![w] = Free] /\ UNCHANGED down /\ worker[w].at = "requeue"
        /\ workqueue' = ItemDone(Delay(workqueue, worker[w].event), worker[w].event)
      BY <1>5a DEF Requeue, At, envVars
  <2>2. /\ workqueue'.processing = workqueue.processing \ {worker[w].event}
        /\ workqueue'.dirty = workqueue.dirty
      BY <1>1, <2>1 DEF ItemDone, Delay, QueueOf
  <2>3. workqueue'.delayed = workqueue.delayed \cup {worker[w].event}
    <3> DEFINE i == worker[w].event
               wq == Delay(workqueue, i)
    <3>1. wq \in QueueOf(Items) /\ wq.delayed = workqueue.delayed \cup {i}
        BY <1>1, DelayedItems DEF Delay, QueueOf
    <3> HIDE DEF wq
    <3>2. ItemDone(wq, i).delayed = wq.delayed
        BY <1>1, <3>1, DelayedItems
    <3> QED
        BY <2>1, <3>1, <3>2 DEF wq
  <2>4. Ended(w)
      BY <1>1, <2>1, <2>2, <2>3 DEF Ended, Same
  <2> QED
      BY <2>1, <2>4 DEF ItemStep
<1>6. CASE Registry(w)
    BY <1>4, <1>6, OnwardRegistry DEF Registry, At
<1>7. CASE Decide(w)
  <2>1. worker[w].at # "requeue" /\ UNCHANGED down
      BY <1>7 DEF Decide, At, envVars
  <2> QED
      BY Zenon, <1>3, <1>4, <1>7, <2>1, OnwardDecide
<1>8. CASE Update(w)
  <2>1. UNCHANGED <<worker, workqueue>> => Stays /\ SameQueue
      BY DEF Stays, SameQueue, Same
  <2>2. worker[w].at # "requeue"
      BY <1>8 DEF Update, At
  <2> QED
      BY <1>4, <1>8, <2>1, <2>2, OnwardUpdate DEF ItemStep
<1>9. CASE UpdateStatus(w)
  <2>1. UNCHANGED down /\ worker[w].at # "requeue"
      BY <1>9 DEF UpdateStatus, At, envVars
  <2>2. \/ Finish(w)
        \/ /\ worker' = [Outdate(worker[w].event.key) EXCEPT ![w] = Free]
           /\ workqueue' = ItemDone(workqueue, worker[w].event)
      BY <1>9 DEF UpdateStatus
  <2>3. ASSUME worker' = [Outdate(worker[w].event.key) EXCEPT ![w] = Free],
               workqueue' = ItemDone(workqueue, worker[w].event)
        PROVE  ItemStep
    <3>1. /\ DOMAIN Outdate(worker[w].event.key) = Workers
          /\ \A v \in Workers : worker[v] = Free => Outdate(worker[w].event.key)[v] = Free
        BY DEF Outdate
    <3>2. \A v \in Workers \ {w} : worker'[v] = Outdate(worker[w].event.key)[v]
        BY <2>3, <3>1
    <3>3. \A v \in Workers \ {w} : Same(worker[v], worker'[v])
        BY <3>1, <3>2, OnwardOutdate DEF Same
    <3> QED
        BY <1>2, <2>1, <2>3, <3>1, <3>3
  <2> QED
      BY <1>3, <2>1, <2>2, <2>3
<1> QED
    BY <1>5, <1>5a, <1>6, <1>7, <1>8, <1>9 DEF syncHandler

LEMMA ItemStepInformers ==
    ASSUME Types, NEW k \in Keys, DeliverWpa(k) \/ Relist(k) \/ Resync(k)
    PROVE  ItemStep
<1>1. UNCHANGED <<worker, down>> /\ workqueue \in QueueOf(Items)
    BY DEF DeliverWpa, Relist, Resync, envVars, Types, Holding
<1>2. \/ UNCHANGED workqueue
      \/ \E name \in {"add", "update", "delete"} : workqueue' = Enqueue(workqueue, Event(k, name))
    BY DEF DeliverWpa, Relist, Resync
<1>3. Stays
    BY <1>1 DEF Stays, Same
<1>4. CASE UNCHANGED workqueue
    BY <1>3, <1>4 DEF ItemStep, SameQueue
<1>5. ASSUME NEW name \in {"add", "update", "delete"},
             workqueue' = Enqueue(workqueue, Event(k, name))
      PROVE  ItemStep
  <2>1. Event(k, name) \in Items
      BY DEF Event, Items
  <2>2. Added(Event(k, name))
      BY <1>1, <1>3, <1>5, <2>1, EnqueueOnce, DirtyItems, DelayedItems DEF Added, Types, Holding
  <2> QED
      BY <1>1, <2>1, <2>2 DEF ItemStep
<1> QED
    BY <1>2, <1>4, <1>5

LEMMA ItemStepNext ==
    ASSUME Types, [Next]_vars
    PROVE  ItemStep
<1>1. UNCHANGED <<worker, workqueue>> => Stays /\ SameQueue
    BY DEF Stays, SameQueue, Same
<1>2. ASSUME NEW k \in Keys, Poll(k) \/ StartPoll(k) \/ EndPoll(k) \/ ReportWorkers(k)
      PROVE  UNCHANGED <<worker, workqueue>>
    BY <1>2 DEF Poll, StartPoll, EndPoll, ReportWorkers
<1>3. ASSUME NEW d \in Deployments, DeliverDeployment(d) \/ UserWritesDeployment(d)
      PROVE  UNCHANGED <<worker, workqueue>>
    BY <1>3 DEF DeliverDeployment, UserWritesDeployment
<1>4. CASE SetBacklog \/ End \/ UNCHANGED vars
    BY <1>1, <1>4 DEF SetBacklog, End, vars, ItemStep
<1>5. CASE RedeliverDelayed
  <2>1. PICK i \in workqueue.delayed : workqueue' = Redeliver(workqueue, i)
      BY <1>5 DEF RedeliverDelayed
  <2>2. i \in Items /\ UNCHANGED <<worker, down>> /\ workqueue \in QueueOf(Items) /\ Once(workqueue)
      BY <1>5, <2>1 DEF RedeliverDelayed, envVars, Types, Holding, QueueOf
  <2>3. Added(i)
      BY <2>1, <2>2, RedeliverOnce, DirtyItems, DelayedItems DEF Added, Stays, Same
  <2> QED
      BY <2>2, <2>3 DEF ItemStep
<1>6. CASE Cool
  <2>1. \A w \in Workers : worker[w] = Free => worker'[w] = Free
      BY <1>6, CoolEffect
  <2>2. Stays
      BY <1>6, <2>1, OnwardCool DEF Stays, Same
  <2> QED
      BY Zenon, <1>6, <2>2 DEF Cool, SameQueue, ItemStep
<1>7. ASSUME NEW k \in Keys, UserWritesWpa(k) PROVE ItemStep
  <2>1. worker' = Outdate(k) /\ UNCHANGED workqueue
      BY <1>7 DEF UserWritesWpa
  <2>2. \A w \in Workers : worker[w] = Free => worker'[w] = Free
      BY <2>1 DEF Outdate
  <2>3. Stays
      BY <2>1, <2>2, OnwardOutdate DEF Stays, Same
  <2> QED
      BY <2>1, <2>3 DEF SameQueue, ItemStep
<1>8. CASE Boot
    BY <1>8 DEF ItemStep
<1> QED
    BY <1>1, <1>2, <1>3, <1>4, <1>5, <1>6, <1>7, <1>8,
       ItemStepGet, ItemStepHandler, ItemStepInformers
    DEF Next, ItemStep

\* What is being processed is with a worker.
Held == \A i \in workqueue.processing : \E w \in Workers : Holds(w, i)

LEMMA HeldNext ==
    ASSUME IsFiniteSet(Keys), Types, Held, [Next]_vars
    PROVE  Held'
<1> SUFFICES ASSUME NEW i \in workqueue'.processing
             PROVE  \E w \in Workers : Holds(w, i)'
    BY DEF Held
<1>1. ItemStep
    BY ItemStepNext
<1>2. ASSUME Stays, i \in workqueue.processing PROVE \E w \in Workers : Holds(w, i)'
    BY <1>2 DEF Held, Holds, Stays, Same
<1>3. ASSUME NEW w \in Workers, Ended(w) PROVE \E v \in Workers : Holds(v, i)'
  <2>1. i \in workqueue.processing /\ i # worker[w].event
      BY <1>3 DEF Ended
  <2>2. PICK v \in Workers : Holds(v, i)
      BY <2>1 DEF Held
  <2>3. v # w
      BY <2>1, <2>2 DEF Holds
  <2> QED
      BY <1>3, <2>2, <2>3 DEF Ended, Holds, Same
<1>4. ASSUME NEW w \in Workers, NEW j \in Items, Handed(w, j)
      PROVE  \E v \in Workers : Holds(v, i)'
  <2>1. CASE i = j
      BY <1>4, <2>1 DEF Handed, Holds
  <2>2. CASE i # j
    <3>1. PICK v \in Workers : Holds(v, i)
        BY <1>4, <2>2 DEF Handed, Held
    <3>2. v # w
        BY <1>4, <3>1 DEF Handed, Holds
    <3> QED
        BY <1>4, <3>1, <3>2 DEF Handed, OnlyMoves, Holds
  <2> QED
      BY <2>1, <2>2
<1>5. ~Boot
    BY DEF Boot, EmptyQueue
<1> QED
    BY <1>1, <1>2, <1>3, <1>4, <1>5 DEF ItemStep, SameQueue, Added

LEMMA HeldInit == Init => Held
BY DEF Init, EmptyQueue, Held

\* The queue hands an item to one worker at a time and keeps each once, across
\* restarts, for any number of workers, resources and workloads; and an item marked
\* as being processed is with a worker, so that its Done will come.
\* controller.go:175 "never processing the same item simultaneously in two
\* different workers".
THEOREM OneHolder ==
    ASSUME IsFiniteSet(Keys)
    PROVE  Spec => []OneWorkerPerItem
<1>1. Types /\ Held => OneWorkerPerItem
    BY DEF Types, Holding, Once, Held, OneWorkerPerItem
<1>2. Types /\ Held /\ [Next]_vars => (Types /\ Held)'
    BY TypesNext, HeldNext
<1> QED
    BY <1>1, <1>2, TypesInit, HeldInit, PTL DEF Spec

-----------------------------------------------------------------------------
(* What a step is for one worker                                           *)

\* Get leaves w in syncHandler, with what the lister had.
Begins(w, i, place) ==
    /\ worker'[w] # Free /\ OnlyMoves(w)
    /\ worker'[w].event = i /\ worker'[w].at = place /\ worker'[w].wpa = wpaCache[i.key]
    /\ place \in {"registry", "decide"} => worker'[w].last = wpaCache[i.key].status.last

LEMMA GetOutcome ==
    ASSUME Types, NEW w \in Workers, Get(w)
    PROVE  LET i == Head(workqueue.queue)
               wpa == wpaCache[i.key]
               uri == wpa.spec.uri
           IN  /\ i \in Items /\ i \in workqueue.dirty /\ worker[w] = Free
               /\ UNCHANGED <<apiVars, cacheVars, envVars>>
               /\ \/ wpa = Gone /\ Begins(w, i, "forget") /\ UNCHANGED queueVars
                  \/ /\ wpa # Gone /\ UNCHANGED queueVars
                     /\ \/ wpa.spec.deployment = NoDeployment /\ Begins(w, i, "ignore")
                        \/ Begins(w, i, "requeue")
                  \/ /\ wpa # Gone /\ i.name = "delete"
                     /\ Begins(w, i, "registry") /\ UNCHANGED queueVars
                  \/ /\ wpa # Gone /\ i.name # "delete" /\ Begins(w, i, "registry")
                     /\ \E workers \in Int :
                           AddList(w, i.key, uri, workers, wpa.spec.seconds)
                  \/ /\ wpa # Gone /\ ServiceOf[uri] = "unsupported"
                     /\ Begins(w, i, "decide") /\ UNCHANGED queueVars
<1> DEFINE i == Head(workqueue.queue)
           wpa == wpaCache[i.key]
           uri == wpa.spec.uri
           deployment == wpa.spec.deployment
           new == NewJob(i, wpa)
           job == [new EXCEPT !.current = deploymentCache[deployment],
                              !.last = wpa.status.last]
<1>1. /\ workqueue \in QueueOf(Items) /\ Once(workqueue) /\ workqueue.queue # <<>>
      /\ workqueue.queue \in Seq(Items) /\ worker[w] = Free /\ DOMAIN worker = Workers
    BY DEF Types, Holding, QueueOf, Get
<1>2. i \in Items /\ i \in workqueue.dirty
    BY <1>1, TailOnce DEF Once
<1>3. UNCHANGED <<apiVars, cacheVars, envVars>>
    BY DEF Get
<1>4. i.key \in Keys /\ (wpa # Gone => wpa \in Object) /\ wpa \in WpaVersion
    BY <1>2 DEF Items, Types, WpaTypes, WpaVersion, Object
<1>5. 0 \in Nat32 /\ 0 \in Int32 /\ 0 \in 0 .. RetrySteps /\ 0 \in Messages
    BY ScalingAssumption, ControllerAssumption DEF Nat32, Int32, Messages
<1>6. new \in Job /\ new.event = i /\ new.at = "forget" /\ new.wpa = wpa
    BY <1>2, <1>4, <1>5 DEF NewJob, Job, Times
<1>7. \/ wpa = Gone /\ Hold(w, new) /\ UNCHANGED queueVars
      \/ /\ wpa # Gone /\ UNCHANGED queueVars
         /\ \/ deployment = NoDeployment /\ Hold(w, [new EXCEPT !.at = "ignore"])
            \/ Hold(w, [new EXCEPT !.at = "requeue"])
      \/ /\ wpa # Gone /\ deployment # NoDeployment /\ deploymentCache[deployment] # Gone
         /\ \/ i.name = "delete" /\ Hold(w, [job EXCEPT !.at = "registry"]) /\ UNCHANGED queueVars
            \/ /\ i.name # "delete" /\ Hold(w, [job EXCEPT !.at = "registry"])
               /\ AddList(w, i.key, uri, job.current, wpa.spec.seconds)
            \/ /\ ServiceOf[uri] = "unsupported" /\ Hold(w, [job EXCEPT !.at = "decide"])
               /\ UNCHANGED queueVars
    BY Zenon DEF Get
<1> HIDE DEF i, wpa, new
<1>8. ASSUME Hold(w, new) PROVE Begins(w, i, "forget")
  <2>1. worker'[w] = new /\ OnlyMoves(w)
      BY <1>1, <1>8 DEF Hold, OnlyMoves
  <2> QED
      BY <1>6, <2>1, FreeAssumption DEF Begins, wpa
<1>9. ASSUME NEW place \in {"ignore", "requeue"}, Hold(w, [new EXCEPT !.at = place])
      PROVE  Begins(w, i, place)
  <2> DEFINE got == [new EXCEPT !.at = place]
  <2>1. got \in Job /\ got.event = i /\ got.at = place /\ got.wpa = wpa
      BY <1>6 DEF Job
  <2>2. worker'[w] = got /\ OnlyMoves(w)
      BY <1>1, <1>9 DEF Hold, OnlyMoves
  <2> HIDE DEF got
  <2> QED
      BY <2>1, <2>2, FreeAssumption DEF Begins, wpa
<1>10. ASSUME wpa # Gone, deployment # NoDeployment, deploymentCache[deployment] # Gone
       PROVE  /\ job.current \in Int
              /\ \A place \in {"registry", "decide"} :
                    Hold(w, [job EXCEPT !.at = place]) => Begins(w, i, place)
  <2>1. wpa \in Object /\ deployment \in Deployments /\ wpa.status.last \in Times
      BY <1>4, <1>10, SpecFields
  <2>2. deploymentCache[deployment] \in Nat32
      BY <1>10, <2>1 DEF Types, DeploymentTypes, DeploymentVersion
  <2>3. job \in Job /\ job.event = i /\ job.last = wpa.status.last /\ job.wpa = wpa
      BY <1>6, <2>1, <2>2 DEF Job
  <2>4. job.current = deploymentCache[deployment] /\ job.current \in Int
      BY <1>6, <2>2, Nat32IsNat DEF Job
  <2> HIDE DEF job
  <2> SUFFICES ASSUME NEW place \in {"registry", "decide"}, Hold(w, [job EXCEPT !.at = place])
               PROVE  Begins(w, i, place)
      BY <2>4
  <2> DEFINE got == [job EXCEPT !.at = place]
  <2>5. /\ got \in Job /\ got.event = i /\ got.at = place /\ got.last = wpa.status.last
        /\ got.wpa = wpa
      BY <2>3 DEF Job
  <2>6. worker'[w] = got /\ OnlyMoves(w)
      BY <1>1 DEF Hold, OnlyMoves
  <2> HIDE DEF got
  <2> QED
      BY <2>5, <2>6, FreeAssumption DEF Begins, wpa
<1>11. CASE wpa = Gone /\ Hold(w, new) /\ UNCHANGED queueVars
    BY <1>1, <1>2, <1>3, <1>8, <1>11 DEF i, wpa
<1>12. CASE /\ wpa # Gone /\ UNCHANGED queueVars
            /\ \/ deployment = NoDeployment /\ Hold(w, [new EXCEPT !.at = "ignore"])
               \/ Hold(w, [new EXCEPT !.at = "requeue"])
  <2>1. \/ deployment = NoDeployment /\ Begins(w, i, "ignore")
        \/ Begins(w, i, "requeue")
      BY <1>9, <1>12
  <2> QED
      BY <1>1, <1>2, <1>3, <1>12, <2>1 DEF i, wpa
<1>14. CASE /\ wpa # Gone /\ deployment # NoDeployment /\ deploymentCache[deployment] # Gone
            /\ \/ i.name = "delete" /\ Hold(w, [job EXCEPT !.at = "registry"]) /\ UNCHANGED queueVars
               \/ /\ i.name # "delete" /\ Hold(w, [job EXCEPT !.at = "registry"])
                  /\ AddList(w, i.key, uri, job.current, wpa.spec.seconds)
               \/ /\ ServiceOf[uri] = "unsupported" /\ Hold(w, [job EXCEPT !.at = "decide"])
                  /\ UNCHANGED queueVars
  <2> HIDE DEF job
  <2>1. \/ i.name = "delete" /\ Begins(w, i, "registry") /\ UNCHANGED queueVars
        \/ /\ i.name # "delete" /\ Begins(w, i, "registry")
           /\ \E workers \in Int : AddList(w, i.key, uri, workers, wpa.spec.seconds)
        \/ ServiceOf[uri] = "unsupported" /\ Begins(w, i, "decide") /\ UNCHANGED queueVars
      BY <1>10, <1>14
  <2> QED
      BY Zenon, <1>1, <1>2, <1>3, <1>14, <2>1 DEF i, wpa
<1> QED
    BY Zenon, <1>7, <1>11, <1>12, <1>14

\* Nobody moved the worker; its copy may have gone out of date.
Waits(job, new) ==
    /\ new # Free /\ new.event = job.event /\ new.at = job.at
    /\ new.wpa = job.wpa /\ new.last = job.last

LEMMA JobNext ==
    ASSUME Types, [Next]_vars, NEW w \in Workers, worker'[w] # Free
    PROVE  \/ worker[w] = Free /\ Get(w)
           \/ /\ worker[w] # Free /\ worker[w].at \in {"registry", "decide", "update"}
              /\ Onward(worker[w], worker'[w])
              /\ worker[w].at = "registry" => Registry(w)
           \/ worker[w] # Free /\ (Waits(worker[w], worker'[w]) \/ Cool)
<1>1. UNCHANGED worker => worker[w] # Free /\ Waits(worker[w], worker'[w])
    BY DEF Waits
<1>2. ASSUME NEW v \in Workers, OnlyMoves(v), v # w
      PROVE  worker[w] # Free /\ Waits(worker[w], worker'[w])
    BY <1>2 DEF OnlyMoves, Waits
<1>3. ASSUME NEW k, worker[w] # Free, worker'[w] = Outdate(k)[w]
      PROVE  Waits(worker[w], worker'[w])
    BY <1>3, OnwardOutdate DEF Waits
<1>4. ASSUME NEW v \in Workers, Get(v) PROVE (v = w /\ worker[w] = Free) \/ (worker[w] # Free /\ Waits(worker[w], worker'[w]))
  <2>1. worker[v] = Free /\ (UNCHANGED worker \/ OnlyMoves(v))
      BY <1>4, GetOutcome DEF Begins
  <2> QED
      BY <1>1, <1>2, <2>1
<1>5. ASSUME NEW v \in Workers, worker' = [worker EXCEPT ![v] = Free]
      PROVE  worker[w] # Free /\ Waits(worker[w], worker'[w])
  <2>1. OnlyMoves(v) /\ worker'[v] = Free
      BY <1>5 DEF OnlyMoves, Types, Holding
  <2> QED
      BY <1>2, <2>1
<1>6. ASSUME NEW v \in Workers, Registry(v) \/ Decide(v) \/ Update(v), ~Finish(v)
      PROVE  \/ /\ v = w /\ worker[w] # Free /\ worker[w].at \in {"registry", "decide", "update"}
                /\ Onward(worker[w], worker'[w])
                /\ worker[w].at = "registry" => Registry(w)
             \/ worker[w] # Free /\ Waits(worker[w], worker'[w])
  <2>1. /\ worker[v] # Free /\ worker[v].at \in {"registry", "decide", "update"}
        /\ worker[v].at = "registry" => Registry(v)
      BY Zenon, <1>6 DEF Registry, Decide, Update, At
  <2>2. UNCHANGED worker \/ (Onward(worker[v], worker'[v]) /\ OnlyMoves(v))
      BY <1>6, OnwardRegistry, OnwardDecide, OnwardUpdate
  <2> QED
      BY <1>1, <1>2, <2>1, <2>2
<1>7. ASSUME NEW v \in Workers, UpdateStatus(v) PROVE worker[w] # Free /\ Waits(worker[w], worker'[w])
  <2>1. Finish(v) \/ worker' = [Outdate(worker[v].event.key) EXCEPT ![v] = Free]
      BY <1>7 DEF UpdateStatus
  <2>2. CASE worker' = [Outdate(worker[v].event.key) EXCEPT ![v] = Free]
    <3>1. v # w /\ worker'[w] = Outdate(worker[v].event.key)[w] /\ worker[w] # Free
        BY <2>2 DEF Outdate
    <3> QED
        BY <1>3, <3>1
  <2> QED
      BY <1>5, <2>1, <2>2 DEF Finish
<1>8. ASSUME NEW k \in Keys, UserWritesWpa(k) PROVE worker[w] # Free /\ Waits(worker[w], worker'[w])
  <2>1. worker'[w] = Outdate(k)[w] /\ worker[w] # Free
      BY <1>8 DEF UserWritesWpa, Outdate
  <2> QED
      BY <1>3, <2>1
<1>9. Cool => worker[w] # Free
    BY CoolEffect
<1>10. ASSUME NEW k \in Keys, DeliverWpa(k) \/ Relist(k) \/ Resync(k) \/ Poll(k) \/ StartPoll(k) \/ EndPoll(k) \/ ReportWorkers(k)
       PROVE  UNCHANGED worker
    BY <1>10 DEF DeliverWpa, Relist, Resync, Poll, StartPoll, EndPoll, ReportWorkers
<1>11. ASSUME NEW d \in Deployments, DeliverDeployment(d) \/ UserWritesDeployment(d)
       PROVE  UNCHANGED worker
    BY <1>11 DEF DeliverDeployment, UserWritesDeployment
<1>12. RedeliverDelayed \/ SetBacklog \/ End \/ UNCHANGED vars => UNCHANGED worker
    BY DEF RedeliverDelayed, SetBacklog, End, vars
<1>13. ~Boot
    BY DEF Boot
<1>14. ASSUME NEW v \in Workers, Forget(v) \/ Ignore(v) \/ Requeue(v) \/ Finish(v)
       PROVE  worker' = [worker EXCEPT ![v] = Free]
    BY <1>14 DEF Forget, Ignore, Requeue, Finish
<1> QED
    BY <1>1, <1>4, <1>5, <1>6, <1>7, <1>8, <1>9, <1>10, <1>11, <1>12, <1>13, <1>14 DEF Next, syncHandler

-----------------------------------------------------------------------------
(* The time of the last scaling                                            *)

\* Where a worker is once it has read what it needs.
Places == {"registry", "decide", "update", "status"}

\* What it has for the time of the last scaling is not older than its copy's.
TimesKnown ==
    \A w \in Workers : worker[w] # Free /\ worker[w].at \in Places =>
        NotBefore(worker[w].last, worker[w].wpa.status.last)

LEMMA TimesKnownNext ==
    ASSUME Types, TimesKnown, [Next]_vars
    PROVE  TimesKnown'
<1> SUFFICES ASSUME NEW w \in Workers, worker'[w] # Free, worker'[w].at \in Places
             PROVE  NotBefore(worker'[w].last, worker'[w].wpa.status.last)
    BY DEF TimesKnown, NotBefore
<1>1. CASE worker[w] = Free /\ Get(w)
  <2>1. worker'[w].last = worker'[w].wpa.status.last
      BY <1>1, GetOutcome DEF Begins, Places
  <2> QED
      BY <2>1 DEF NotBefore
<1>2. CASE /\ worker[w] # Free /\ worker[w].at \in {"registry", "decide", "update"}
           /\ Onward(worker[w], worker'[w])
    BY <1>2 DEF TimesKnown, Onward, NotBefore, Places
<1>3. CASE worker[w] # Free /\ Waits(worker[w], worker'[w])
    BY <1>3 DEF TimesKnown, Waits
<1>4. CASE worker[w] # Free /\ Cool
  <2> DEFINE job == worker[w]
             new == worker'[w]
  <2>1. /\ new.at = job.at /\ new.wpa = OlderWpa(job.wpa) /\ new.last = Older(job.last)
      BY <1>4, OnwardCool
  <2>2. job.wpa \in Object /\ NotBefore(job.last, job.wpa.status.last)
      BY <1>4, <2>1 DEF Types, WorkerTypes, Sound, TimesKnown, Places
  <2> HIDE DEF job, new
  <2>3. CASE job.wpa = Gone
      BY <2>2, <2>3, GoneAssumption DEF Object
  <2>4. CASE job.wpa # Gone
    <3>1. OlderWpa(job.wpa).status.last = Older(job.wpa.status.last)
        BY <2>2, <2>4 DEF OlderWpa, Object, Status
    <3>2. NotBefore(Older(job.last), Older(job.wpa.status.last))
        BY <2>2, SpecFields DEF NotBefore, Older, Times
    <3> QED
        BY <2>1, <3>1, <3>2 DEF new
  <2> QED
      BY <2>3, <2>4 DEF new
<1> QED
    BY <1>1, <1>2, <1>3, <1>4, JobNext

\* Who writes the API server's objects.
LEMMA WritersOfWpas ==
    ASSUME [Next]_vars
    PROVE  \/ UNCHANGED wpas \/ Cool
           \/ \E w \in Workers : UpdateStatus(w)
           \/ \E k \in Keys : UserWritesWpa(k)
<1>1. ASSUME NEW k \in Keys, DeliverWpa(k) \/ Relist(k) \/ Resync(k) \/ Poll(k) \/ StartPoll(k) \/ EndPoll(k) \/ ReportWorkers(k)
      PROVE  UNCHANGED wpas
    BY <1>1 DEF DeliverWpa, Relist, Resync, Poll, StartPoll, EndPoll, ReportWorkers, apiVars
<1>2. ASSUME NEW d \in Deployments, DeliverDeployment(d) \/ UserWritesDeployment(d)
      PROVE  UNCHANGED wpas
    BY <1>2 DEF DeliverDeployment, UserWritesDeployment
<1>3. ASSUME NEW w \in Workers, Get(w) \/ Forget(w) \/ Ignore(w) \/ Requeue(w) \/ Registry(w) \/ Decide(w) \/ Update(w)
      PROVE  UNCHANGED wpas
    BY Zenon, <1>3 DEF Get, Forget, Ignore, Requeue, Registry, Decide, Update, apiVars
<1>4. RedeliverDelayed \/ SetBacklog \/ End \/ Boot \/ UNCHANGED vars => UNCHANGED wpas
    BY DEF RedeliverDelayed, SetBacklog, End, Boot, vars, apiVars
<1> QED
    BY <1>1, <1>2, <1>3, <1>4 DEF Next, syncHandler

\* A status update never puts an older time over a newer one, with any number of
\* workers: it is refused unless the copy it was made from is the current version,
\* and a worker's time is never older than its copy's.
THEOREM TimeKept ==
    ASSUME IsFiniteSet(Keys)
    PROVE  Spec => ScaleTimeKept
<1>1. Init => TimesKnown
    BY DEF Init, TimesKnown
<1>2. Types /\ TimesKnown /\ [Next]_vars => (Types /\ TimesKnown)'
    BY TypesNext, TimesKnownNext
<1>3. Types /\ TimesKnown /\ [Next]_vars =>
        [\A k \in Keys : wpas[k] # Gone /\ wpas'[k] # Gone /\ ~Cool =>
            NotBefore(wpas'[k].status.last, wpas[k].status.last)]_vars
  <2> SUFFICES ASSUME Types, TimesKnown, [Next]_vars, NEW k \in Keys,
                      wpas[k] # Gone, wpas'[k] # Gone, ~Cool
               PROVE  NotBefore(wpas'[k].status.last, wpas[k].status.last)
      OBVIOUS
  <2>1. wpas \in [Keys -> WpaVersion] /\ wpas[k] \in Object
      BY DEF Types, WpaTypes, WpaVersion, Object
  <2>2. CASE wpas'[k] = wpas[k]
      BY <2>2 DEF NotBefore
  <2>3. ASSUME NEW w \in Workers, UpdateStatus(w), wpas'[k] # wpas[k]
        PROVE  NotBefore(wpas'[k].status.last, wpas[k].status.last)
    <3> DEFINE job == worker[w]
               status == [current |-> job.current, desired |-> job.desired,
                          messages |-> job.messages, last |-> job.last]
    <3>1. /\ job # Free /\ job.at = "status" /\ job.fresh
          /\ wpas' = [wpas EXCEPT ![job.event.key] = [wpas[job.event.key] EXCEPT !.status = status]]
        BY <2>3 DEF UpdateStatus, At, WriteWpa, apiVars
    <3>2. k = job.event.key /\ wpas'[k] = [wpas[k] EXCEPT !.status = status]
        BY <2>1, <2>3, <3>1
    <3>3. job.wpa = wpas[k] /\ NotBefore(job.last, job.wpa.status.last)
        BY <3>1, <3>2 DEF Types, WorkerTypes, Sound, TimesKnown, Places
    <3>4. wpas'[k].status.last = job.last
        BY <2>1, <3>2 DEF Object
    <3> QED
        BY <3>3, <3>4
  <2>4. ASSUME NEW i \in Keys, UserWritesWpa(i), wpas'[k] # wpas[k]
        PROVE  NotBefore(wpas'[k].status.last, wpas[k].status.last)
    <3>1. \E spec \in WpaSpecs : wpas'[k] = [wpas[k] EXCEPT !.spec = spec]
        BY <2>1, <2>4 DEF UserWritesWpa, WriteWpa
    <3>2. wpas'[k].status = wpas[k].status
        BY <2>1, <3>1 DEF Object
    <3> QED
        BY <3>2 DEF NotBefore
  <2> QED
      BY <2>2, <2>3, <2>4, WritersOfWpas
<1> QED
    BY <1>1, <1>2, <1>3, TypesInit, PTL DEF Spec, ScaleTimeKept

-----------------------------------------------------------------------------
(* The registry and the resources                                          *)

\* The Add a worker has begun is for the resource of its item.
CallsMatch ==
    \A w \in Workers :
        worker[w] # Free /\ worker[w].at = "registry" /\ worker[w].event.name # "delete" =>
            call[w] # Idle /\ call[w].key = worker[w].event.key

LEMMA NewCall ==
    ASSUME RegistryTypes, NEW w \in Workers, NEW key \in Keys, NEW uri, NEW workers,
           NEW seconds, AddList(w, key, uri, workers, seconds), NEW v \in Workers
    PROVE  /\ UNCHANGED item
           /\ v # w => call'[v] = call[v]
           /\ call'[w].key = key /\ call'[w].spec.uri = uri
           /\ uri \in Uris /\ workers \in Int /\ seconds \in Nat => call'[w] # Idle
<1>1. call'[w] = [key |-> key, spec |-> BuildSpec(ListQueue(key), uri, workers, seconds)]
      /\ UNCHANGED item /\ (v # w => call'[v] = call[v])
    BY DEF AddList, RegistryTypes, QueuesTypeOK, Workers
<1>2. /\ BuildSpec(ListQueue(key), uri, workers, seconds).uri = uri
      /\ uri \in Uris /\ workers \in Int /\ seconds \in Nat =>
            BuildSpec(ListQueue(key), uri, workers, seconds) \in QueueSpec
  <2>1. ListQueue(key) \in QueueSpec \cup {NoSpec} /\ ServiceOf[uri] \in Services
      BY DEF AddList, ListQueue, RegistryTypes, QueuesTypeOK
  <2> QED
      BY <2>1, BuildSpecType DEF BuildSpec
<1> QED
    BY <1>1, <1>2, IdleAssumption

\* A call is made by Get, ends in Registry, or with the process.
LEMMA CallNext ==
    ASSUME Types, [Next]_vars, ~Boot, NEW w \in Workers, ~Get(w), ~Registry(w)
    PROVE  call'[w] = call[w]
<1>1. call \in [Workers -> [key : Keys, spec : QueueSpec] \cup {Idle}]
    BY DEF Types, RegistryTypes, QueuesTypeOK, Workers
<1>2. ASSUME NEW v \in Workers, Get(v) PROVE call'[w] = call[w]
  <2> DEFINE i == Head(workqueue.queue)
             uri == wpaCache[i.key].spec.uri
             seconds == wpaCache[i.key].spec.seconds
  <2>1. /\ i \in Items
        /\ UNCHANGED call \/ \E workers \in Int : AddList(v, i.key, uri, workers, seconds)
      BY <1>2, GetOutcome DEF queueVars
  <2>2. i.key \in Keys /\ v # w
      BY <1>2, <2>1 DEF Items
  <2> HIDE DEF i, uri, seconds
  <2> QED
      BY <2>1, <2>2, NewCall DEF Types
<1>3. ASSUME NEW v \in Workers, syncHandler(v) PROVE call'[w] = call[w]
  <2>1. UNCHANGED call \/ (AddSend(v) /\ Registry(v))
      BY Zenon, <1>3 DEF syncHandler, Forget, Ignore, Requeue, Registry, Decide, Update, UpdateStatus, Delete
  <2>2. CASE AddSend(v) /\ Registry(v)
      BY <1>1, <2>2 DEF AddSend
  <2> QED
      BY <2>1, <2>2
<1>4. ASSUME NEW k \in Keys, \/ DeliverWpa(k) \/ Relist(k) \/ Resync(k) \/ Poll(k) \/ StartPoll(k)
                             \/ EndPoll(k) \/ ReportWorkers(k) \/ UserWritesWpa(k)
      PROVE  UNCHANGED call
    BY <1>4 DEF DeliverWpa, Relist, Resync, Poll, StartPoll, EndPoll, ReportWorkers, UserWritesWpa,
                updateMessage, updateMessageSent, updateIdleWorkers
<1>5. ASSUME NEW d \in Deployments, DeliverDeployment(d) \/ UserWritesDeployment(d)
      PROVE  UNCHANGED call
    BY <1>5 DEF DeliverDeployment, UserWritesDeployment
<1>6. RedeliverDelayed \/ Cool \/ SetBacklog \/ End \/ UNCHANGED vars => UNCHANGED call
    BY Zenon DEF RedeliverDelayed, Cool, SetBacklog, End, vars
<1> QED
    BY <1>2, <1>3, <1>4, <1>5, <1>6 DEF Next

LEMMA CallsMatchNext ==
    ASSUME Types, CallsMatch, [Next]_vars
    PROVE  CallsMatch'
<1> SUFFICES ASSUME NEW w \in Workers, worker'[w] # Free, worker'[w].at = "registry",
                    worker'[w].event.name # "delete"
             PROVE  call'[w] # Idle /\ call'[w].key = worker'[w].event.key
    BY DEF CallsMatch
<1>1. CASE worker[w] = Free /\ Get(w)
  <2> DEFINE i == Head(workqueue.queue)
             uri == wpaCache[i.key].spec.uri
             seconds == wpaCache[i.key].spec.seconds
  <2>1. /\ i \in Items /\ Begins(w, i, "registry")
        /\ \E workers \in Int : AddList(w, i.key, uri, workers, seconds)
      BY <1>1, GetOutcome DEF Begins
  <2>2. i.key \in Keys
      BY <2>1 DEF Items
  <2>3. worker'[w].event = i
      BY <2>1 DEF Begins
  <2> HIDE DEF i, uri, seconds
  <2>4. call'[w].key = i.key
      BY <2>1, <2>2, NewCall DEF Types
  <2>5. call'[w] # Idle
    <3>1. wpaCache[i.key] \in Object
        BY <1>1, <2>2, <2>3, GetOutcome DEF i, Types, WpaTypes, WpaVersion, Object, Begins
    <3>2. uri \in Uris /\ seconds \in Nat
        BY <3>1, SpecFields DEF uri, seconds
    <3> QED
        BY <2>1, <2>2, <3>2, NewCall DEF Types, RegistryTypes
  <2> QED
      BY <2>3, <2>4, <2>5
<1>2. CASE worker[w] # Free /\ Onward(worker[w], worker'[w])
    BY <1>2 DEF Onward
<1>3. CASE worker[w] # Free /\ (Waits(worker[w], worker'[w]) \/ Cool)
  <2>1. worker'[w].event = worker[w].event /\ worker'[w].at = worker[w].at
      BY <1>3, OnwardCool DEF Waits
  <2>2. ~Registry(w) /\ ~Get(w) /\ ~Boot
      BY Zenon, <1>3, <2>1, OnwardRegistry DEF Get, Boot, Onward
  <2> QED
      BY <1>3, <2>1, <2>2, CallNext DEF CallsMatch
<1> QED
    BY <1>1, <1>2, <1>3, JobNext

\* Only Get takes from what waits, and a back-off ends with its item waiting.
LEMMA GetQueue ==
    ASSUME Types, NEW w \in Workers, Get(w)
    PROVE  /\ workqueue'.dirty = workqueue.dirty \ {Head(workqueue.queue)}
           /\ workqueue'.delayed = workqueue.delayed
<1> DEFINE i == Head(workqueue.queue)
           taken == Dequeue(workqueue)
<1>1. /\ workqueue \in QueueOf(Items) /\ Once(workqueue) /\ workqueue.queue # <<>>
      /\ i \in Items
    BY Zenon, GetOutcome DEF Types, Holding, Get
<1>2. /\ taken \in QueueOf(Items) /\ taken.dirty = workqueue.dirty \ {i}
      /\ taken.delayed = workqueue.delayed
  <2>1. taken \in QueueOf(Items)
      BY <1>1, DequeueOnce
  <2>2. taken.dirty = workqueue.dirty \ {i} /\ taken.delayed = workqueue.delayed
      BY <1>1 DEF Dequeue, QueueOf
  <2> QED
      BY <2>1, <2>2
<1>3. workqueue' = taken
    BY Zenon DEF Get, Hold
<1> QED
    BY <1>2, <1>3 DEF i

LEMMA QueueNext ==
    ASSUME Types, [Next]_vars, ~Boot
    PROVE  /\ (\A w \in Workers : ~Get(w)) => workqueue.dirty \subseteq workqueue'.dirty
           /\ workqueue.delayed \subseteq workqueue'.delayed \cup workqueue'.dirty
<1> DEFINE Keep == /\ workqueue.dirty \subseteq workqueue'.dirty
                   /\ workqueue.delayed \subseteq workqueue'.delayed \cup workqueue'.dirty
<1>1. UNCHANGED workqueue => Keep
    OBVIOUS
<1>2. workqueue \in QueueOf(Items)
    BY DEF Types, Holding
<1>3. ASSUME NEW i, workqueue' \in {Enqueue(workqueue, i), Redeliver(workqueue, i),
                                   ItemDone(workqueue, i), ItemDone(Delay(workqueue, i), i)}
      PROVE  Keep
  <2>1. \A wq : DOMAIN wq = {"queue", "dirty", "processing", "delayed"} =>
          /\ wq.dirty \subseteq Enqueue(wq, i).dirty /\ i \in Enqueue(wq, i).dirty
          /\ Enqueue(wq, i).delayed = wq.delayed
          /\ ItemDone(wq, i).dirty = wq.dirty /\ ItemDone(wq, i).delayed = wq.delayed
      BY DEF Enqueue, ItemDone
  <2>2. DOMAIN workqueue = {"queue", "dirty", "processing", "delayed"}
      BY <1>2 DEF QueueOf
  <2>3. CASE workqueue' \in {Enqueue(workqueue, i), ItemDone(workqueue, i)}
      BY <2>1, <2>2, <2>3
  <2>4. CASE workqueue' = ItemDone(Delay(workqueue, i), i)
    <3> DEFINE wq == Delay(workqueue, i)
    <3>1. /\ DOMAIN wq = DOMAIN workqueue
          /\ wq.dirty = workqueue.dirty /\ wq.delayed = workqueue.delayed \cup {i}
        BY <2>2 DEF Delay
    <3> HIDE DEF wq
    <3> QED
        BY <2>1, <2>2, <2>4, <3>1 DEF wq
  <2>5. CASE workqueue' = Redeliver(workqueue, i)
    <3> DEFINE wq == [workqueue EXCEPT !.delayed = @ \ {i}]
    <3>1. /\ DOMAIN wq = DOMAIN workqueue
          /\ wq.dirty = workqueue.dirty /\ wq.delayed = workqueue.delayed \ {i}
        BY <2>2
    <3>2. workqueue' = Enqueue(wq, i)
        BY <2>5 DEF Redeliver
    <3> HIDE DEF wq
    <3> QED
        BY <2>1, <2>2, <3>1, <3>2
  <2> QED
      BY <1>3, <2>3, <2>4, <2>5
<1>4. ASSUME NEW k \in Keys, DeliverWpa(k) \/ Relist(k) \/ Resync(k) PROVE Keep
  <2>1. \/ UNCHANGED workqueue
        \/ \E name \in {"add", "update", "delete"} : workqueue' = Enqueue(workqueue, Event(k, name))
      BY <1>4 DEF DeliverWpa, Relist, Resync
  <2> QED
      BY <1>1, <1>3, <2>1
<1>5. ASSUME NEW w \in Workers, syncHandler(w) PROVE Keep
  <2>1. \/ UNCHANGED workqueue
        \/ workqueue' \in {ItemDone(workqueue, worker[w].event),
                           ItemDone(Delay(workqueue, worker[w].event), worker[w].event)}
      BY <1>5, Zenon DEF syncHandler, Forget, Ignore, Requeue, Registry, Decide, Update, UpdateStatus, Finish
  <2> QED
      BY <1>1, <1>3, <2>1
<1>6. RedeliverDelayed => Keep
    BY <1>3 DEF RedeliverDelayed
<1>7. ASSUME NEW k \in Keys, Poll(k) \/ StartPoll(k) \/ EndPoll(k) \/ ReportWorkers(k) \/ UserWritesWpa(k) PROVE UNCHANGED workqueue
    BY <1>7 DEF Poll, StartPoll, EndPoll, ReportWorkers, UserWritesWpa
<1>8. ASSUME NEW d \in Deployments, DeliverDeployment(d) \/ UserWritesDeployment(d)
      PROVE  UNCHANGED workqueue
    BY <1>8 DEF DeliverDeployment, UserWritesDeployment
<1>9. Cool \/ SetBacklog \/ End \/ UNCHANGED vars => UNCHANGED workqueue
    BY Zenon DEF Cool, SetBacklog, End, vars
<1> QED
    BY <1>1, <1>4, <1>5, <1>6, <1>7, <1>8, <1>9, GetQueue DEF Next

LEMMA PendingNext ==
    ASSUME Types, [Next]_vars, ~Boot, NEW k \in Keys, Pending(k), ~Pending(k)'
    PROVE  \E w \in Workers : Get(w) /\ Head(workqueue.queue).key = k
<1>1. PICK i \in workqueue.dirty : i.key = k
    BY DEF Pending
<1>2. i \notin workqueue'.dirty
    BY <1>1 DEF Pending
<1>3. PICK w \in Workers : Get(w)
    BY <1>2, QueueNext
<1> QED
    BY <1>1, <1>2, <1>3, GetQueue

\* What the lister has of a resource stays as it is, but for times, or changes with
\* an event on its way; a list alone may take it away without one.
LEMMA CacheNext ==
    ASSUME Types, [Next]_vars, ~Boot, NEW k \in Keys
    PROVE  \/ wpaCache[k] = Gone /\ wpaCache'[k] = Gone
           \/ /\ wpaCache[k] # Gone /\ wpaCache'[k] # Gone
              /\ wpaCache'[k].spec = wpaCache[k].spec
           \/ Pending(k)'
           \/ "relist" \in Possible /\ wpaCache'[k] = Gone
<1>1. wpaCache \in [Keys -> WpaVersion]
    BY DEF Types, WpaTypes
<1>2. ASSUME NEW name \in {"add", "update", "delete"}, workqueue' = Enqueue(workqueue, Event(k, name))
      PROVE  Pending(k)'
  <2>1. Event(k, name) \in Items /\ Event(k, name).key = k
      BY DEF Event, Items
  <2>2. workqueue'.dirty = workqueue.dirty \cup {Event(k, name)}
      BY <1>2, <2>1, DirtyItems DEF Types, Holding
  <2> QED
      BY <2>1, <2>2 DEF Pending
<1>3. CASE wpaCache'[k] = wpaCache[k]
    BY <1>3
<1>4. CASE DeliverWpa(k)
    BY <1>2, <1>4 DEF DeliverWpa
<1>5. CASE Relist(k)
    BY <1>1, <1>2, <1>5 DEF Relist
<1>6. ASSUME NEW i \in Keys, i # k, DeliverWpa(i) \/ Relist(i) PROVE wpaCache'[k] = wpaCache[k]
    BY <1>1, <1>6 DEF DeliverWpa, Relist
<1>7. CASE Cool
  <2>1. wpaCache'[k] = OlderWpa(wpaCache[k])
      BY <1>7, CoolEffect
  <2>2. CASE wpaCache[k] = Gone
      BY <2>1, <2>2 DEF OlderWpa
  <2>3. CASE wpaCache[k] # Gone
    <3>1. wpaCache[k] \in Object
        BY <1>1, <2>3 DEF WpaVersion, Object
    <3>2. OlderWpa(wpaCache[k]) \in Object /\ OlderWpa(wpaCache[k]).spec = wpaCache[k].spec
        BY <2>3, <3>1, OlderType DEF OlderWpa, Object
    <3> QED
        BY <2>1, <2>3, <3>2, GoneAssumption DEF Object
  <2> QED
      BY <2>2, <2>3
<1>8. ASSUME NEW i \in Keys, Resync(i) \/ Poll(i) \/ StartPoll(i) \/ EndPoll(i) \/ ReportWorkers(i) \/ UserWritesWpa(i)
      PROVE  UNCHANGED wpaCache
    BY <1>8 DEF Resync, Poll, StartPoll, EndPoll, ReportWorkers, UserWritesWpa, cacheVars
<1>9. ASSUME NEW d \in Deployments, DeliverDeployment(d) \/ UserWritesDeployment(d)
      PROVE  UNCHANGED wpaCache
    BY <1>9 DEF DeliverDeployment, UserWritesDeployment, cacheVars
<1>10. ASSUME NEW w \in Workers, Get(w) \/ syncHandler(w) PROVE UNCHANGED wpaCache
    BY Zenon, <1>10 DEF Get, syncHandler, Forget, Ignore, Requeue, Registry, Decide, Update, UpdateStatus, cacheVars
<1>11. RedeliverDelayed \/ SetBacklog \/ End \/ UNCHANGED vars => UNCHANGED wpaCache
    BY DEF RedeliverDelayed, SetBacklog, End, vars, cacheVars
<1> QED
    BY <1>3, <1>4, <1>5, <1>6, <1>7, <1>8, <1>9, <1>10, <1>11 DEF Next

\* A worker that is to add or to remove a queue does so before it is done.
LEMMA JobEnds ==
    ASSUME Types, [Next]_vars, ~Boot, NEW w \in Workers, worker[w] # Free, worker'[w] = Free
    PROVE  Forget(w) \/ Requeue(w) \/ worker[w].at \in {"ignore", "decide", "status"}
<1>1. ~UNCHANGED worker /\ \A v \in Workers : v # w => ~OnlyMoves(v)
    BY DEF OnlyMoves
<1>2. ASSUME NEW v \in Workers, Get(v) PROVE FALSE
    BY <1>1, <1>2, GetOutcome DEF Begins
<1>3. ASSUME NEW v \in Workers, Finish(v) \/ Requeue(v) PROVE v = w
  <2>1. OnlyMoves(v)
      BY <1>3 DEF Finish, Requeue, OnlyMoves, Types, Holding
  <2> QED
      BY <1>1, <2>1
<1>4. ASSUME NEW v \in Workers, Registry(v) \/ Decide(v) \/ Update(v), ~Finish(v) PROVE FALSE
    BY <1>1, <1>4, OnwardRegistry, OnwardDecide, OnwardUpdate DEF Onward
<1>5. ASSUME NEW k PROVE Outdate(k)[w] # Free
    BY OnwardOutdate
<1>6. ASSUME NEW v \in Workers, UpdateStatus(v) PROVE v = w
  <2>1. Finish(v) \/ worker' = [Outdate(worker[v].event.key) EXCEPT ![v] = Free]
      BY <1>6 DEF UpdateStatus
  <2>2. CASE worker' = [Outdate(worker[v].event.key) EXCEPT ![v] = Free]
    <3>1. v # w => worker'[w] = Outdate(worker[v].event.key)[w]
        BY <2>2 DEF Outdate
    <3> QED
        BY <1>5, <3>1
  <2> QED
      BY <1>3, <2>1, <2>2
<1>7. ASSUME NEW v \in Workers, syncHandler(v)
      PROVE  Forget(w) \/ Requeue(w) \/ worker[w].at \in {"ignore", "decide", "status"}
  <2>1. CASE Forget(v) \/ Ignore(v) \/ Requeue(v)
      BY <1>3, <2>1 DEF Forget, Ignore, At
  <2>2. CASE UpdateStatus(v)
      BY <1>6, <2>2 DEF UpdateStatus, At
  <2>3. CASE Registry(v) \/ Decide(v) \/ Update(v)
    <3>1. Finish(v) /\ v = w
        BY <1>3, <1>4, <2>3
    <3>2. ~Registry(w) /\ ~Update(w)
        BY <1>1, OnwardRegistry, OnwardUpdate DEF Onward
    <3>3. Decide(w)
        BY <2>3, <3>1, <3>2
    <3> QED
        BY <3>3 DEF Decide, At
  <2> QED
      BY <1>7, <2>1, <2>2, <2>3 DEF syncHandler
<1>8. ASSUME NEW k \in Keys, UserWritesWpa(k) PROVE FALSE
    BY <1>5, <1>8 DEF UserWritesWpa
<1>9. ~Cool
    BY OnwardCool
<1>10. ASSUME NEW k \in Keys, DeliverWpa(k) \/ Relist(k) \/ Resync(k) \/ Poll(k) \/ StartPoll(k) \/ EndPoll(k) \/ ReportWorkers(k)
       PROVE  UNCHANGED worker
    BY <1>10 DEF DeliverWpa, Relist, Resync, Poll, StartPoll, EndPoll, ReportWorkers
<1>11. ASSUME NEW d \in Deployments, DeliverDeployment(d) \/ UserWritesDeployment(d)
       PROVE  UNCHANGED worker
    BY <1>11 DEF DeliverDeployment, UserWritesDeployment
<1>12. RedeliverDelayed \/ SetBacklog \/ End \/ UNCHANGED vars => UNCHANGED worker
    BY DEF RedeliverDelayed, SetBacklog, End, vars
<1> QED
    BY <1>1, <1>2, <1>7, <1>8, <1>9, <1>10, <1>11, <1>12 DEF Next

\* The entry of k is there as it was, but for counts.
SameEntry(k) ==
    /\ Registered(k)' <=> Registered(k)
    /\ Registered(k) => item'[k].uri = item[k].uri

AddsFor(w, k) ==
    /\ worker[w] # Free /\ worker[w].event.key = k
    /\ worker[w].at = "registry" /\ worker[w].event.name # "delete"

LEMMA ReportsKeep ==
    ASSUME Types, NEW i \in Keys, Poll(i) \/ EndPoll(i) \/ ReportWorkers(i), NEW k \in Keys
    PROVE  SameEntry(k)
<1>1. PICK n \in Int : \/ updateMessage(i, n) \/ updateMessageSent(i, n)
                       \/ updateIdleWorkers(i, n)
  <2>1. Backlogs \subseteq Int /\ SentRates \subseteq Int /\ IdleCounts \subseteq Int
      BY ControllerAssumption, Nat32IsNat
  <2>2. Poll(i) => backlog[item[i].uri] \in Backlogs /\ updateMessage(i, backlog[item[i].uri])
    <3>1. Registered(i) => item[i] \in QueueSpec
        BY DEF Types, RegistryTypes, QueuesTypeOK, Registered
    <3> QED
        BY <3>1 DEF Poll, Types, OtherTypes, QueueSpec
  <2>3. EndPoll(i) => polling[i] \in Backlogs /\ updateMessage(i, polling[i])
      BY DEF EndPoll, Types, OtherTypes
  <2> QED
      BY <2>1, <2>2, <2>3 DEF ReportWorkers
<1>2. Reported(i)
    BY <1>1, ReportType DEF Types, RegistryTypes
<1> QED
    BY <1>2 DEF Reported, SameEntry, Registered

\* An entry comes and goes with the worker that was to add or to remove it.
LEMMA EntryNext ==
    ASSUME Types, CallsMatch, [Next]_vars, ~Boot, NEW k \in Keys
    PROVE  \/ SameEntry(k)
           \/ item'[k] = NoSpec /\ \E w \in Workers : Removing(w, k)
           \/ \E w \in Workers : /\ AddsFor(w, k) /\ Registry(w)
                                 /\ Registered(k)' /\ item'[k] = call[w].spec
<1>1. /\ item \in [Keys -> QueueSpec \cup {NoSpec}]
      /\ call \in [Workers -> [key : Keys, spec : QueueSpec] \cup {Idle}]
    BY DEF Types, RegistryTypes, QueuesTypeOK, Workers
<1>2. UNCHANGED item => SameEntry(k)
    BY DEF SameEntry, Registered
<1>3. ASSUME NEW w \in Workers, Delete(w, worker[w].event.key),
             Forget(w) \/ (Registry(w) /\ worker[w].event.name = "delete")
      PROVE  SameEntry(k) \/ (item'[k] = NoSpec /\ Removing(w, k))
  <2>1. CASE worker[w].event.key = k
      BY <1>1, <1>3, <2>1 DEF Delete, Removing, Forget, Registry, At
  <2>2. CASE worker[w].event.key # k
      BY <1>1, <1>3, <2>2 DEF Delete, SameEntry, Registered
  <2> QED
      BY <2>1, <2>2
<1>4. ASSUME NEW w \in Workers, Registry(w), AddSend(w), worker[w].event.name # "delete"
      PROVE  SameEntry(k) \/ (AddsFor(w, k) /\ Registered(k)' /\ item'[k] = call[w].spec)
  <2>1. worker[w] # Free /\ worker[w].at = "registry"
      BY <1>4 DEF Registry, At
  <2>2. /\ call[w] # Idle /\ call[w].key = worker[w].event.key
        /\ item' = [item EXCEPT ![call[w].key] = call[w].spec]
      BY <1>4, <2>1 DEF CallsMatch, AddSend
  <2>3. CASE worker[w].event.key = k
    <3>1. item'[k] = call[w].spec /\ call[w].spec \in QueueSpec
        BY <1>1, <2>2, <2>3
    <3> QED
        BY <1>4, <2>1, <2>3, <3>1, NoEntryAssumption DEF AddsFor, Registered
  <2>4. CASE worker[w].event.key # k
      BY <1>1, <2>2, <2>4 DEF SameEntry, Registered
  <2> QED
      BY <2>3, <2>4
<1>5. ASSUME NEW w \in Workers, syncHandler(w)
      PROVE  \/ SameEntry(k)
             \/ item'[k] = NoSpec /\ Removing(w, k)
             \/ /\ AddsFor(w, k) /\ Registry(w)
                /\ Registered(k)' /\ item'[k] = call[w].spec
  <2>1. \/ UNCHANGED item
        \/ /\ Delete(w, worker[w].event.key)
           /\ Forget(w) \/ (Registry(w) /\ worker[w].event.name = "delete")
        \/ Registry(w) /\ AddSend(w) /\ worker[w].event.name # "delete"
      BY Zenon, <1>5 DEF syncHandler, Forget, Ignore, Requeue, Registry, Decide, Update, UpdateStatus
  <2> QED
      BY <1>2, <1>3, <1>4, <2>1
<1>6. ASSUME NEW w \in Workers, Get(w) PROVE UNCHANGED item
    BY <1>6, GetOutcome DEF queueVars, AddList
<1>7. ASSUME NEW i \in Keys, \/ DeliverWpa(i) \/ Relist(i) \/ Resync(i)
                             \/ StartPoll(i) \/ UserWritesWpa(i)
      PROVE  UNCHANGED item
    BY <1>7 DEF DeliverWpa, Relist, Resync, StartPoll, UserWritesWpa
<1>8. ASSUME NEW d \in Deployments, DeliverDeployment(d) \/ UserWritesDeployment(d)
      PROVE  UNCHANGED item
    BY <1>8 DEF DeliverDeployment, UserWritesDeployment
<1>9. RedeliverDelayed \/ Cool \/ SetBacklog \/ End \/ UNCHANGED vars => UNCHANGED item
    BY Zenon DEF RedeliverDelayed, Cool, SetBacklog, End, vars
<1> QED
    BY <1>2, <1>5, <1>6, <1>7, <1>8, <1>9, ReportsKeep DEF Next

\* Who is to remove an entry goes on to do so.
LEMMA RemovingNext ==
    ASSUME Types, [Next]_vars, ~Boot, NEW w \in Workers, NEW k \in Keys, Removing(w, k)
    PROVE  Removing(w, k)' \/ item'[k] = NoSpec
<1>1. item \in [Keys -> QueueSpec \cup {NoSpec}] /\ worker[w].event.key = k /\ worker[w] # Free
    BY DEF Types, RegistryTypes, QueuesTypeOK, Removing
<1>2. CASE worker'[w] = Free
    BY <1>1, <1>2, JobEnds DEF Removing, Forget, Requeue, At, Delete
<1>3. CASE worker'[w] # Free
  <2>1. CASE worker[w].at \in {"registry", "decide", "update"} /\ (worker[w].at = "registry" => Registry(w))
    <3>1. Registry(w) /\ worker[w].event.name = "delete"
        BY <2>1 DEF Removing
    <3> QED
        BY <1>1, <3>1 DEF Registry, Delete
  <2>2. CASE Waits(worker[w], worker'[w]) \/ Cool
    <3>1. worker'[w].event = worker[w].event /\ worker'[w].at = worker[w].at
        BY <1>1, <2>2, OnwardCool DEF Waits
    <3> QED
        BY <1>3, <3>1 DEF Removing
  <2> QED
      BY <1>1, <1>3, <2>1, <2>2, JobNext
<1> QED
    BY <1>2, <1>3

\* Who is at the registry stays there with what it has, or does its part.
LEMMA AtRegistryNext ==
    ASSUME Types, [Next]_vars, ~Boot, NEW w \in Workers, worker[w] # Free, worker[w].at = "registry"
    PROVE  \/ Registry(w) /\ worker'[w] # Free /\ worker'[w].at # "registry"
           \/ /\ worker'[w] # Free /\ worker'[w].at = "registry"
              /\ worker'[w].event = worker[w].event /\ call'[w] = call[w]
<1>1. worker'[w] # Free
    BY JobEnds DEF Forget, Requeue, At
<1>2. CASE Registry(w)
  <2>1. worker'[w].at # "registry"
      BY <1>2 DEF Registry, Types, Holding
  <2> QED
      BY <1>1, <1>2, <2>1
<1>3. CASE ~Registry(w)
  <2>1. worker'[w].event = worker[w].event /\ worker'[w].at = worker[w].at
      BY <1>1, <1>3, JobNext, OnwardCool DEF Waits
  <2>2. call'[w] = call[w]
      BY Zenon, <1>3, CallNext DEF Get
  <2> QED
      BY <1>1, <2>1, <2>2
<1> QED
    BY <1>2, <1>3

LEMMA UpNext ==
    ASSUME [Next]_vars, ~Boot, down' = "up"
    PROVE  down = "up"
<1>1. ASSUME NEW w \in Workers, Get(w) \/ syncHandler(w) PROVE down = "up"
    BY Zenon, <1>1 DEF Get, syncHandler, Forget, Ignore, Requeue, Registry, Decide, Update, UpdateStatus, At
<1>2. ASSUME NEW k \in Keys, \/ DeliverWpa(k) \/ Relist(k) \/ Resync(k) \/ Poll(k) \/ StartPoll(k)
                             \/ EndPoll(k) \/ ReportWorkers(k) \/ UserWritesWpa(k)
      PROVE  down = "up"
    BY <1>2 DEF DeliverWpa, Relist, Resync, Poll, StartPoll, EndPoll, ReportWorkers, UserWritesWpa
<1>3. ASSUME NEW d \in Deployments, DeliverDeployment(d) \/ UserWritesDeployment(d)
      PROVE  down = "up"
    BY <1>3 DEF DeliverDeployment, UserWritesDeployment
<1>4. RedeliverDelayed \/ Cool \/ SetBacklog \/ End \/ UNCHANGED vars => down = "up"
    BY Zenon DEF RedeliverDelayed, Cool, SetBacklog, End, vars, envVars
<1> QED
    BY <1>1, <1>2, <1>3, <1>4 DEF Next

\* Whoever takes an item of k takes it from what waits.
LEMMA NewWork ==
    ASSUME Types, [Next]_vars, NEW w \in Workers, worker[w] = Free, worker'[w] # Free
    PROVE  Pending(worker'[w].event.key)
<1>1. Get(w)
    BY JobNext
<1> QED
    BY <1>1, GetOutcome DEF Begins, Pending

-----------------------------------------------------------------------------
(* The removal of what is gone                                             *)

\* Of a resource that the lister has not: its event waits, or no Add is under way
\* and its entry, if any, is about to be removed.
RemovalDue(k) ==
    wpaCache[k] = Gone =>
        \/ Pending(k)
        \/ /\ Registered(k) => \E w \in Workers : Removing(w, k)
           /\ \A w \in Workers : ~AddsFor(w, k)

RemovalsDue == down = "up" => \A k \in Keys : RemovalDue(k)

LEMMA RemovalsDueNext ==
    ASSUME "relist" \notin Possible, Types, CallsMatch, RemovalsDue, OneSyncPerKey', [Next]_vars
    PROVE  RemovalsDue'
<1> SUFFICES ASSUME down' = "up", NEW k \in Keys, wpaCache'[k] = Gone, ~Pending(k)'
             PROVE  /\ Registered(k)' => \E w \in Workers : Removing(w, k)'
                    /\ \A w \in Workers : ~AddsFor(w, k)'
    BY DEF RemovalsDue, RemovalDue
<1>1. CASE Boot
    BY <1>1 DEF Boot, Registered, AddsFor
<1>2. CASE ~Boot /\ Pending(k)
  <2>1. PICK w \in Workers : Get(w) /\ Head(workqueue.queue).key = k
      BY <1>2, PendingNext
  <2>2. wpaCache[k] = Gone
      BY <2>1, GetOutcome DEF cacheVars
  <2>3. Begins(w, Head(workqueue.queue), "forget")
      BY <2>1, <2>2, GetOutcome
  <2>4. Removing(w, k)' /\ worker'[w].at = "forget"
      BY <2>1, <2>3 DEF Begins, Removing
  <2>5. \A v \in Workers : worker'[v] # Free /\ worker'[v].event.key = k => v = w
      BY <2>4 DEF OneSyncPerKey, Removing
  <2> QED
      BY <2>4, <2>5 DEF AddsFor
<1>3. CASE ~Boot /\ ~Pending(k)
  <2>1. wpaCache[k] = Gone
      BY <1>3, CacheNext
  <2>2. /\ Registered(k) => \E w \in Workers : Removing(w, k)
        /\ \A w \in Workers : ~AddsFor(w, k)
      BY <1>3, <2>1, UpNext DEF RemovalsDue, RemovalDue
  <2>3. \A w \in Workers : ~AddsFor(w, k)'
    <3> SUFFICES ASSUME NEW w \in Workers, AddsFor(w, k)' PROVE FALSE
        OBVIOUS
    <3>1. worker[w] # Free
        BY <1>3, NewWork DEF AddsFor
    <3>2. Waits(worker[w], worker'[w]) \/ Cool
        BY <3>1, JobNext DEF AddsFor, Onward
    <3>3. worker'[w].event = worker[w].event /\ worker'[w].at = worker[w].at
        BY <3>1, <3>2, OnwardCool DEF Waits
    <3> QED
        BY <2>2, <3>1, <3>3 DEF AddsFor
  <2>4. ASSUME Registered(k)' PROVE \E w \in Workers : Removing(w, k)'
    <3>1. item'[k] # NoSpec
        BY <2>4 DEF Registered
    <3>2. SameEntry(k)
        BY <1>3, <2>2, <3>1, EntryNext
    <3>3. PICK w \in Workers : Removing(w, k)
        BY <2>2, <2>4, <3>2 DEF SameEntry
    <3> QED
        BY <1>3, <3>1, <3>3, RemovingNext
  <2> QED
      BY <2>3, <2>4
<1> QED
    BY <1>1, <1>2, <1>3

\* The entry of a resource that is gone has its removal on the way, whatever Adds
\* were under way when it went: in every run in which no two workers sync one
\* resource and no watch is replaced by a list.
THEOREM RemovalFollows ==
    ASSUME IsFiniteSet(Keys), "relist" \notin Possible
    PROVE  Spec => DeletionFollowed
<1> DEFINE Inv == Types /\ CallsMatch /\ RemovalsDue
<1>1. Init => Inv
  <2>1. Init => CallsMatch
      BY DEF Init, CallsMatch
  <2>2. Init => RemovalsDue
      BY DEF Init, QueuesInit, RemovalsDue, RemovalDue, Registered, AddsFor
  <2> QED
      BY <2>1, <2>2, TypesInit
<1>2. Inv /\ OneSyncPerKey' /\ [Next]_vars => Inv'
    BY TypesNext, CallsMatchNext, RemovalsDueNext
<1>3. Inv => \A k \in Keys : RemovalOnTheWay(k)
  <2> SUFFICES ASSUME Inv, NEW k \in Keys, down = "up", wpas[k] = Gone, Registered(k),
                      wpaWatch[k] = <<>>
               PROVE  Pending(k) \/ \E w \in Workers : Removing(w, k)
      BY DEF RemovalOnTheWay
  <2>1. wpaCache[k] = Gone
      BY DEF Types, WpaTypes, Newest
  <2> QED
      BY <2>1 DEF RemovalsDue, RemovalDue
<1> HIDE DEF Inv
<1> QED
    BY <1>1, <1>2, <1>3, PTL DEF Spec, DeletionFollowed

-----------------------------------------------------------------------------
(* The registration of what is there                                       *)

\* No worker is about to remove the queue of a resource that the lister has.
NoRemoval ==
    \A w \in Workers :
        worker[w] # Free /\ worker[w].at = "registry" => worker[w].event.name # "delete"

LEMMA NoRemovalNext ==
    ASSUME Types, NoRemoval, NoLateDeletion, [Next]_vars
    PROVE  NoRemoval'
<1> SUFFICES ASSUME NEW w \in Workers, worker'[w] # Free, worker'[w].at = "registry",
                    worker'[w].event.name = "delete"
             PROVE  FALSE
    BY DEF NoRemoval
<1>1. CASE worker[w] = Free /\ Get(w)
  <2> DEFINE i == Head(workqueue.queue)
  <2>1. /\ i \in Items /\ i \in workqueue.dirty /\ wpaCache[i.key] # Gone
        /\ worker'[w].event = i
      BY <1>1, GetOutcome DEF Begins
  <2> HIDE DEF i
  <2>2. i = Event(i.key, "delete") /\ i.key \in Keys
      BY <2>1 DEF Items, Event
  <2> QED
      BY <2>1, <2>2 DEF NoLateDeletion
<1>2. CASE worker[w] # Free /\ Onward(worker[w], worker'[w])
    BY <1>2 DEF Onward
<1>3. CASE worker[w] # Free /\ (Waits(worker[w], worker'[w]) \/ Cool)
  <2>1. worker'[w].event = worker[w].event /\ worker'[w].at = worker[w].at
      BY <1>3, OnwardCool DEF Waits
  <2> QED
      BY <1>3, <2>1 DEF NoRemoval
<1> QED
    BY <1>1, <1>2, <1>3, JobNext

\* An Add under way goes on, or the queue is registered.
LEMMA AddingNext ==
    ASSUME Types, CallsMatch, NoRemoval, [Next]_vars, ~Boot,
           NEW w \in Workers, NEW k \in Keys, NEW uri, Adding(w, k, uri)
    PROVE  Adding(w, k, uri)' \/ (Registered(k)' /\ item'[k].uri = uri)
<1>1. /\ item \in [Keys -> QueueSpec \cup {NoSpec}]
      /\ call[w] # Idle /\ call[w] \in [key : Keys, spec : QueueSpec]
    BY DEF Types, RegistryTypes, QueuesTypeOK, Workers, Adding
<1>2. CASE Registry(w)
  <2>1. worker[w].event.name # "delete" /\ call[w].key = k /\ call[w].spec.uri = uri
      BY DEF CallsMatch, NoRemoval, Adding
  <2>2. item' = [item EXCEPT ![k] = call[w].spec]
      BY <1>2, <2>1 DEF Registry, AddSend
  <2> QED
      BY <1>1, <2>1, <2>2, NoEntryAssumption DEF Registered
<1>3. CASE ~Registry(w)
    BY <1>3, AtRegistryNext DEF Adding
<1> QED
    BY <1>2, <1>3

\* Of a resource that the lister has and whose queue is to be registered: its event
\* waits, or backs off, or is about to, or the queue is registered, or about to be, and whoever syncs
\* it does nothing else to the registry.
Asked(k) ==
    /\ wpaCache[k] # Gone
    /\ wpaCache[k].spec.deployment # NoDeployment
    /\ ServiceOf[wpaCache[k].spec.uri] \in Services

AddDue(k) ==
    Asked(k) =>
        LET uri == wpaCache[k].spec.uri
        IN  \/ Pending(k) \/ Delayed(k) \/ \E w \in Workers : Retrying(w, k)
            \/ /\ \/ Registered(k) /\ item[k].uri = uri
                  \/ \E w \in Workers : Adding(w, k, uri)
               /\ \A w \in Workers : worker[w] # Free /\ worker[w].event.key = k =>
                     /\ worker[w].at # "forget"
                     /\ worker[w].at = "registry" => call[w].spec.uri = uri

AddsDue == down = "up" => \A k \in Keys : AddDue(k)

\* A sync that has failed is to be tried again.
LEMMA RetryingNext ==
    ASSUME Types, [Next]_vars, ~Boot, NEW w \in Workers, NEW k \in Keys, Retrying(w, k)
    PROVE  Retrying(w, k)' \/ Delayed(k)'
<1>1. worker[w] # Free /\ worker[w].event.key = k /\ worker[w].at = "requeue"
    BY DEF Retrying
<1>2. CASE worker'[w] = Free
  <2>1. Requeue(w)
      BY <1>1, <1>2, JobEnds DEF Forget, At
  <2>2. worker[w].event \in workqueue'.delayed
      BY <2>1 DEF Requeue, ItemDone, Delay, Types, Holding, QueueOf
  <2> QED
      BY <1>1, <2>2 DEF Delayed
<1>3. CASE worker'[w] # Free
  <2>1. worker'[w].event = worker[w].event /\ worker'[w].at = worker[w].at
      BY <1>1, <1>3, JobNext, OnwardCool DEF Waits
  <2> QED
      BY <1>1, <1>3, <2>1 DEF Retrying
<1> QED
    BY <1>2, <1>3

\* What Get does with an item of such a resource.
LEMMA GetAsked ==
    ASSUME Types, NoLateDeletion, NEW w \in Workers, Get(w), NEW k \in Keys, Asked(k),
           NEW uri, wpaCache[k].spec.uri = uri,
           Head(workqueue.queue).key = k, ~Retrying(w, k)'
    PROVE  Adding(w, k, uri)'
<1> DEFINE i == Head(workqueue.queue)
           seconds == wpaCache[k].spec.seconds
<1>1. i \in Items /\ i \in workqueue.dirty /\ i.key = k
    BY GetOutcome
<1>2. ~Begins(w, i, "requeue")
    BY <1>1 DEF Begins, Retrying
<1>3. i.name # "delete"
  <2>1. i.name = "delete" => i = Event(k, "delete")
      BY <1>1 DEF Items, Event
  <2> QED
      BY <1>1, <2>1 DEF NoLateDeletion, Asked
<1>4. wpaCache[k] \in Object
    BY DEF Asked, Types, WpaTypes, WpaVersion, Object
<1>5. uri \in Uris /\ seconds \in Nat /\ ServiceOf[uri] # "unsupported"
    BY <1>4, SpecFields, QueuesAssumption DEF Asked
<1>6. Begins(w, i, "registry") /\ \E workers \in Int : AddList(w, k, uri, workers, seconds)
    BY <1>2, <1>3, <1>5, GetOutcome DEF Asked
<1> HIDE DEF i, seconds
<1>7. call'[w] # Idle /\ call'[w].spec.uri = uri
    BY <1>5, <1>6, NewCall DEF Types
<1> QED
    BY <1>1, <1>6, <1>7 DEF Begins, Adding

LEMMA AddsDueNext ==
    ASSUME Types, CallsMatch, NoRemoval, AddsDue, NoLateDeletion, OneSyncPerKey', [Next]_vars
    PROVE  AddsDue'
<1> SUFFICES ASSUME down' = "up", NEW k \in Keys, Asked(k)', ~Pending(k)', ~Delayed(k)',
                    \A w \in Workers : ~Retrying(w, k)', NEW uri, wpaCache'[k].spec.uri = uri
             PROVE  /\ \/ Registered(k)' /\ item'[k].uri = uri
                       \/ \E w \in Workers : Adding(w, k, uri)'
                    /\ \A w \in Workers : worker'[w] # Free /\ worker'[w].event.key = k =>
                          /\ worker'[w].at # "forget"
                          /\ worker'[w].at = "registry" => call'[w].spec.uri = uri
    BY DEF AddsDue, AddDue, Adding
<1>1. ~Boot
  <2> SUFFICES ASSUME Boot PROVE FALSE
      OBVIOUS
  <2>1. wpas[k] # Gone
      BY DEF Boot, Asked
  <2>2. Event(k, "add") \in workqueue'.dirty /\ Event(k, "add").key = k
      BY <2>1 DEF Boot, EmptyQueue, Event
  <2> QED
      BY <2>2 DEF Pending
<1>2. Asked(k) /\ wpaCache[k].spec.uri = uri
    BY <1>1, CacheNext DEF Asked
<1>3. ~Delayed(k)
    BY <1>1, QueueNext DEF Delayed, Pending
<1>3a. \A w \in Workers : ~Retrying(w, k)
    BY <1>1, RetryingNext
<1>4. CASE Pending(k)
  <2>1. PICK w \in Workers : Get(w) /\ Head(workqueue.queue).key = k
      BY <1>1, <1>4, PendingNext
  <2>2. Adding(w, k, uri)'
      BY <1>2, <2>1, GetAsked DEF Adding
  <2>3. \A v \in Workers : worker'[v] # Free /\ worker'[v].event.key = k => v = w
      BY <2>2 DEF OneSyncPerKey, Adding
  <2> QED
      BY <1>2, <2>2, <2>3 DEF Adding
<1>5. CASE ~Pending(k)
  <2>1. /\ \/ Registered(k) /\ item[k].uri = uri
           \/ \E w \in Workers : Adding(w, k, uri)
        /\ \A w \in Workers : worker[w] # Free /\ worker[w].event.key = k =>
              /\ worker[w].at # "forget"
              /\ worker[w].at = "registry" => call[w].spec.uri = uri
      BY <1>1, <1>2, <1>3, <1>3a, <1>5, UpNext DEF AddsDue, AddDue
  <2>2. ASSUME NEW w \in Workers, worker'[w] # Free, worker'[w].event.key = k
        PROVE  /\ worker'[w].at # "forget"
               /\ worker'[w].at = "registry" => call'[w].spec.uri = uri
    <3>1. worker[w] # Free
        BY <1>5, <2>2, NewWork
    <3>2. CASE Onward(worker[w], worker'[w])
        BY <3>2 DEF Onward
    <3>3. CASE Waits(worker[w], worker'[w]) \/ Cool
      <4>1. worker'[w].event = worker[w].event /\ worker'[w].at = worker[w].at
          BY <3>1, <3>3, OnwardCool DEF Waits
      <4>2. worker[w].at = "registry" => call'[w] = call[w]
          BY <1>1, <2>2, <3>1, <4>1, AtRegistryNext
      <4> QED
          BY <2>1, <2>2, <3>1, <4>1, <4>2
    <3> QED
        BY <2>2, <3>1, <3>2, <3>3, JobNext
  <2>3. CASE \E w \in Workers : Adding(w, k, uri)
      BY <1>1, <1>2, <2>2, <2>3, AddingNext DEF Adding
  <2>4. CASE Registered(k) /\ item[k].uri = uri
    <3>1. \A w \in Workers : ~Removing(w, k)
        BY <2>1 DEF Removing, NoRemoval
    <3>2. CASE SameEntry(k)
        BY <1>2, <2>2, <2>4, <3>2 DEF SameEntry
    <3>3. ASSUME NEW w \in Workers, AddsFor(w, k), Registered(k)', item'[k] = call[w].spec
          PROVE  Registered(k)' /\ item'[k].uri = uri
        BY <2>1, <3>3 DEF AddsFor
    <3> QED
        BY <1>1, <1>2, <2>2, <3>1, <3>2, <3>3, EntryNext
  <2> QED
      BY <2>1, <2>3, <2>4
<1> QED
    BY <1>4, <1>5

\* The queue a resource names is registered, or its registration on the way, whatever
\* failed, was edited or restarted meanwhile: in every run in which no two workers
\* sync one resource and no deletion is taken when its resource is back.
THEOREM RegistrationFollows ==
    ASSUME IsFiniteSet(Keys)
    PROVE  Spec => RegistrationFollowed
<1> DEFINE Inv == Types /\ CallsMatch /\ NoRemoval /\ AddsDue
<1>1. Init => Inv
  <2>1. Init => CallsMatch /\ NoRemoval
      BY DEF Init, CallsMatch, NoRemoval
  <2>2. Init => AddsDue
      BY DEF Init, AddsDue, AddDue, Asked
  <2> QED
      BY <2>1, <2>2, TypesInit
<1>2. Inv /\ NoLateDeletion /\ OneSyncPerKey' /\ [Next]_vars => Inv'
    BY TypesNext, CallsMatchNext, NoRemovalNext, AddsDueNext
<1>3. Inv => RegistrationOnTheWay
  <2> SUFFICES ASSUME Inv, NEW k \in Keys, down = "up", wpas[k] # Gone,
                      wpas[k].spec.deployment # NoDeployment,
                      ServiceOf[wpas[k].spec.uri] \in Services,
                      wpaWatch[k] = <<>>, ~Pending(k), ~Delayed(k),
                      \A w \in Workers : ~Retrying(w, k)
               PROVE  \/ Registered(k) /\ item[k].uri = wpas[k].spec.uri
                      \/ \E w \in Workers : Adding(w, k, wpas[k].spec.uri)
      BY DEF RegistrationOnTheWay
  <2>1. wpaCache[k] = wpas[k]
      BY DEF Types, WpaTypes, Newest
  <2> QED
      BY <2>1 DEF AddsDue, AddDue, Asked
<1> HIDE DEF Inv
<1> QED
    BY <1>1, <1>2, <1>3, PTL DEF Spec, RegistrationFollowed

-----------------------------------------------------------------------------
(* Runs without deletions                                                  *)

\* Where nobody deletes a resource, no deletion is on its way.
NoDeletion ==
    /\ \A k \in Keys : \A n \in DOMAIN wpaWatch[k] : wpaWatch[k][n] # Gone
    /\ \A i \in workqueue.dirty \cup workqueue.delayed : i.name # "delete"
    /\ \A w \in Workers : worker[w] # Free => worker[w].event.name # "delete"

LEMMA NoDeletionQueue ==
    ASSUME Types, NoDeletion, [Next]_vars
    PROVE  \A i \in workqueue'.dirty \cup workqueue'.delayed : i.name # "delete"
<1> DEFINE Waiting(wq) == wq.dirty \cup wq.delayed
<1>1. workqueue \in QueueOf(Items) /\ \A i \in Waiting(workqueue) : i.name # "delete"
    BY DEF Types, Holding, NoDeletion
<1>2. ASSUME Waiting(workqueue') \subseteq Waiting(workqueue)
      PROVE  \A i \in Waiting(workqueue') : i.name # "delete"
    BY <1>1, <1>2
<1>3. ASSUME NEW k \in Keys, NEW name \in {"add", "update"},
             workqueue' = Enqueue(workqueue, Event(k, name))
      PROVE  \A i \in Waiting(workqueue') : i.name # "delete"
  <2>1. Event(k, name).name # "delete"
      BY DEF Event
  <2>2. Waiting(workqueue') \subseteq Waiting(workqueue) \cup {Event(k, name)}
      BY <1>1, <1>3 DEF Enqueue, QueueOf
  <2> QED
      BY <1>1, <2>1, <2>2
<1>4. ASSUME NEW k \in Keys, DeliverWpa(k) \/ Relist(k) \/ Resync(k)
      PROVE  \A i \in Waiting(workqueue') : i.name # "delete"
  <2>1. DeliverWpa(k) => Head(wpaWatch[k]) # Gone
    <3>1. wpaWatch[k] \in Seq(WpaVersion)
        BY DEF Types, WpaTypes
    <3>2. wpaWatch[k] # <<>> => 1 \in DOMAIN wpaWatch[k] /\ Head(wpaWatch[k]) = wpaWatch[k][1]
        BY <3>1
    <3> QED
        BY <3>2 DEF DeliverWpa, NoDeletion
  <2>2. \/ UNCHANGED workqueue
        \/ \E name \in {"add", "update"} : workqueue' = Enqueue(workqueue, Event(k, name))
      BY <1>4, <2>1 DEF DeliverWpa, Relist, Resync
  <2> QED
      BY <1>2, <1>3, <2>2
<1>5. ASSUME NEW w \in Workers, Get(w) PROVE \A i \in Waiting(workqueue') : i.name # "delete"
  <2>1. Waiting(workqueue') \subseteq Waiting(workqueue)
      BY <1>5, GetQueue, GetOutcome
  <2> QED
      BY <1>2, <2>1
<1>6. ASSUME NEW w \in Workers, syncHandler(w)
      PROVE  \A i \in Waiting(workqueue') : i.name # "delete"
  <2>1. \/ UNCHANGED workqueue \/ workqueue' = ItemDone(workqueue, worker[w].event)
        \/ workqueue' = ItemDone(Delay(workqueue, worker[w].event), worker[w].event)
      BY <1>6, Zenon DEF syncHandler, Forget, Ignore, Requeue, Registry, Decide, Update, UpdateStatus, Finish
  <2>2. Waiting(workqueue') \subseteq Waiting(workqueue) \cup {worker[w].event}
      BY <1>1, <2>1 DEF ItemDone, Delay, QueueOf
  <2>3. worker[w].event.name # "delete"
      BY Zenon, <1>6 DEF NoDeletion, syncHandler, Forget, Ignore, Requeue, Registry, Decide, Update, UpdateStatus, At
  <2> QED
      BY <1>1, <2>2, <2>3
<1>7. CASE RedeliverDelayed
  <2>1. PICK i \in workqueue.delayed : workqueue' = Redeliver(workqueue, i)
      BY <1>7 DEF RedeliverDelayed
  <2>2. Waiting(workqueue') \subseteq Waiting(workqueue)
      BY <1>1, <2>1 DEF Redeliver, Enqueue, QueueOf
  <2> QED
      BY <1>2, <2>2
<1>8. CASE Boot
  <2>1. workqueue'.delayed = {} /\ \A i \in workqueue'.dirty : \E k : i = Event(k, "add")
      BY <1>8 DEF Boot, EmptyQueue
  <2> QED
      BY <2>1 DEF Event
<1>9. ASSUME NEW k \in Keys, Poll(k) \/ StartPoll(k) \/ EndPoll(k) \/ ReportWorkers(k) \/ UserWritesWpa(k) PROVE UNCHANGED workqueue
    BY <1>9 DEF Poll, StartPoll, EndPoll, ReportWorkers, UserWritesWpa
<1>10. ASSUME NEW d \in Deployments, DeliverDeployment(d) \/ UserWritesDeployment(d)
      PROVE  UNCHANGED workqueue
    BY <1>10 DEF DeliverDeployment, UserWritesDeployment
<1>11. Cool \/ SetBacklog \/ End \/ UNCHANGED vars => UNCHANGED workqueue
    BY Zenon DEF Cool, SetBacklog, End, vars
<1> QED
    BY <1>2, <1>4, <1>5, <1>6, <1>7, <1>8, <1>9, <1>10, <1>11 DEF Next

LEMMA NoDeletionWatch ==
    ASSUME Types, NoDeletion, "delete" \notin Possible, [Next]_vars, NEW k \in Keys
    PROVE  \A n \in DOMAIN wpaWatch'[k] : wpaWatch'[k][n] # Gone
<1> DEFINE Clean(watch) == \A n \in DOMAIN watch : watch[n] # Gone
<1>1. /\ wpaWatch \in [Keys -> Seq(WpaVersion)] /\ wpas \in [Keys -> WpaVersion]
      /\ \A i \in Keys : Clean(wpaWatch[i])
    BY DEF Types, WpaTypes, NoDeletion
<1>2. wpaWatch'[k] = wpaWatch[k] \/ wpaWatch'[k] = <<>> => Clean(wpaWatch'[k])
    BY <1>1
<1>3. ASSUME NEW i \in Keys, DeliverWpa(i) PROVE Clean(wpaWatch'[k])
  <2>1. wpaWatch' = [wpaWatch EXCEPT ![i] = Tail(wpaWatch[i])] /\ wpaWatch[i] # <<>>
      BY <1>3 DEF DeliverWpa
  <2>2. Clean(Tail(wpaWatch[i]))
    <3>1. wpaWatch[i] \in Seq(WpaVersion) /\ Clean(wpaWatch[i])
        BY <1>1
    <3> DEFINE watch == wpaWatch[i]
    <3> HIDE DEF watch
    <3>2. watch \in Seq(WpaVersion) /\ Clean(watch) /\ watch # <<>> => Clean(Tail(watch))
      <4>1. SUFFICES ASSUME watch \in Seq(WpaVersion), Clean(watch), watch # <<>>,
                            NEW n \in DOMAIN Tail(watch)
                     PROVE  Tail(watch)[n] # Gone
          OBVIOUS
      <4>2. n + 1 \in DOMAIN watch /\ Tail(watch)[n] = watch[n + 1]
          BY <4>1
      <4> QED
          BY <4>1, <4>2
    <3> QED
        BY <2>1, <3>1, <3>2 DEF watch
  <2> QED
      BY <1>1, <2>1, <2>2
<1>4. ASSUME NEW i \in Keys, Relist(i) PROVE Clean(wpaWatch'[k])
    BY <1>1, <1>2, <1>4 DEF Relist
<1>5. ASSUME NEW i \in Keys, NEW version \in Object, WriteWpa(i, version)
      PROVE  Clean(wpaWatch'[k])
  <2>1. wpaWatch' = [wpaWatch EXCEPT ![i] = Append(wpaWatch[i], version)]
      BY <1>5 DEF WriteWpa
  <2>2. version # Gone
      BY GoneAssumption DEF Object
  <2>3. Clean(Append(wpaWatch[i], version))
    <3> DEFINE watch == wpaWatch[i]
    <3>1. watch \in Seq(WpaVersion) /\ Clean(watch)
        BY <1>1
    <3> HIDE DEF watch
    <3>2. \A n \in DOMAIN Append(watch, version) :
             \/ n \in DOMAIN watch /\ Append(watch, version)[n] = watch[n]
             \/ Append(watch, version)[n] = version
        BY <3>1
    <3> QED
        BY <2>2, <3>1, <3>2 DEF watch
  <2> QED
      BY <1>1, <2>1, <2>3
<1>6. ASSUME NEW w \in Workers, UpdateStatus(w) PROVE Clean(wpaWatch'[k])
  <2> DEFINE job == worker[w]
             i == job.event.key
             status == [current |-> job.current, desired |-> job.desired,
                        messages |-> job.messages, last |-> job.last]
  <2>1. \/ UNCHANGED wpaWatch
        \/ At(w, "status") /\ job.fresh /\ WriteWpa(i, [wpas[i] EXCEPT !.status = status])
      BY <1>6 DEF UpdateStatus, apiVars
  <2>2. CASE At(w, "status") /\ job.fresh /\ WriteWpa(i, [wpas[i] EXCEPT !.status = status])
    <3>1. i \in Keys /\ Sound(job, wpas[i])
        BY <2>2, WorkerItem DEF At
    <3>2. wpas[i] \in Object /\ [wpas[i] EXCEPT !.status = status] \in WpaVersion
        BY <2>2, <3>1, StatusVersion DEF At, Sound
    <3>3. [wpas[i] EXCEPT !.status = status] \in Object
      <4>1. job \in Job /\ job.desired \in Nat32
          BY <3>1 DEF Sound
      <4>2. status \in Status
          BY <4>1 DEF Job, Status
      <4> HIDE DEF status
      <4> QED
          BY <3>2, <4>2 DEF Object
    <3> HIDE DEF job, i, status
    <3> QED
        BY <1>5, <2>2, <3>1, <3>3
  <2> QED
      BY <1>2, <2>1, <2>2
<1>7. ASSUME NEW i \in Keys, UserWritesWpa(i) PROVE Clean(wpaWatch'[k])
  <2>1. PICK spec \in WpaSpecs :
           \/ WriteWpa(i, [spec |-> spec, status |-> NewStatus])
           \/ wpas[i] # Gone /\ WriteWpa(i, [wpas[i] EXCEPT !.spec = spec])
      BY <1>7 DEF UserWritesWpa, Disturb
  <2>2. NewStatus \in Status
      BY ScalingAssumption DEF NewStatus, Status, Times, Messages, Nat32
  <2>3. [spec |-> spec, status |-> NewStatus] \in Object
      BY <2>2 DEF Object
  <2>4. wpas[i] # Gone => [wpas[i] EXCEPT !.spec = spec] \in Object
      BY <1>1 DEF WpaVersion, Object
  <2> QED
      BY <1>5, <2>1, <2>3, <2>4
<1>8. CASE Cool
  <2>1. /\ DOMAIN wpaWatch'[k] = DOMAIN wpaWatch[k]
        /\ \A n \in DOMAIN wpaWatch[k] : wpaWatch'[k][n] = OlderWpa(wpaWatch[k][n])
    <3>1. wpaWatch' = [j \in Keys |-> [n \in DOMAIN wpaWatch[j] |-> OlderWpa(wpaWatch[j][n])]]
        BY <1>8, CoolEffect
    <3>2. wpaWatch'[k] = [n \in DOMAIN wpaWatch[k] |-> OlderWpa(wpaWatch[k][n])]
        BY <3>1
    <3> QED
        BY <3>2
  <2>2. ASSUME NEW v \in WpaVersion, v # Gone PROVE OlderWpa(v) # Gone
    <3>1. v \in Object
        BY <2>2 DEF WpaVersion, Object
    <3>2. OlderWpa(v) \in Object
        BY <2>2, <3>1, OlderType DEF OlderWpa, Object
    <3> QED
        BY <3>2, GoneAssumption DEF Object
  <2>3. \A n \in DOMAIN wpaWatch[k] : wpaWatch[k][n] \in WpaVersion
      BY <1>1
  <2> QED
      BY <1>1, <2>1, <2>2, <2>3
<1>9. CASE Boot
    BY <1>2, <1>9 DEF Boot
<1>10. ASSUME NEW i \in Keys, Resync(i) \/ Poll(i) \/ StartPoll(i) \/ EndPoll(i) \/ ReportWorkers(i) PROVE UNCHANGED wpaWatch
    BY <1>10 DEF Resync, Poll, StartPoll, EndPoll, ReportWorkers, apiVars
<1>11. ASSUME NEW d \in Deployments, DeliverDeployment(d) \/ UserWritesDeployment(d)
      PROVE  UNCHANGED wpaWatch
    BY <1>11 DEF DeliverDeployment, UserWritesDeployment
<1>12. ASSUME NEW w \in Workers, Get(w) \/ Forget(w) \/ Ignore(w) \/ Requeue(w) \/ Registry(w) \/ Decide(w) \/ Update(w)
       PROVE  UNCHANGED wpaWatch
    BY Zenon, <1>12 DEF Get, Forget, Ignore, Requeue, Registry, Decide, Update, apiVars
<1>13. RedeliverDelayed \/ SetBacklog \/ End \/ UNCHANGED vars => UNCHANGED wpaWatch
    BY DEF RedeliverDelayed, SetBacklog, End, vars, apiVars
<1> QED
    BY <1>2, <1>3, <1>4, <1>6, <1>7, <1>8, <1>9, <1>10, <1>11, <1>12, <1>13 DEF Next, syncHandler

LEMMA NoDeletionNext ==
    ASSUME Types, NoDeletion, "delete" \notin Possible, [Next]_vars
    PROVE  NoDeletion'
<1>1. ASSUME NEW w \in Workers, worker'[w] # Free PROVE worker'[w].event.name # "delete"
  <2>1. CASE worker[w] = Free /\ Get(w)
      BY <2>1, GetOutcome DEF Begins, NoDeletion
  <2>2. CASE worker[w] # Free
    <3>1. worker'[w].event = worker[w].event
        BY <1>1, <2>2, JobNext, OnwardCool DEF Onward, Waits
    <3> QED
        BY <2>2, <3>1 DEF NoDeletion
  <2> QED
      BY <1>1, <2>1, <2>2, JobNext
<1> QED
    BY <1>1, NoDeletionQueue, NoDeletionWatch DEF NoDeletion

\* With one worker, and as long as nobody deletes a resource, a registration is never
\* forgotten, without any premise about the run.
THEOREM RegistrationKept ==
    ASSUME IsFiniteSet(Keys), "delete" \notin Possible, \A v, w \in Workers : v = w
    PROVE  Spec => []RegistrationOnTheWay
<1>1. Types /\ NoDeletion => NoLateDeletion /\ OneSyncPerKey
    BY DEF NoDeletion, NoLateDeletion, OneSyncPerKey, Event
<1>2. Init => NoDeletion
    BY DEF Init, EmptyQueue, NoDeletion
<1>3. Types /\ NoDeletion /\ [Next]_vars => (Types /\ NoDeletion)'
    BY TypesNext, NoDeletionNext
<1>4. Spec => RegistrationFollowed
    BY RegistrationFollows
<1> QED
    BY <1>1, <1>2, <1>3, <1>4, TypesInit, PTL DEF Spec, RegistrationFollowed

=============================================================================
