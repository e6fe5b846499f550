-------------------------- MODULE PollerProofs --------------------------
(***************************************************************************)
(* The safety properties of Poller, for every set of keys, callers,        *)
(* services, URIs, goroutines and reports.                                 *)
(***************************************************************************)
EXTENDS Poller, QueuesProofs

Goroutine == [at : {"check", "list", "poll"}, service : Started, key : Keys]

\* TypeOK with the domain of poller.
Types ==
    /\ QueuesTypeOK
    /\ threads \in [Started -> SUBSET Keys]
    /\ run \in [Started -> RunStates]
    /\ poller \in [Goroutines -> Goroutine \cup {NoSpec}]
    /\ removals \in [Keys -> 0 .. MaxRemovals]
    /\ left \in [Started -> SUBSET Keys]

LEMMA TypesTypeOK == Types => TypeOK
BY DEF Types, TypeOK, Alive, Goroutine

-----------------------------------------------------------------------------
(* Type correctness                                                        *)

LEMMA TypesInit == Init => Types
BY PollerAssumption DEF Init, QueuesInit, Types, QueuesTypeOK, RunStates, Waiting

\* The controller's workers touch the registry only.
LEMMA TypesWorker ==
    ASSUME Types, NEW c \in Callers, Worker(c)
    PROVE  Types'
<1> USE DEF Types
<1>1. ASSUME NoteLeavers PROVE left' \in [Started -> SUBSET Keys]
    BY <1>1 DEF NoteLeavers, List
<1>2. CASE StartAdd(c)
  <2>1. PICK key \in Keys : \E uri \in UrisOf[key] : AddList(c, key, uri, 0, 0)
      BY <1>2 DEF StartAdd
  <2>2. PICK uri \in UrisOf[key] : AddList(c, key, uri, 0, 0)
      BY <2>1
  <2>3. QueuesTypeOK'
      BY <2>2, AddListType, PollerAssumption
  <2> QED
      BY <1>2, <2>3 DEF StartAdd, pollVars, histVars
<1>3. CASE FinishAdd(c)
  <2>1. QueuesTypeOK'
      BY <1>3, AddSendType DEF FinishAdd
  <2> QED
      BY <1>1, <1>3, <2>1 DEF FinishAdd, pollVars
<1>4. CASE Remove(c)
  <2>1. PICK key \in Keys : /\ removals[key] < MaxRemovals
                            /\ Delete(c, key)
                            /\ removals' = [removals EXCEPT ![key] = @ + 1]
      BY <1>4 DEF Remove
  <2>2. QueuesTypeOK'
      BY <2>1, DeleteType
  <2>3. removals[key] + 1 \in 0 .. MaxRemovals
      BY <2>1, PollerAssumption
  <2>4. removals' \in [Keys -> 0 .. MaxRemovals]
      BY <2>1, <2>3
  <2> QED
      BY <1>1, <1>4, <2>2, <2>4 DEF Remove, pollVars
<1> QED
    BY <1>2, <1>3, <1>4 DEF Worker

\* Run only lists, flags and starts.
LEMMA TypesRun ==
    ASSUME Types, NEW s \in Started, Run(s)
    PROVE  Types'
<1> USE DEF Types, histVars
<1>1. run[s] \in RunStates /\ List(s) \subseteq Keys
    BY DEF List
<1>2. CASE Tick(s)
    BY <1>1, <1>2 DEF Tick, RunStates, QueuesTypeOK
<1>3. CASE Spawn(s)
  <2>1. PICK key \in run[s].todo :
            /\ run' = [run EXCEPT ![s].todo = @ \ {key}]
            /\ \/ UNCHANGED <<threads, poller>>
               \/ /\ threads' = [threads EXCEPT ![s] = @ \cup {key}]
                  /\ \E g \in Goroutines :
                        poller' = [poller EXCEPT ![g] = [at |-> "check", service |-> s,
                                                         key |-> key]]
      BY <1>3 DEF Spawn
  <2>2. key \in Keys
      BY <1>1, <2>1 DEF RunStates
  <2>3. run' \in [Started -> RunStates]
      BY <1>1, <2>1 DEF RunStates
  <2>4. [at |-> "check", service |-> s, key |-> key] \in Goroutine
      BY <2>2 DEF Goroutine
  <2>5. threads' \in [Started -> SUBSET Keys]
        /\ poller' \in [Goroutines -> Goroutine \cup {NoSpec}]
      BY <2>1, <2>2, <2>4
  <2> QED
      BY <1>3, <2>3, <2>5 DEF Spawn, QueuesTypeOK
<1>4. CASE Spawned(s)
    BY <1>1, <1>4 DEF Spawned, RunStates, QueuesTypeOK
<1>5. CASE Reap(s)
  <2>1. PICK key \in run[s].todo :
            /\ threads' = [threads EXCEPT ![s] = @ \ {key}]
            /\ run' = [run EXCEPT ![s].todo = @ \ {key}]
      BY <1>5 DEF Reap
  <2>2. run' \in [Started -> RunStates]
      BY <1>1, <2>1 DEF RunStates
  <2>3. threads' \in [Started -> SUBSET Keys]
      BY <2>1
  <2> QED
      BY <1>5, <2>2, <2>3 DEF Reap, QueuesTypeOK
<1>6. CASE Reaped(s)
    BY <1>1, <1>6 DEF Reaped, RunStates, Waiting, QueuesTypeOK
<1> QED
    BY <1>2, <1>3, <1>4, <1>5, <1>6 DEF Run

\* A report is a report on the goroutine's key, of an integer.
LEMMA ReportReported ==
    ASSUME Types, NEW g \in Goroutines, Report(g)
    PROVE  /\ poller[g] \in Goroutine /\ poller[g].key \in Keys
           /\ Reported(poller[g].key)
<1>1. poller[g] \in Goroutine
    BY DEF Types, Report, At, Alive
<1>2. poller[g].key \in Keys
    BY <1>1 DEF Goroutine
<1>3. \E n \in Int : \/ updateMessage(poller[g].key, n)
                     \/ updateMessageSent(poller[g].key, n)
                     \/ updateIdleWorkers(poller[g].key, n)
    BY PollerAssumption DEF Report
<1> QED
    BY <1>1, <1>2, <1>3, ReportType DEF Types

\* Where a goroutine goes on, it stays the service's and the key's.
LEMMA Onward ==
    ASSUME Types, NEW g \in Goroutines, Check(g) \/ ListOne(g) \/ PollDone(g)
    PROVE  /\ poller[g] \in Goroutine
           /\ \/ poller' = [poller EXCEPT ![g] = NoSpec]
              \/ \E place \in {"check", "list", "poll"} :
                    poller' = [poller EXCEPT ![g] = [poller[g] EXCEPT !.at = place]]
BY DEF Types, Check, ListOne, PollDone, At, Alive

LEMMA TypesPollThread ==
    ASSUME Types, NEW g \in Goroutines, runPollThread(g)
    PROVE  Types'
<1>1. CASE Report(g)
    BY <1>1, ReportReported DEF Report, Reported, Types, QueuesTypeOK, pollVars, histVars
<1>2. CASE Check(g) \/ ListOne(g) \/ PollDone(g)
  <2>1. \A place \in {"check", "list", "poll"} : [poller[g] EXCEPT !.at = place] \in Goroutine
      BY <1>2, Onward DEF Goroutine
  <2>2. poller' \in [Goroutines -> Goroutine \cup {NoSpec}]
      BY <1>2, <2>1, Onward DEF Types
  <2> QED
      BY <1>2, <2>2 DEF Check, ListOne, PollDone, Types, QueuesTypeOK, histVars
<1> QED
    BY <1>1, <1>2 DEF runPollThread

LEMMA TypesNext == Types /\ [Next]_vars => Types'
<1> SUFFICES ASSUME Types, [Next]_vars PROVE Types'
    OBVIOUS
<1>1. CASE UNCHANGED vars
    BY <1>1 DEF vars, pollVars, histVars, Types, QueuesTypeOK
<1>2. CASE Next
    BY <1>2, TypesWorker, TypesRun, TypesPollThread DEF Next
<1> QED
    BY <1>1, <1>2

\* Whatever is registered, reported and removed, in whatever order, the registry
\* and the poller hold values of their types.
THEOREM TypeCorrect == Spec => []TypeOK
<1>1. Spec => []Types
    BY TypesInit, TypesNext, PTL DEF Spec
<1> QED
    BY <1>1, TypesTypeOK, PTL

-----------------------------------------------------------------------------
(* Who changes an entry                                                    *)

\* Only the send of an Add makes an entry or changes its URI, only Delete removes it;
\* a report, whenever it arrives, changes counts of the entry of its own queue, if
\* there is one.
THEOREM Registration == Spec => OnlyAddRegisters
<1> DEFINE Step == \A key \in Keys : item'[key] # item[key] =>
                      /\ Sent(key) \/ Deleted(key) \/ CountsReported(key)
                      /\ \A other \in Keys \ {key} : item'[other] = item[other]
<1>1. ASSUME Types, [Next]_vars, NEW key \in Keys, item'[key] # item[key]
      PROVE  /\ Sent(key) \/ Deleted(key) \/ CountsReported(key)
             /\ \A other \in Keys \ {key} : item'[other] = item[other]
  <2> DEFINE For == Sent(key) \/ Deleted(key) \/ CountsReported(key)
             Only == \A other \in Keys \ {key} : item'[other] = item[other]
  <2>1. /\ item \in [Keys -> QueueSpec \cup {NoSpec}]
        /\ call \in [Callers -> [key : Keys, spec : QueueSpec] \cup {Idle}]
        /\ removals \in [Keys -> 0 .. MaxRemovals]
      BY <1>1 DEF Types, QueuesTypeOK
  <2>2. ASSUME NEW c \in Callers, Worker(c) PROVE For /\ Only
    <3>1. CASE StartAdd(c)
        BY <1>1, <3>1 DEF StartAdd, AddList
    <3>2. CASE FinishAdd(c)
        BY <1>1, <2>1, <3>2 DEF FinishAdd, AddSend, Sent
    <3>3. CASE Remove(c)
      <4>1. PICK k \in Keys : Delete(c, k) /\ removals' = [removals EXCEPT ![k] = @ + 1]
          BY <3>3 DEF Remove
      <4>2. k = key
          BY <1>1, <2>1, <4>1 DEF Delete
      <4>3. item'[key] = NoSpec /\ Only
          BY <2>1, <4>1, <4>2 DEF Delete
      <4>4. removals'[key] = removals[key] + 1 /\ removals[key] \in Int
          BY <2>1, <4>1, <4>2, PollerAssumption
      <4> QED
          BY <4>3, <4>4 DEF Deleted
    <3> QED
        BY <2>2, <3>1, <3>2, <3>3 DEF Worker
  <2>3. ~ \E s \in Started : Run(s)
      BY <1>1 DEF Run, Tick, Spawn, Spawned, Reap, Reaped
  <2>4. ASSUME NEW g \in Goroutines, runPollThread(g) PROVE For /\ Only
    <3>1. Report(g)
        BY <1>1, <2>4 DEF runPollThread, Check, ListOne, PollDone
    <3>2. \E n \in Int : \/ updateMessage(poller[g].key, n)
                         \/ updateMessageSent(poller[g].key, n)
                         \/ updateIdleWorkers(poller[g].key, n)
        BY <3>1, PollerAssumption DEF Report
    <3>3. poller[g] \in Goroutine /\ poller[g].key \in Keys
        BY <1>1, <3>1, ReportReported
    <3>4. poller[g].key = key /\ Registered(key)
        BY <1>1, <3>2, <3>3, ReportCounts DEF Types
    <3>5. IsPolled(poller[g].service, key) /\ poller[g].service \in Started
        BY <3>1, <3>3, <3>4 DEF Report, Goroutine, IsPolled, Polls, At
    <3> QED
        BY <1>1, <3>2, <3>4, <3>5, ReportCounts DEF Types, CountsReported
  <2> QED
      BY <1>1, <2>2, <2>3, <2>4 DEF Next, vars
<1>2. Types /\ [Next]_vars => [Step]_vars
    BY <1>1
<1>3. Spec => []Types
    BY TypesInit, TypesNext, PTL DEF Spec
<1> QED
    BY <1>2, <1>3, PTL DEF Spec, OnlyAddRegisters

-----------------------------------------------------------------------------
(* One poll per queue                                                      *)

\* The service lists the key, and has listed it ever since it first did.
Stays(s, key) == key \notin left[s]

\* Why a service polls a queue that stays with one goroutine: the flag is set before
\* the goroutine is started, and is withdrawn only from queues that List did not
\* return.
Alone ==
    /\ \A s \in Started : \A key \in threads[s] : Stays(s, key) => key \in List(s)
    /\ \A s \in Started : run[s].at = "spawn" =>
          /\ \A key \in run[s].todo : Stays(s, key) => key \in List(s)
          /\ \A key \in threads[s] : Stays(s, key) => key \in run[s].queues
    /\ \A s \in Started : run[s].at = "reap" => \A key \in run[s].todo : ~Stays(s, key)
    /\ \A s \in Started : \A g \in Goroutines : \A key \in Keys :
          Polls(g, s, key) /\ Stays(s, key) => key \in threads[s]
    /\ \A s \in Started : \A g, h \in Goroutines : \A key \in Keys :
          Polls(g, s, key) /\ Polls(h, s, key) /\ Stays(s, key) => g = h

\* What Run has listed and not looked at yet is part of what it has listed.
Listed == \A s \in Started : run[s].at = "spawn" => run[s].todo \subseteq run[s].queues

LEMMA AloneInit == Init => Alone /\ Listed
BY DEF Init, QueuesInit, Waiting, Alone, Listed, Polls, Alive

\* A queue that stays after a step of the registry was there before, and is now.
LEMMA StaysListed ==
    ASSUME Types, Next, NEW s \in Started, NEW key \in Keys, Stays(s, key)'
    PROVE  Stays(s, key) /\ (key \in List(s) => key \in List(s)')
<1>1. ASSUME NEW c \in Callers, Worker(c)
      PROVE  NoteLeavers \/ UNCHANGED <<item, left>>
    BY <1>1 DEF Worker, StartAdd, FinishAdd, Remove, AddList, histVars
<1>2. ASSUME NEW t \in Started, Run(t) PROVE UNCHANGED <<item, left>>
    BY <1>2 DEF Run, Tick, Spawn, Spawned, Reap, Reaped, histVars
<1>3. ASSUME NEW g \in Goroutines, runPollThread(g)
      PROVE  UNCHANGED left /\ (key \in List(s) => key \in List(s)')
  <2>1. CASE Report(g)
      BY <2>1, ReportReported DEF Report, Reported, histVars, List, Registered
  <2>2. CASE Check(g) \/ ListOne(g) \/ PollDone(g)
      BY <2>2 DEF Check, ListOne, PollDone, histVars, List, Registered
  <2> QED
      BY <1>3, <2>1, <2>2 DEF runPollThread
<1>4. CASE NoteLeavers
    BY <1>4 DEF NoteLeavers, Stays
<1>5. CASE UNCHANGED <<item, left>>
    BY <1>5 DEF Stays, List, Registered
<1> QED
    BY <1>1, <1>2, <1>3, <1>4, <1>5 DEF Next, Stays

LEMMA AloneWorker ==
    ASSUME Types, Alone, Listed, Next, NEW c \in Callers, Worker(c)
    PROVE  Alone' /\ Listed'
<1>1. UNCHANGED <<threads, run, poller>>
    BY DEF Worker, StartAdd, FinishAdd, Remove, pollVars
<1>2. \A s \in Started : threads[s] \subseteq Keys /\ run[s].todo \subseteq Keys
    BY DEF Types, RunStates
<1> QED
    BY <1>1, <1>2, StaysListed DEF Alone, Listed, Polls, Alive

LEMMA AloneRun ==
    ASSUME Types, Alone, Listed, NEW s \in Started, Run(s)
    PROVE  Alone' /\ Listed'
<1>1. /\ run \in [Started -> RunStates]
      /\ threads \in [Started -> SUBSET Keys]
      /\ poller \in [Goroutines -> Goroutine \cup {NoSpec}]
      /\ UNCHANGED <<item, call, left>>
    BY DEF Types, Run, Tick, Spawn, Spawned, Reap, Reaped, histVars
<1>2. run[s] \in RunStates
    BY <1>1
<1>3. /\ \A t \in Started : \A key : Stays(t, key)' <=> Stays(t, key)
      /\ \A t \in Started : List(t)' = List(t)
    BY <1>1 DEF Stays, List, Registered
<1>4. CASE Tick(s)
  <2>1. /\ run'[s].at = "spawn" /\ run'[s].queues = List(s) /\ run'[s].todo = List(s)
        /\ UNCHANGED <<threads, poller>>
      BY <1>1, <1>4 DEF Tick
  <2>2. \A t \in Started : t # s => run'[t] = run[t]
      BY <1>1, <1>4 DEF Tick
  <2> QED
      BY <1>3, <2>1, <2>2 DEF Alone, Listed, Polls, Alive
<1>5. CASE Spawn(s)
  <2>1. PICK key \in run[s].todo :
            /\ run' = [run EXCEPT ![s].todo = @ \ {key}]
            /\ \/ UNCHANGED <<threads, poller>>
               \/ /\ key \notin threads[s]
                  /\ threads' = [threads EXCEPT ![s] = @ \cup {key}]
                  /\ \E g \in Goroutines :
                        /\ ~Alive(g)
                        /\ poller' = [poller EXCEPT ![g] = [at |-> "check", service |-> s,
                                                            key |-> key]]
      BY <1>5 DEF Spawn
  <2>2. run[s].at = "spawn" /\ key \in run[s].queues /\ key \in Keys
      BY <1>2, <1>5, <2>1 DEF Spawn, Listed, RunStates
  <2>3. \A t \in Started : /\ run'[t].queues = run[t].queues
                           /\ run'[t].at = run[t].at
                           /\ run'[t].todo \subseteq run[t].todo
      BY <1>1, <1>2, <2>1 DEF RunStates
  <2>4. CASE UNCHANGED <<threads, poller>>
      BY <1>3, <2>3, <2>4 DEF Alone, Listed, Polls, Alive
  <2>5. ASSUME NEW g \in Goroutines, ~Alive(g), key \notin threads[s],
               threads' = [threads EXCEPT ![s] = @ \cup {key}],
               poller' = [poller EXCEPT ![g] = [at |-> "check", service |-> s, key |-> key]]
        PROVE  Alone' /\ Listed'
    <3>1. \A t \in Started : /\ threads[t] \subseteq threads'[t]
                             /\ \A k \in threads'[t] : k \in threads[t] \/ (t = s /\ k = key)
        BY <1>1, <2>5
    <3>2. key \in threads'[s]
        BY <1>1, <2>5
    <3>3. \A h \in Goroutines, t \in Started, k \in Keys :
             Polls(h, t, k)' => IF h = g THEN t = s /\ k = key ELSE Polls(h, t, k)
        BY <1>1, <2>5 DEF Polls, Alive
    <3>4. \A t \in Started : \A k \in threads'[t] : Stays(t, k) => k \in List(t)
        BY <2>1, <2>2, <3>1 DEF Alone
    <3>5. \A t \in Started : run'[t].at = "spawn" =>
             /\ \A k \in run'[t].todo : Stays(t, k) => k \in List(t)
             /\ \A k \in threads'[t] : Stays(t, k) => k \in run'[t].queues
        BY <2>2, <2>3, <3>1 DEF Alone
    <3>6. \A t \in Started : run'[t].at = "reap" => \A k \in run'[t].todo : ~Stays(t, k)
        BY <2>3 DEF Alone
    <3>7. \A t \in Started : \A h \in Goroutines : \A k \in Keys :
             Polls(h, t, k)' /\ Stays(t, k) => k \in threads'[t]
        BY <3>1, <3>2, <3>3 DEF Alone
    <3>8. \A h \in Goroutines : ~(Polls(h, s, key) /\ Stays(s, key))
        BY <2>2, <2>5 DEF Alone
    <3>9. \A t \in Started : \A h, i \in Goroutines : \A k \in Keys :
             Polls(h, t, k)' /\ Polls(i, t, k)' /\ Stays(t, k) => h = i
        BY <3>3, <3>8 DEF Alone
    <3>10. Listed'
        BY <2>3 DEF Listed
    <3> QED
        BY <1>3, <3>4, <3>5, <3>6, <3>7, <3>9, <3>10 DEF Alone
  <2> QED
      BY <2>1, <2>4, <2>5
<1>6. CASE Spawned(s)
  <2>1. /\ run'[s].at = "reap" /\ run[s].at = "spawn"
        /\ run'[s].todo = threads[s] \ run[s].queues
        /\ UNCHANGED <<threads, poller>>
      BY <1>1, <1>2, <1>6 DEF Spawned, RunStates
  <2>2. \A t \in Started : t # s => run'[t] = run[t]
      BY <1>1, <1>6 DEF Spawned
  <2> QED
      BY <1>3, <2>1, <2>2 DEF Alone, Listed, Polls, Alive
<1>7. CASE Reap(s)
  <2>1. PICK key \in run[s].todo :
            /\ threads' = [threads EXCEPT ![s] = @ \ {key}]
            /\ run' = [run EXCEPT ![s].todo = @ \ {key}]
      BY <1>7 DEF Reap
  <2>2. \A t \in Started : /\ run'[t].queues = run[t].queues
                           /\ run'[t].at = run[t].at
                           /\ run'[t].todo \subseteq run[t].todo
                           /\ threads'[t] \subseteq threads[t]
                           /\ \A k \in threads[t] : k \in threads'[t] \/ (t = s /\ k = key)
      BY <1>1, <1>2, <2>1 DEF RunStates
  <2>3. UNCHANGED poller /\ ~Stays(s, key)
      BY <1>7, <2>1 DEF Reap, Alone
  <2>4. \A t \in Started : \A g \in Goroutines : \A k \in Keys :
           Polls(g, t, k)' /\ Stays(t, k) => k \in threads'[t]
      BY <2>2, <2>3 DEF Alone, Polls, Alive
  <2> QED
      BY <1>3, <2>2, <2>3, <2>4 DEF Alone, Listed, Polls, Alive
<1>8. CASE Reaped(s)
  <2>1. \A t \in Started : run'[t] = run[t] \/ run'[t] = Waiting
      BY <1>1, <1>8 DEF Reaped
  <2> QED
      BY <1>1, <1>3, <1>8, <2>1 DEF Reaped, Waiting, Alone, Listed, Polls, Alive
<1> QED
    BY <1>4, <1>5, <1>6, <1>7, <1>8 DEF Run

\* A goroutine's steps leave the flags alone, and no other goroutine appears.
LEMMA NoneAppears ==
    ASSUME Types, NEW g \in Goroutines, runPollThread(g)
    PROVE  \A h \in Goroutines, s \in Started, key \in Keys :
              Polls(h, s, key)' => Polls(h, s, key)
<1>1. CASE Report(g)
    BY <1>1 DEF Report, pollVars, Polls, Alive
<1>2. CASE Check(g) \/ ListOne(g) \/ PollDone(g)
  <2>1. /\ poller \in [Goroutines -> Goroutine \cup {NoSpec}]
        /\ poller[g] \in Goroutine /\ poller[g] # NoSpec
      BY <1>2, Onward DEF Types, Check, ListOne, PollDone, At, Alive
  <2>2. \/ poller' = [poller EXCEPT ![g] = NoSpec]
        \/ \E place \in {"check", "list", "poll"} :
              poller' = [poller EXCEPT ![g] = [poller[g] EXCEPT !.at = place]]
      BY <1>2, Onward
  <2>3. \/ poller'[g] = NoSpec
        \/ poller'[g].service = poller[g].service /\ poller'[g].key = poller[g].key
      BY <2>1, <2>2 DEF Goroutine
  <2>4. \A h \in Goroutines : h # g => poller'[h] = poller[h]
      BY <2>1, <2>2
  <2> QED
      BY <2>1, <2>3, <2>4 DEF Polls, Alive
<1> QED
    BY <1>1, <1>2 DEF runPollThread

LEMMA AlonePollThread ==
    ASSUME Types, Alone, Listed, Next, NEW g \in Goroutines, runPollThread(g)
    PROVE  Alone' /\ Listed'
<1>1. UNCHANGED <<threads, run>>
    BY DEF runPollThread, Check, ListOne, Report, PollDone, pollVars
<1>2. \A s \in Started : threads[s] \subseteq Keys /\ run[s].todo \subseteq Keys
    BY DEF Types, RunStates
<1> QED
    BY <1>1, <1>2, NoneAppears, StaysListed DEF Alone, Listed

LEMMA AloneNext == Types /\ Alone /\ Listed /\ [Next]_vars => Alone' /\ Listed'
<1> SUFFICES ASSUME Types, Alone, Listed, [Next]_vars PROVE Alone' /\ Listed'
    OBVIOUS
<1>1. CASE UNCHANGED vars
    BY <1>1
       DEF vars, pollVars, histVars, Alone, Listed, Stays, List, Registered, Polls, Alive
<1>2. CASE Next
    BY <1>2, AloneWorker, AloneRun, AlonePollThread DEF Next
<1> QED
    BY <1>1, <1>2

\* However Adds, moves between services, ticks and goroutines interleave, a service
\* never has two polls of a queue under way that has not left it.
THEOREM OnePoll == Spec => []OnePollUntilGone
<1>1. Alone => OnePollUntilGone
    BY DEF Alone, OnePollUntilGone, PollsAlone, Stays
<1>2. Spec => [](Types /\ Alone /\ Listed)
    BY TypesInit, TypesNext, AloneInit, AloneNext, PTL DEF Spec
<1> QED
    BY <1>1, <1>2, PTL

-----------------------------------------------------------------------------
(* Every flag has its goroutine                                            *)

\* The key was never taken out of the registry.
Kept(key) == removals[key] = 0

\* A kept queue that is registered stays registered.
LEMMA KeptStays ==
    ASSUME Types, Next, NEW key \in Keys, Kept(key)'
    PROVE  Kept(key) /\ (Registered(key) => Registered(key)')
<1>1. /\ item \in [Keys -> QueueSpec \cup {NoSpec}]
      /\ call \in [Callers -> [key : Keys, spec : QueueSpec] \cup {Idle}]
      /\ removals \in [Keys -> 0 .. MaxRemovals]
    BY DEF Types, QueuesTypeOK
<1>2. ASSUME NEW c \in Callers, Worker(c) PROVE Kept(key) /\ (Registered(key) => Registered(key)')
  <2>1. CASE StartAdd(c)
      BY <2>1 DEF StartAdd, AddList, Kept, Registered, histVars
  <2>2. CASE FinishAdd(c)
      BY <1>1, <2>2, NoEntryAssumption DEF FinishAdd, AddSend, Kept, Registered
  <2>3. CASE Remove(c)
    <3>1. PICK k \in Keys : Delete(c, k) /\ removals' = [removals EXCEPT ![k] = @ + 1]
        BY <2>3 DEF Remove
    <3>2. k # key
        BY <1>1, <3>1 DEF Kept
    <3> QED
        BY <1>1, <3>1, <3>2 DEF Delete, Kept, Registered
  <2> QED
      BY <1>2, <2>1, <2>2, <2>3 DEF Worker
<1>3. ASSUME NEW s \in Started, Run(s) PROVE Kept(key) /\ (Registered(key) => Registered(key)')
    BY <1>3 DEF Run, Tick, Spawn, Spawned, Reap, Reaped, Kept, Registered, histVars
<1>4. ASSUME NEW g \in Goroutines, runPollThread(g) PROVE Kept(key) /\ (Registered(key) => Registered(key)')
  <2>1. CASE Report(g)
      BY <2>1, ReportReported DEF Report, Reported, Kept, Registered, histVars
  <2>2. CASE Check(g) \/ ListOne(g) \/ PollDone(g)
      BY <2>2 DEF Check, ListOne, PollDone, Kept, Registered, histVars
  <2> QED
      BY <1>4, <2>1, <2>2 DEF runPollThread
<1> QED
    BY <1>2, <1>3, <1>4 DEF Next

LEMMA NoSpecIsNoGoroutine == NoSpec \notin Goroutine
BY NoGoroutineAssumption DEF Goroutine

\* A flag, and what Run has listed, is of a queue that is there, if it is kept: so a
\* goroutine that lists it does not end.
Flags ==
    /\ \A s \in Started : \A key \in threads[s] : Kept(key) => Registered(key)
    /\ \A s \in Started : run[s].at = "spawn" =>
          \A key \in run[s].todo : Kept(key) => Registered(key)
    /\ FlagHasGoroutine

LEMMA FlagsInit == Init => Flags
BY DEF Init, QueuesInit, Waiting, Flags, FlagHasGoroutine

LEMMA FlagsWorker ==
    ASSUME Types, Flags, Next, NEW c \in Callers, Worker(c)
    PROVE  Flags'
<1>1. UNCHANGED <<threads, run, poller>>
    BY DEF Worker, StartAdd, FinishAdd, Remove, pollVars
<1>2. \A s \in Started : threads[s] \subseteq Keys /\ run[s].todo \subseteq Keys
    BY DEF Types, RunStates
<1>3. \A key \in Keys : Kept(key)' => Kept(key) /\ (Registered(key) => Registered(key)')
    BY KeptStays
<1>4. FlagHasGoroutine'
  <2> SUFFICES ASSUME NEW s \in Started, NEW key \in threads[s], Kept(key)'
               PROVE  \E g \in Goroutines : Polls(g, s, key)
      BY <1>1 DEF FlagHasGoroutine, Polls, Alive, Kept
  <2> QED
      BY <1>2, <1>3 DEF Flags, FlagHasGoroutine, Kept
<1> QED
    BY <1>1, <1>2, <1>3, <1>4 DEF Flags

LEMMA FlagsRun ==
    ASSUME Types, Flags, NEW s \in Started, Run(s)
    PROVE  Flags'
<1>1. /\ run \in [Started -> RunStates]
      /\ threads \in [Started -> SUBSET Keys]
      /\ poller \in [Goroutines -> Goroutine \cup {NoSpec}]
      /\ UNCHANGED <<item, call, removals>>
    BY DEF Types, Run, Tick, Spawn, Spawned, Reap, Reaped, histVars
<1>2. ASSUME \A t \in Started : threads'[t] \subseteq threads[t], UNCHANGED poller
      PROVE  FlagHasGoroutine'
    BY <1>1, <1>2 DEF Flags, FlagHasGoroutine, Polls, Alive
<1>3. CASE Tick(s)
  <2>1. /\ \A t \in Started : t # s => run'[t] = run[t]
        /\ run'[s].todo = List(s) /\ UNCHANGED <<threads, poller>>
      BY <1>1, <1>3 DEF Tick
  <2>2. \A key \in List(s) : Registered(key)
      BY DEF List
  <2> QED
      BY <1>1, <1>2, <2>1, <2>2 DEF Flags, Kept, Registered
<1>4. CASE Spawn(s)
  <2>1. PICK key \in run[s].todo :
            /\ run' = [run EXCEPT ![s].todo = @ \ {key}]
            /\ \/ UNCHANGED <<threads, poller>>
               \/ /\ threads' = [threads EXCEPT ![s] = @ \cup {key}]
                  /\ \E g \in Goroutines :
                        /\ ~Alive(g)
                        /\ poller' = [poller EXCEPT ![g] = [at |-> "check", service |-> s,
                                                            key |-> key]]
      BY <1>4 DEF Spawn
  <2>2. /\ run[s].at = "spawn" /\ key \in Keys
        /\ \A t \in Started : run'[t].at = run[t].at /\ run'[t].todo \subseteq run[t].todo
      BY <1>1, <1>4, <2>1 DEF Spawn, RunStates
  <2>3. \A t \in Started : run'[t].at = "spawn" =>
           \A k \in run'[t].todo : Kept(k)' => Registered(k)'
      BY <1>1, <2>2 DEF Flags, Kept, Registered
  <2>4. CASE UNCHANGED <<threads, poller>>
      BY <1>1, <1>2, <2>3, <2>4 DEF Flags, Kept, Registered
  <2>5. ASSUME NEW g \in Goroutines, ~Alive(g),
               threads' = [threads EXCEPT ![s] = @ \cup {key}],
               poller' = [poller EXCEPT ![g] = [at |-> "check", service |-> s, key |-> key]]
        PROVE  Flags'
    <3>1. \A t \in Started : \A k \in threads'[t] : k \in threads[t] \/ (t = s /\ k = key)
        BY <1>1, <2>5
    <3>2. \A t \in Started : \A k \in threads'[t] : Kept(k)' => Registered(k)'
        BY <1>1, <2>1, <2>2, <3>1 DEF Flags, Kept, Registered
    <3>3. \A h \in Goroutines : Alive(h) => poller'[h] = poller[h]
        BY <1>1, <2>5
    <3>4. Polls(g, s, key)'
      <4>1. [at |-> "check", service |-> s, key |-> key] \in Goroutine
          BY <2>2 DEF Goroutine
      <4>2. [at |-> "check", service |-> s, key |-> key] # NoSpec
          BY <4>1, NoSpecIsNoGoroutine
      <4> QED
          BY <1>1, <2>5, <4>2 DEF Polls, Alive
    <3>5. ASSUME NEW t \in Started, NEW k \in threads'[t], removals[k] = 0
          PROVE  \E h \in Goroutines : Polls(h, t, k)'
      <4>1. CASE t = s /\ k = key
          BY <3>4, <4>1
      <4>2. CASE k \in threads[t]
          BY <3>3, <3>5, <4>2 DEF Flags, FlagHasGoroutine, Polls, Alive
      <4> QED
          BY <3>1, <4>1, <4>2
    <3>6. FlagHasGoroutine'
        BY <1>1, <3>5 DEF FlagHasGoroutine
    <3> QED
        BY <2>3, <3>2, <3>6 DEF Flags
  <2> QED
      BY <2>1, <2>4, <2>5
<1>5. CASE Spawned(s)
  <2>1. /\ run'[s].at = "reap" /\ UNCHANGED <<threads, poller>>
        /\ \A t \in Started : t # s => run'[t] = run[t]
      BY <1>1, <1>5 DEF Spawned, RunStates
  <2> QED
      BY <1>1, <1>2, <2>1 DEF Flags, Kept, Registered
<1>6. CASE Reap(s)
  <2>1. /\ \A t \in Started : /\ threads'[t] \subseteq threads[t]
                              /\ run'[t].at = run[t].at
                              /\ run'[t].todo \subseteq run[t].todo
        /\ UNCHANGED poller
      BY <1>1, <1>6 DEF Reap, RunStates
  <2> QED
      BY <1>1, <1>2, <2>1 DEF Flags, Kept, Registered
<1>7. CASE Reaped(s)
  <2>1. /\ \A t \in Started : run'[t] \in {run[t], Waiting}
        /\ UNCHANGED <<threads, poller>>
      BY <1>1, <1>7 DEF Reaped
  <2> QED
      BY <1>1, <1>2, <2>1 DEF Waiting, Flags, Kept, Registered
<1> QED
    BY <1>3, <1>4, <1>5, <1>6, <1>7 DEF Run

\* A goroutine that ends has found its flag or its queue gone.
LEMMA FlagsPollThread ==
    ASSUME Types, Flags, NEW g \in Goroutines, runPollThread(g)
    PROVE  Flags'
<1>1. /\ poller \in [Goroutines -> Goroutine \cup {NoSpec}]
      /\ UNCHANGED <<threads, run, removals>>
    BY DEF Types, runPollThread, Check, ListOne, Report, PollDone, pollVars, histVars
<1>2. \A key \in Keys : Registered(key) => Registered(key)'
    BY ReportReported
       DEF runPollThread, Check, ListOne, Report, PollDone, Reported, Registered
<1>3. \A s \in Started : threads[s] \subseteq Keys /\ run[s].todo \subseteq Keys
    BY DEF Types, RunStates
<1>4. ASSUME NEW s \in Started, NEW key \in threads[s], Registered(key),
             NEW h \in Goroutines, Polls(h, s, key)
      PROVE  Polls(h, s, key)'
  <2>1. CASE Report(g)
      BY <1>4, <2>1 DEF Report, pollVars, Polls, Alive
  <2>2. CASE h # g
      BY <1>1, <1>4, <2>2
         DEF runPollThread, Check, ListOne, Report, PollDone, pollVars, Polls, Alive
  <2>3. CASE h = g /\ (Check(g) \/ ListOne(g) \/ PollDone(g))
    <3>1. poller[g] \in Goroutine /\ poller[g].service = s /\ poller[g].key = key
        BY <1>4, <2>3, Onward DEF Polls
    <3>2. \E place \in {"check", "list", "poll"} :
             poller'[g] = [poller[g] EXCEPT !.at = place]
        BY <1>1, <1>4, <2>3, <3>1 DEF Check, ListOne, PollDone
    <3>3. /\ poller'[g] \in Goroutine
          /\ poller'[g].service = s /\ poller'[g].key = key
        BY <3>1, <3>2 DEF Goroutine
    <3> QED
        BY <2>3, <3>3, NoSpecIsNoGoroutine DEF Polls, Alive
  <2> QED
      BY <2>1, <2>2, <2>3 DEF runPollThread
<1>5. ASSUME NEW s \in Started, NEW key \in threads[s], removals[key] = 0
      PROVE  \E h \in Goroutines : Polls(h, s, key)'
  <2>1. PICK h \in Goroutines : Polls(h, s, key)
      BY <1>5 DEF Flags, FlagHasGoroutine
  <2>2. Registered(key)
      BY <1>5 DEF Flags, Kept
  <2> QED
      BY <1>4, <2>1, <2>2
<1>6. FlagHasGoroutine'
    BY <1>1, <1>5 DEF FlagHasGoroutine
<1> QED
    BY <1>1, <1>2, <1>3, <1>6 DEF Flags, Kept

LEMMA FlagsNext == Types /\ Flags /\ [Next]_vars => Flags'
<1> SUFFICES ASSUME Types, Flags, [Next]_vars PROVE Flags'
    OBVIOUS
<1>1. CASE UNCHANGED vars
    BY <1>1 DEF vars, pollVars, histVars, Flags, FlagHasGoroutine, Kept, Registered,
                Polls, Alive
<1>2. CASE Next
    BY <1>2, FlagsWorker, FlagsRun, FlagsPollThread DEF Next
<1> QED
    BY <1>1, <1>2

\* A queue that has its flag and was never taken out of the registry has its
\* goroutine, for any number of keys, services and callers, whatever moves its URI:
\* with OnePoll, exactly one, and the flag that keeps Run from starting another
\* keeps it polled.
THEOREM FlagKept == Spec => []FlagHasGoroutine
<1>1. Spec => [](Types /\ Flags)
    BY TypesInit, TypesNext, FlagsInit, FlagsNext, PTL DEF Spec
<1> QED
    BY <1>1, PTL DEF Flags

=============================================================================
