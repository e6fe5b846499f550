----------------------------- MODULE Poller -----------------------------
(***************************************************************************)
(* The pollers (pkg/queue/poller.go): per queue service a Run loop that    *)
(* starts a poll goroutine for every registered queue of its service and   *)
(* withdraws the flag of those that are gone, and the goroutines, which    *)
(* check their flag, list their queue and poll it.  Only Run writes the    *)
(* threads map, so one iteration of its loops is one step here.  The       *)
(* registry's entries come and go by the calls of the controller's         *)
(* workers; what a poll reports is left open (SQS and beanstalk differ).   *)
(***************************************************************************)
EXTENDS Queues

CONSTANTS
    Started,          \* the services with a poller (--queue-services)
    Goroutines,       \* bound on the poll goroutines alive at once
    UrisOf,           \* per key, the URIs its spec may hold
    MessageCounts,    \* the counts a poll may report
    SentRates,        \* the rates a poll may report
    IdleCounts,       \* the idle workers a poll may report
    MaxRemovals       \* bound: a key is left alone after this many removals

ASSUME PollerAssumption ==
    /\ Started \subseteq Services
    /\ UrisOf \in [Keys -> SUBSET Uris]
    /\ MessageCounts \cup SentRates \cup IdleCounts \subseteq Int
    /\ MaxRemovals \in Nat

\* NoSpec also stands for a goroutine that was not started: none that runs is taken for it.
ASSUME NoGoroutineAssumption ==
    NoSpec \notin [at : {"check", "list", "poll"}, service : Started, key : Keys]

VARIABLES
    threads,       \* per service, the keys whose flag is true
    run,           \* per service, where the Run loop is: its queues and what is left
    poller,        \* the goroutines: [at, service, key], or NoSpec: not started
    removals,      \* history, per key: how often it was removed from the registry
    left           \* history, per service: the queues removed or moved to another

pollVars == <<threads, run, poller>>
histVars == <<removals, left>>
vars == <<item, call, pollVars, histVars>>

RunStates == [at : {"wait", "spawn", "reap"}, queues : SUBSET Keys, todo : SUBSET Keys]

Waiting == [at |-> "wait", queues |-> {}, todo |-> {}]

Alive(g) == poller[g] # NoSpec

TypeOK ==
    /\ QueuesTypeOK
    /\ threads \in [Started -> SUBSET Keys]
    /\ run \in [Started -> RunStates]
    /\ \A g \in Goroutines : Alive(g) =>
          poller[g] \in [at : {"check", "list", "poll"}, service : Started, key : Keys]
    /\ removals \in [Keys -> 0 .. MaxRemovals]
    /\ left \in [Started -> SUBSET Keys]

Init ==
    /\ QueuesInit
    /\ threads = [s \in Started |-> {}]
    /\ run = [s \in Started |-> Waiting]
    /\ poller = [g \in Goroutines |-> NoSpec]
    /\ removals = [k \in Keys |-> 0]
    /\ left = [s \in Started |-> {}]

-----------------------------------------------------------------------------
(* The controller's workers, for whatever reason they call.                *)

\* History: what a service lists now and will not list after this step.
NoteLeavers == left' = [s \in Started |-> left[s] \cup (List(s) \ List(s)')]

StartAdd(c) ==
    /\ \E key \in Keys : \E uri \in UrisOf[key] :
          /\ removals[key] < MaxRemovals
          /\ AddList(c, key, uri, 0, 0)
    /\ UNCHANGED <<pollVars, histVars>>

FinishAdd(c) ==
    /\ AddSend(c)
    /\ NoteLeavers
    /\ UNCHANGED <<pollVars, removals>>

Remove(c) ==
    /\ \E key \in Keys :
          /\ removals[key] < MaxRemovals
          /\ Registered(key)
          /\ Delete(c, key)
          /\ removals' = [removals EXCEPT ![key] = @ + 1]
    /\ NoteLeavers
    /\ UNCHANGED pollVars

Worker(c) == StartAdd(c) \/ FinishAdd(c) \/ Remove(c)

-----------------------------------------------------------------------------
(* Run                                                                     *)

\* The ticker fires; List(service).
Tick(s) ==
    /\ run[s].at = "wait"
    /\ run' = [run EXCEPT ![s] = [at |-> "spawn", queues |-> List(s), todo |-> List(s)]]
    /\ UNCHANGED <<item, call, threads, poller, histVars>>

\* A bug the runs look for: the flag is not looked at.
SpawnAlways(s) ==
    /\ run[s].at = "spawn"
    /\ \E key \in run[s].todo, g \in Goroutines :
          /\ ~Alive(g)
          /\ run' = [run EXCEPT ![s].todo = @ \ {key}]
          /\ threads' = [threads EXCEPT ![s] = @ \cup {key}]
          /\ poller' = [poller EXCEPT ![g] = [at |-> "check", service |-> s, key |-> key]]
    /\ UNCHANGED <<item, call, histVars>>

\* A queue without a flag gets the flag and a goroutine.
Spawn(s) ==
    /\ run[s].at = "spawn"
    /\ \E key \in run[s].todo :
          /\ run' = [run EXCEPT ![s].todo = @ \ {key}]
          /\ IF key \in threads[s]
             THEN UNCHANGED <<threads, poller>>
             ELSE /\ threads' = [threads EXCEPT ![s] = @ \cup {key}]
                  /\ \E g \in Goroutines :
                        /\ ~Alive(g)
                        /\ poller' = [poller EXCEPT ![g] = [at |-> "check", service |-> s,
                                                            key |-> key]]
    /\ UNCHANGED <<item, call, histVars>>

\* A bug the runs look for: no flag is ever withdrawn.
SpawnedNoReap(s) ==
    /\ run[s].at = "spawn"
    /\ run[s].todo = {}
    /\ run' = [run EXCEPT ![s] = Waiting]
    /\ UNCHANGED <<item, call, threads, poller, histVars>>

\* After the last queue: listThreads, to see which flags to withdraw.
Spawned(s) ==
    /\ run[s].at = "spawn"
    /\ run[s].todo = {}
    /\ run' = [run EXCEPT ![s] = [at |-> "reap", queues |-> {},
                                  todo |-> threads[s] \ run[s].queues]]
    /\ UNCHANGED <<item, call, threads, poller, histVars>>

Reap(s) ==
    /\ run[s].at = "reap"
    /\ \E key \in run[s].todo :
          /\ threads' = [threads EXCEPT ![s] = @ \ {key}]
          /\ run' = [run EXCEPT ![s].todo = @ \ {key}]
    /\ UNCHANGED <<item, call, poller, histVars>>

Reaped(s) ==
    /\ run[s].at = "reap"
    /\ run[s].todo = {}
    /\ run' = [run EXCEPT ![s] = Waiting]
    /\ UNCHANGED <<item, call, threads, poller, histVars>>

Run(s) == Tick(s) \/ Spawn(s) \/ Spawned(s) \/ Reap(s) \/ Reaped(s)

-----------------------------------------------------------------------------
(* runPollThread                                                           *)

At(g, place) == Alive(g) /\ poller[g].at = place

\* isThreadRequired: the goroutine ends when its flag is gone.
Check(g) ==
    /\ At(g, "check")
    /\ poller' = [poller EXCEPT ![g] =
                     IF @.key \in threads[@.service] THEN [@ EXCEPT !.at = "list"] ELSE NoSpec]
    /\ UNCHANGED <<item, call, threads, run, histVars>>

\* ListQueue: it also ends, its flag untouched, when the queue is gone.
ListOne(g) ==
    /\ At(g, "list")
    /\ poller' = [poller EXCEPT ![g] =
                     IF Registered(@.key) THEN [@ EXCEPT !.at = "poll"] ELSE NoSpec]
    /\ UNCHANGED <<item, call, threads, run, histVars>>

\* queueService.poll reports what it finds, whatever the entry is of by now, or fails.
Report(g) ==
    /\ At(g, "poll")
    /\ LET key == poller[g].key
       IN  \/ \E n \in MessageCounts : updateMessage(key, n)
           \/ \E n \in SentRates : updateMessageSent(key, n)
           \/ \E n \in IdleCounts : updateIdleWorkers(key, n)
    /\ UNCHANGED <<pollVars, histVars>>

\* A bug the runs look for: the goroutine polls once and ends.
PollOnce(g) ==
    /\ At(g, "poll")
    /\ poller' = [poller EXCEPT ![g] = NoSpec]
    /\ UNCHANGED <<item, call, threads, run, histVars>>

PollDone(g) ==
    /\ At(g, "poll")
    /\ poller' = [poller EXCEPT ![g] = [@ EXCEPT !.at = "check"]]
    /\ UNCHANGED <<item, call, threads, run, histVars>>

runPollThread(g) == Check(g) \/ ListOne(g) \/ Report(g) \/ PollDone(g)

-----------------------------------------------------------------------------

Next ==
    \/ \E c \in Callers : Worker(c)
    \/ \E s \in Started : Run(s)
    \/ \E g \in Goroutines : runPollThread(g)

\* Goroutines are scheduled, tickers fire, a poll returns (its calls have
\* timeouts).  Nobody has to register or remove a queue, but an Add ends.
Fairness ==
    /\ \A c \in Callers : WF_vars(FinishAdd(c))
    /\ \A s \in Started : WF_vars(Run(s))
    /\ \A g \in Goroutines : WF_vars(Check(g) \/ ListOne(g) \/ PollDone(g))

Spec == Init /\ [][Next]_vars /\ Fairness

-----------------------------------------------------------------------------

Polls(g, s, key) == Alive(g) /\ poller[g].service = s /\ poller[g].key = key

PollsAlone(s, key) ==
    \A g, h \in Goroutines :
        /\ At(g, "poll") /\ Polls(g, s, key)
        /\ At(h, "poll") /\ Polls(h, s, key)
        => g = h

IsPolled(s, key) == \E g \in Goroutines : At(g, "poll") /\ Polls(g, s, key)

\* run.go:73 "the duration (in seconds) after which the next sqs api call is
\* made": the calls on a queue are one goroutine's, so a service never has two
\* polls of a queue under way, at least until it is removed from the registry or
\* moves to another service.
OnePollUntilGone ==
    \A s \in Started, key \in Keys : key \notin left[s] => PollsAlone(s, key)

\* controller.go:438 "q not initialized, waiting for init to complete": a queue
\* that stays registered is polled, over and over.
RegisteredIsPolled ==
    \A s \in Started, key \in Keys : <>[](key \in List(s)) => []<>IsPolled(s, key)

\* The same for a queue that was never taken out of the registry, whatever services
\* it moved between before it came to stay with this one.
PolledUntilRemoved ==
    \A s \in Started, key \in Keys :
        <>[](key \in List(s) /\ removals[key] = 0) => []<>IsPolled(s, key)

\* Run starts nothing for a queue that has its flag: one that nobody polls is not
\* polled again.  Of a queue never taken out of the registry every flag has its
\* goroutine, whatever Adds move its URI, and however the goroutine's own checks
\* and its service's ticks fall.
FlagHasGoroutine ==
    \A s \in Started : \A key \in threads[s] :
        removals[key] = 0 => \E g \in Goroutines : Polls(g, s, key)

\* A service that a queue has left for good, because it was removed or because it
\* moved, ends with no flag and no goroutine for it: no poll outlives its queue by
\* more than the one in flight.
GoneIsNotPolled ==
    \A s \in Started, key \in Keys :
        <>[](key \notin List(s)) =>
            <>[](key \notin threads[s] /\ \A g \in Goroutines : ~Polls(g, s, key))

Sent(key) ==
    \E c \in Callers : /\ call[c] # Idle /\ call[c].key = key
                       /\ item'[key] = call[c].spec /\ call'[c] = Idle

Deleted(key) == item'[key] = NoSpec /\ removals'[key] # removals[key]

\* A goroutine that polls the queue reports on an entry that is there.
CountsReported(key) ==
    /\ Registered(key) /\ item'[key] # NoSpec
    /\ \E s \in Started : IsPolled(s, key)
    /\ item'[key] = [item[key] EXCEPT !.messages = item'[key].messages,
                                     !.sent = item'[key].sent, !.idle = item'[key].idle]

\* Late reports never bring a queue back, and never touch another or what its entry
\* says besides the counts: only the send of an Add registers a queue or changes its
\* URI, only Delete removes it, and each step is about one key.
OnlyAddRegisters ==
    [][\A key \in Keys : item'[key] # item[key] =>
          /\ Sent(key) \/ Deleted(key) \/ CountsReported(key)
          /\ \A other \in Keys \ {key} : item'[other] = item[other]]_vars

=============================================================================
