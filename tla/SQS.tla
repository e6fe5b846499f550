------------------------------ MODULE SQS ------------------------------
(***************************************************************************)
(* The poll of an SQS queue (pkg/queue/sqs.go): a long poll for the first  *)
(* message when nothing runs, otherwise the rate, the visible and the      *)
(* invisible messages, and whether the workers are idle; every call to AWS *)
(* is a step that may fail, every report to the registry is one of its     *)
(* own.  What CloudWatch answers is of minutes ago, and has nothing to do  *)
(* with the messages there are; it is asked at most once a minute.         *)
(***************************************************************************)
EXTENDS Service

CONSTANTS
    Configured,   \* URIs in the regions of --aws-regions
    SentRates     \* messages sent per minute, as CloudWatch averages them

ASSUME SQSAssumption ==
    /\ Configured \subseteq Uris
    /\ SentRates \subseteq Nat

VARIABLES
    cache       \* per URI, messages received, if the answer is younger than a minute

\* No answer, or one older than a minute.
Stale == -1

vars == <<item, call, loopVars, message, poll, cache>>

AtRest == [at |-> "list", uri |-> NoSpec, workers |-> 0, waited |-> {}, lived |-> {},
           visible |-> 0, invisible |-> 0]

PollPlaces == {"list", "unidle", "receive", "found", "sent", "visible", "invisible",
               "report", "busy", "silence"}

Poll == [at : PollPlaces, uri : Uris \cup {NoSpec}, workers : Int,
         waited : SUBSET Messages, lived : SUBSET Messages, visible : Nat, invisible : Nat]

TypeOK ==
    /\ ServiceTypeOK
    /\ poll \in [Keys -> Poll]
    /\ cache \in [Uris -> {0, 1, Stale}]

Init ==
    /\ ServiceInit
    /\ poll = [k \in Keys |-> AtRest]
    /\ cache = [u \in Uris |-> Stale]

-----------------------------------------------------------------------------
(* The long poll                                                           *)

LongPolls(spec) == spec.workers = 0 /\ spec.messages = 0 /\ spec.sent = 0

\* runPollThread lists the queue and calls poll with the copy.
ListOne(k) ==
    /\ At(k, "list")
    /\ Registered(k)
    /\ LET spec  == item[k]
           place == CASE LongPolls(spec)                       -> "unidle"
                      [] ~LongPolls(spec) /\ spec.seconds # 0 -> "sent"
                      [] OTHER                                 -> "visible"
       IN  poll' = [poll EXCEPT ![k] =
                       [AtRest EXCEPT !.at = place, !.uri = spec.uri, !.workers = spec.workers,
                                      !.waited = IF LongPolls(spec) THEN Visible ELSE {},
                                      !.lived = IF LongPolls(spec) THEN {} ELSE InQueue]]
    /\ UNCHANGED <<item, call, loopVars, message, cache>>

\* getSQSClient and getCWClient find a client for the region.
Reachable(k) == poll[k].uri \in Configured

\* Before a long poll, and when messages are visible.
Unidle(k) ==
    /\ At(k, "unidle") \/ At(k, "busy")
    /\ updateIdleWorkers(k, -1)
    /\ poll' = [poll EXCEPT ![k] = IF At(k, "busy") THEN AtRest ELSE [@ EXCEPT !.at = "receive"]]
    /\ UNCHANGED <<loopVars, message, cache>>

\* The message stays visible: VisibilityTimeout is 0.
longPollReceiveMessage(k) ==
    /\ At(k, "receive") /\ Reachable(k)
    /\ poll' = [poll EXCEPT ![k] = [@ EXCEPT !.at = "found",
                                             !.visible = IF Visible = {} THEN 0 ELSE 1]]
    /\ UNCHANGED <<item, call, loopVars, message, cache>>

\* A bug the runs look for: what the long poll finds is not reported.
ReportShortOnly(k) ==
    /\ At(k, "report") \/ At(k, "found")
    /\ LET p == poll[k]
           GoOn(place) == [AtRest EXCEPT !.at = place, !.uri = p.uri, !.workers = p.workers]
       IN  /\ IF p.at = "report" THEN updateMessage(k, p.visible + p.invisible) ELSE UNCHANGED queueVars
           /\ poll' = [poll EXCEPT ![k] =
                          CASE p.at = "report" /\ p.visible # 0 -> GoOn("busy")
                            [] p.at = "report" /\ p.visible = 0 /\ p.invisible = 0 -> GoOn("silence")
                            [] OTHER -> AtRest]
    /\ UNCHANGED <<loopVars, message, cache>>

\* updateMessage after either kind of poll; a short one goes on if nothing is
\* received and not done.
Report(k) ==
    /\ At(k, "report") \/ At(k, "found")
    /\ LET p == poll[k]
           GoOn(place) == [AtRest EXCEPT !.at = place, !.uri = p.uri, !.workers = p.workers]
       IN  /\ updateMessage(k, p.visible + p.invisible)
           /\ poll' = [poll EXCEPT ![k] =
                          CASE p.at = "report" /\ p.visible # 0 -> GoOn("busy")
                            [] p.at = "report" /\ p.visible = 0 /\ p.invisible = 0 -> GoOn("silence")
                            [] OTHER -> AtRest]
    /\ UNCHANGED <<loopVars, message, cache>>

-----------------------------------------------------------------------------
(* The short poll                                                          *)

\* CloudWatch's averages are of five to ten minutes ago: any value.
getAverageNumberOfMessagesSent == SentRates

\* The cache makes the answer a minute older, one from the same values.
cachedNumberOfSentMessages(k) ==
    /\ At(k, "sent") /\ Reachable(k)
    /\ \E n \in getAverageNumberOfMessagesSent : updateMessageSent(k, n)
    /\ Go(k, "visible")
    /\ UNCHANGED <<loopVars, message, cache>>

getApproxMessages(k) ==
    /\ At(k, "visible") /\ Reachable(k)
    /\ poll' = [poll EXCEPT ![k] = [@ EXCEPT !.at = "invisible",
                                             !.visible = Cardinality(Visible)]]
    /\ UNCHANGED <<item, call, loopVars, message, cache>>

getApproxMessagesNotVisible(k) ==
    /\ At(k, "invisible")
    /\ poll' = [poll EXCEPT ![k] = [@ EXCEPT !.at = "report",
                                             !.invisible = Cardinality(InQueue \ Visible)]]
    /\ UNCHANGED <<item, call, loopVars, message, cache>>

\* CloudWatch's sum, of ten to twenty minutes ago: some, or none.
getNumberOfMessagesReceived == {0, 1}

\* All workers of the snapshot are idle when nothing was received, none otherwise.
cachedNumberOfReceiveMessages(k) ==
    /\ At(k, "silence")
    /\ LET u == poll[k].uri
       IN  \E n \in getNumberOfMessagesReceived :
              /\ cache[u] \in {n, Stale}
              /\ cache' = [cache EXCEPT ![u] = n]
              /\ updateIdleWorkers(k, IF n = 0 THEN poll[k].workers ELSE 0)
    /\ poll' = [poll EXCEPT ![k] = AtRest]
    /\ UNCHANGED <<loopVars, message>>

\* A bug the runs look for: an error is taken for a count, the "unknown" of the
\* registry.
FailAsCount(k) ==
    /\ At(k, "visible")
    /\ poll' = [poll EXCEPT ![k] = [@ EXCEPT !.at = "invisible", !.visible = Unsynced]]
    /\ UNCHANGED <<item, call, loopVars, message, cache>>

\* Every error makes poll return: what it has reported so far stays.
Fail(k) ==
    /\ \/ poll[k].at \in {"receive", "visible", "invisible"} /\ Reachable(k)
       \/ At(k, "sent")
       \/ At(k, "silence") /\ cache[poll[k].uri] = Stale
    /\ poll' = [poll EXCEPT ![k] = AtRest]
    /\ UNCHANGED <<item, call, loopVars, message, cache>>

\* There is no SQS client for the region: the process ends, and is restarted.
Panic(k) ==
    /\ At(k, "receive") \/ At(k, "visible")
    /\ ~Reachable(k)
    /\ Forgotten
    /\ poll' = [i \in Keys |-> AtRest]
    /\ cache' = [u \in Uris |-> Stale]
    /\ UNCHANGED message

PollStep(k) ==
    \/ ListOne(k) \/ Unidle(k) \/ longPollReceiveMessage(k) \/ Report(k)
    \/ cachedNumberOfSentMessages(k) \/ getApproxMessages(k)
    \/ getApproxMessagesNotVisible(k) \/ cachedNumberOfReceiveMessages(k)
    \/ Fail(k) \/ Panic(k)

-----------------------------------------------------------------------------
(* AWS                                                                     *)

\* The visibility timeout; the message is not counted as one that stayed.
TimeOut(m) ==
    /\ Move(m, "taken", "visible")
    /\ Outdate({m}, {m})
    /\ UNCHANGED <<item, call, loopVars, cache>>

\* A bug the runs look for: what CloudWatch answered once is kept for ever.
ExpireNever(u) ==
    /\ cache[u] # cache[u]
    /\ UNCHANGED vars

\* A minute passes since CloudWatch was asked.
Expire(u) ==
    /\ cache[u] # Stale
    /\ cache' = [cache EXCEPT ![u] = Stale]
    /\ UNCHANGED <<item, call, loopVars, message, poll>>

-----------------------------------------------------------------------------

Next ==
    \/ \E k \in Keys : PollStep(k)
    \/ \E k \in Keys : (Sync(k) \/ EditSpec(k)) /\ UNCHANGED cache
    \/ \E m \in Messages : (Send(m) \/ Receive(m) \/ Remove(m)) /\ UNCHANGED cache
    \/ \E m \in Messages : TimeOut(m)
    \/ \E u \in Uris : Expire(u)

\* Goroutines are scheduled, calls return, resyncs come round, minutes pass.  A
\* cool-off ends some day, and of the reports of a kind that keeps coming, seconds
\* apart, not all fall into the window of an Add.
Fairness ==
    /\ \A k \in Keys :
          /\ WF_vars(PollStep(k)) /\ WF_vars(StartSync(k) /\ UNCHANGED cache)
          /\ SF_vars(FinishSync(k, NeverScaled) /\ UNCHANGED cache)
          /\ []<><<Report(k)>>_vars => []<><<Report(k) /\ call[k] = Idle>>_vars
          /\ []<><<cachedNumberOfReceiveMessages(k)>>_vars
                => []<><<cachedNumberOfReceiveMessages(k) /\ call[k] = Idle>>_vars
    /\ \A u \in Uris : WF_vars(Expire(u))

Spec == Init /\ [][Next]_vars /\ Fairness

-----------------------------------------------------------------------------

\* queue.go:43 "messages is the total number of messages in the queue": the count
\* is put together from two answers, and no message that stays in the queue, and
\* does not time out between them, is missed.  A long poll that finds nothing has
\* missed none that waited.
NoneOverlooked ==
    \A k \in Keys :
        /\ At(k, "report") =>
              poll[k].visible + poll[k].invisible >= Cardinality(poll[k].lived)
        /\ At(k, "found") /\ poll[k].visible = 0 => poll[k].waited = {}

\* The calls work from some time on, in a region that is configured.
Quiet ==
    /\ NoEdits
    /\ <>[][\A k \in Keys : ~Fail(k)]_poll
    /\ <>[](\A k \in Keys : wpa[k].uri \in Configured)

\* sqs.go:378 "we do a long poll to find a job(s) in the queue [...] to trigger
\* scale up": messages are found when nothing runs, whatever the polls before
\* have left in the registry and in the caches.
MessageGetsAWorker == Quiet => GetsAWorker

\* sqs.go:478 "this will result in all workers getting scaled down": also when
\* maxDisruption allows no other scale-down, once CloudWatch says that nothing is
\* sent and nothing was received.
IdleWorkersGo ==
    /\ Quiet
    /\ <>[](\A k \in Keys : Registered(k) => item[k].sent <= 0)
    /\ <>[][\A u \in Uris : cache'[u] = 1 => cache[u] = 1]_cache
    => GivesUpWorkers

=============================================================================
