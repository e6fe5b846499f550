---------------------------- MODULE SQSProofs ----------------------------
(***************************************************************************)
(* The safety properties of SQS, for every set of keys, messages, specs    *)
(* and rates, and every int32 width.                                       *)
(***************************************************************************)
EXTENDS SQS, QueuesProofs, ScalingProofs, FiniteSetTheorems

LEMMA Nat32IsNat == Nat32 \subseteq Nat /\ Nat32 \subseteq Int
BY ScalingAssumption DEF Nat32

\* Sets of messages are finite.
LEMMA Count ==
    ASSUME NEW S \in SUBSET Messages, NEW T \in SUBSET S
    PROVE  /\ Cardinality(S) \in Nat /\ Cardinality(T) \in Nat
           /\ Cardinality(T) <= Cardinality(S)
<1>1. IsFiniteSet(Messages)
    BY ServiceAssumption
<1>2. IsFiniteSet(S) /\ IsFiniteSet(T)
    BY <1>1, FS_Subset
<1> QED
    BY <1>2, FS_Subset, FS_CardinalityType

-----------------------------------------------------------------------------
(* Type correctness                                                        *)

LEMMA TypesInit == Init => TypeOK
<1> SUFFICES ASSUME Init PROVE TypeOK
    OBVIOUS
<1>1. {0, 1} \subseteq Nat32
    BY ScalingAssumption DEF Nat32
<1>2. AtRest \in Poll
    BY DEF AtRest, Poll, PollPlaces
<1> QED
    BY <1>1, <1>2 DEF Init, ServiceInit, QueuesInit, TypeOK, ServiceTypeOK, QueuesTypeOK, Places

\* A sync leaves the decision's workers, an int32 that is not negative, for every
\* report a poll may have made.
LEMMA TypesSync ==
    ASSUME ServiceTypeOK, NEW k \in Keys, Sync(k)
    PROVE  ServiceTypeOK'
<1> USE DEF ServiceTypeOK
<1>1. k \in Callers /\ wpa[k] \in WpaSpec /\ replicas[k] \in Nat32
    BY ServiceAssumption
<1>2. replicas[k] \in Int /\ wpa[k].seconds \in Nat /\ wpa[k].uri \in Uris
    BY <1>1, Nat32IsNat DEF WpaSpec
<1>3. CASE StartSync(k)
  <2>1. QueuesTypeOK'
      BY <1>1, <1>2, <1>3, AddListType DEF StartSync
  <2> QED
      BY <1>3, <2>1 DEF StartSync, loopVars
<1>4. ASSUME NEW age, FinishSync(k, age) PROVE ServiceTypeOK'
  <2>1. QueuesTypeOK'
      BY <1>1, <1>4, AddSendType DEF FinishSync
  <2>2. call[k].spec \in QueueSpec
      BY <1>1, <1>4 DEF FinishSync, AddSend, QueuesTypeOK
  <2>3. SpecOK(wpa[k]) /\ ReportOK(call[k].spec)
      BY <1>1, <2>2, Nat32IsNat DEF SpecOK, WpaSpec, ReportOK, QueueSpec
  <2>4. GetDesiredWorkers(wpa[k], call[k].spec, replicas[k]) \in Nat32
      BY <1>1, <2>3, DesiredRange
  <2>5. replicas' \in [Keys -> Nat32]
      BY <1>4, <2>4 DEF FinishSync
  <2> QED
      BY <1>4, <2>1, <2>5 DEF FinishSync
<1> QED
    BY <1>3, <1>4 DEF Sync

\* The producers' and the workers' moves.
LEMMA TypesMove ==
    ASSUME TypeOK, NEW m \in Messages,
           ((Send(m) \/ Receive(m) \/ Remove(m)) /\ UNCHANGED cache) \/ TimeOut(m)
    PROVE  TypeOK'
<1>1. message' \in [Messages -> Places] /\ UNCHANGED <<item, call, wpa, replicas, cache>>
    BY DEF TypeOK, ServiceTypeOK, Places, Send, Receive, Remove, TimeOut, Move, loopVars
<1>2. ASSUME NEW waited, NEW lived, Outdate(waited, lived) PROVE poll' \in [Keys -> Poll]
    BY <1>2 DEF Outdate, TypeOK, Poll
<1>3. poll' \in [Keys -> Poll]
    BY <1>2 DEF Send, Receive, Remove, TimeOut, TypeOK
<1> QED
    BY <1>1, <1>3 DEF TypeOK, ServiceTypeOK, QueuesTypeOK

\* A report keeps the registry's types.
LEMMA TypesReported ==
    ASSUME TypeOK, NEW k \in Keys, Reported(k), UNCHANGED <<wpa, replicas, message, cache>>,
           poll' \in [Keys -> Poll]
    PROVE  TypeOK'
BY DEF TypeOK, ServiceTypeOK, QueuesTypeOK, Reported

\* What a step of a poll leaves of it is a poll.
LEMMA TypesPoll ==
    ASSUME TypeOK, NEW k \in Keys, PollStep(k)
    PROVE  TypeOK'
<1>1. poll[k] \in Poll /\ poll \in [Keys -> Poll]
    BY DEF TypeOK
<1>2. AtRest \in Poll /\ Visible \in SUBSET Messages /\ InQueue \in SUBSET Messages
    BY DEF AtRest, Poll, PollPlaces, Visible, InQueue
<1>3. Cardinality(Visible) \in Nat /\ Cardinality(InQueue \ Visible) \in Nat
    BY <1>2, Count
<1>4. CASE ListOne(k)
  <2>1. item[k] \in QueueSpec
      BY <1>4 DEF ListOne, Registered, TypeOK, ServiceTypeOK, QueuesTypeOK
  <2>2. item[k].uri \in Uris /\ item[k].workers \in Int
      BY <2>1 DEF QueueSpec
  <2>3. \A place \in PollPlaces, w, l \in SUBSET Messages :
           [AtRest EXCEPT !.at = place, !.uri = item[k].uri, !.workers = item[k].workers,
                          !.waited = w, !.lived = l] \in Poll
      BY <2>2 DEF AtRest, Poll
  <2>4. \E p \in Poll : poll' = [poll EXCEPT ![k] = p]
    <3> DEFINE place == CASE LongPolls(item[k]) -> "unidle"
                          [] ~LongPolls(item[k]) /\ item[k].seconds # 0 -> "sent"
                          [] OTHER -> "visible"
               waited == IF LongPolls(item[k]) THEN Visible ELSE {}
               lived == IF LongPolls(item[k]) THEN {} ELSE InQueue
    <3>1. place \in PollPlaces
        BY DEF PollPlaces
    <3>2. waited \in SUBSET Messages /\ lived \in SUBSET Messages
        BY <1>2
    <3>3. poll' = [poll EXCEPT ![k] =
                      [AtRest EXCEPT !.at = place, !.uri = item[k].uri, !.workers = item[k].workers,
                                     !.waited = waited, !.lived = lived]]
        BY <1>4 DEF ListOne
    <3> HIDE DEF place, waited, lived
    <3> QED
        BY <2>3, <3>1, <3>2, <3>3
  <2> QED
      BY <1>1, <1>4, <2>4 DEF ListOne, TypeOK, ServiceTypeOK, QueuesTypeOK, loopVars
<1>5. CASE Unidle(k)
  <2>1. Reported(k)
      BY <1>5, ReportType DEF Unidle, TypeOK, ServiceTypeOK
  <2>2. [poll[k] EXCEPT !.at = "receive"] \in Poll
      BY <1>1 DEF Poll, PollPlaces
  <2>3. poll' \in [Keys -> Poll]
      BY <1>1, <1>2, <1>5, <2>2 DEF Unidle
  <2> QED
      BY <1>5, <2>1, <2>3, TypesReported DEF Unidle, loopVars
<1>6. CASE longPollReceiveMessage(k)
  <2> DEFINE n == IF Visible = {} THEN 0 ELSE 1
  <2>1. [poll[k] EXCEPT !.at = "found", !.visible = n] \in Poll
      BY <1>1 DEF Poll, PollPlaces
  <2>2. poll' \in [Keys -> Poll]
      BY <1>1, <1>6, <2>1 DEF longPollReceiveMessage
  <2> QED
      BY <1>6, <2>2 DEF longPollReceiveMessage, TypeOK, ServiceTypeOK, QueuesTypeOK, loopVars
<1>7. CASE Report(k)
  <2>1. poll[k].visible + poll[k].invisible \in Int
      BY <1>1 DEF Poll
  <2>2. Reported(k)
      BY <1>7, <2>1, ReportType DEF Report, TypeOK, ServiceTypeOK
  <2>3. \A place \in PollPlaces :
           [AtRest EXCEPT !.at = place, !.uri = poll[k].uri, !.workers = poll[k].workers] \in Poll
      BY <1>1 DEF AtRest, Poll
  <2>4. "busy" \in PollPlaces /\ "silence" \in PollPlaces
      BY DEF PollPlaces
  <2>5. \E p \in Poll : poll' = [poll EXCEPT ![k] = p]
      BY <1>2, <1>7, <2>3, <2>4 DEF Report
  <2> QED
      BY <1>1, <1>7, <2>2, <2>5, TypesReported DEF Report, loopVars
<1>8. CASE cachedNumberOfSentMessages(k)
  <2>1. \E n \in SentRates : updateMessageSent(k, n)
      BY <1>8 DEF cachedNumberOfSentMessages, getAverageNumberOfMessagesSent
  <2>2. Reported(k)
      BY <2>1, ReportType, SQSAssumption DEF TypeOK, ServiceTypeOK
  <2>3. [poll[k] EXCEPT !.at = "visible"] \in Poll
      BY <1>1 DEF Poll, PollPlaces
  <2>4. poll' \in [Keys -> Poll]
      BY <1>1, <1>8, <2>3 DEF cachedNumberOfSentMessages, Go
  <2> QED
      BY <1>8, <2>2, <2>4, TypesReported DEF cachedNumberOfSentMessages, loopVars
<1>9. CASE getApproxMessages(k)
  <2>1. [poll[k] EXCEPT !.at = "invisible", !.visible = Cardinality(Visible)] \in Poll
      BY <1>1, <1>3 DEF Poll, PollPlaces
  <2>2. poll' \in [Keys -> Poll]
      BY <1>1, <1>9, <2>1 DEF getApproxMessages
  <2> QED
      BY <1>9, <2>2 DEF getApproxMessages, TypeOK, ServiceTypeOK, QueuesTypeOK, loopVars
<1>10. CASE getApproxMessagesNotVisible(k)
  <2>1. [poll[k] EXCEPT !.at = "report", !.invisible = Cardinality(InQueue \ Visible)] \in Poll
      BY <1>1, <1>3 DEF Poll, PollPlaces
  <2>2. poll' \in [Keys -> Poll]
      BY <1>1, <1>10, <2>1 DEF getApproxMessagesNotVisible
  <2> QED
      BY <1>10, <2>2 DEF getApproxMessagesNotVisible, TypeOK, ServiceTypeOK, QueuesTypeOK, loopVars
<1>11. CASE cachedNumberOfReceiveMessages(k)
  <2>1. PICK n \in {0, 1} :
           /\ cache' = [cache EXCEPT ![poll[k].uri] = n]
           /\ updateIdleWorkers(k, IF n = 0 THEN poll[k].workers ELSE 0)
      BY <1>11 DEF cachedNumberOfReceiveMessages, getNumberOfMessagesReceived
  <2>2. (IF n = 0 THEN poll[k].workers ELSE 0) \in Int
      BY <1>1 DEF Poll
  <2>3. Reported(k)
      BY <2>1, <2>2, ReportType DEF TypeOK, ServiceTypeOK
  <2>4. cache' \in [Uris -> {0, 1, Stale}]
      BY <2>1 DEF TypeOK
  <2>5. poll' \in [Keys -> Poll]
      BY <1>1, <1>2, <1>11 DEF cachedNumberOfReceiveMessages
  <2> QED
      BY <1>11, <2>3, <2>4, <2>5
         DEF cachedNumberOfReceiveMessages, TypeOK, ServiceTypeOK, QueuesTypeOK, Reported, loopVars
<1>12. CASE Fail(k)
    BY <1>1, <1>2, <1>12 DEF Fail, TypeOK, ServiceTypeOK, QueuesTypeOK, loopVars
<1>13. CASE Panic(k)
    BY <1>2, <1>13, ServiceAssumption
       DEF Panic, Forgotten, TypeOK, ServiceTypeOK, QueuesTypeOK
<1> QED
    BY <1>4, <1>5, <1>6, <1>7, <1>8, <1>9, <1>10, <1>11, <1>12, <1>13 DEF PollStep

LEMMA TypesNext == TypeOK /\ [Next]_vars => TypeOK'
<1> SUFFICES ASSUME TypeOK, [Next]_vars PROVE TypeOK'
    OBVIOUS
<1>1. ASSUME NEW k \in Keys, Sync(k), UNCHANGED cache PROVE TypeOK'
  <2>1. UNCHANGED poll
      BY <1>1 DEF Sync, StartSync, FinishSync
  <2> QED
      BY <1>1, <2>1, TypesSync DEF TypeOK
<1>2. ASSUME NEW k \in Keys, EditSpec(k), UNCHANGED cache PROVE TypeOK'
    BY <1>2 DEF EditSpec, TypeOK, ServiceTypeOK, QueuesTypeOK
<1>3. ASSUME NEW u \in Uris, Expire(u) PROVE TypeOK'
    BY <1>3 DEF Expire, TypeOK, ServiceTypeOK, QueuesTypeOK, loopVars
<1>4. CASE UNCHANGED vars
    BY <1>4 DEF vars, loopVars, TypeOK, ServiceTypeOK, QueuesTypeOK
<1> QED
    BY <1>1, <1>2, <1>3, <1>4, TypesMove, TypesPoll DEF Next

\* Whatever the service answers and however the queue's users interleave with the
\* polls and the syncs, the replicas stay an int32 that is not negative, and the
\* registry and the polls hold values of their types.
THEOREM TypeCorrect == Spec => []TypeOK
BY TypesInit, TypesNext, PTL DEF Spec

-----------------------------------------------------------------------------
(* The counts                                                              *)

\* Why a count put together from two answers misses no message that stays: what
\* the first answer has seen, the second may see again, but what the first has not
\* seen of the messages that stayed is not visible at the second either.
CountedBy(k) ==
    /\ poll[k].lived \subseteq InQueue
    /\ poll[k].waited \subseteq Visible
    /\ At(k, "invisible") => poll[k].visible >= Cardinality(poll[k].lived \cap Visible)
    /\ At(k, "report") => poll[k].visible + poll[k].invisible >= Cardinality(poll[k].lived)
    /\ At(k, "found") /\ poll[k].visible = 0 => poll[k].waited = {}

Counted == \A k \in Keys : CountedBy(k)

LEMMA CountedInit == Init => Counted
<1> SUFFICES ASSUME Init, NEW k \in Keys PROVE CountedBy(k)
    BY DEF Counted
<1>1. poll[k] = AtRest
    BY DEF Init
<1> QED
    BY <1>1 DEF AtRest, CountedBy, At

\* Messages that come and go leave a count what it is, and what it has to reach
\* no larger.
LEMMA CountedMove ==
    ASSUME TypeOK, Counted, NEW m \in Messages,
           Send(m) \/ Receive(m) \/ Remove(m) \/ TimeOut(m)
    PROVE  Counted'
<1> SUFFICES ASSUME NEW k \in Keys PROVE CountedBy(k)'
    BY DEF Counted
<1>1. /\ CountedBy(k) /\ poll[k] \in Poll /\ message \in [Messages -> Places]
      /\ poll[k].lived \in SUBSET Messages
    BY DEF Counted, TypeOK, ServiceTypeOK, Poll
<1>2. /\ poll'[k].at = poll[k].at
      /\ poll'[k].visible = poll[k].visible /\ poll'[k].invisible = poll[k].invisible
      /\ poll'[k].lived = IF Remove(m) \/ TimeOut(m) THEN poll[k].lived \ {m} ELSE poll[k].lived
      /\ poll'[k].waited = IF Send(m) THEN poll[k].waited ELSE poll[k].waited \ {m}
  <2>1. CASE Send(m)
    <3>1. message[m] = "absent" /\ poll' = poll
        BY <2>1 DEF Send, Move
    <3>2. ~Remove(m) /\ ~TimeOut(m)
        BY <3>1 DEF Remove, TimeOut, Move
    <3> QED
        BY <2>1, <3>1, <3>2
  <2>2. CASE Receive(m)
    <3>1. message[m] = "visible" /\ message'[m] = "taken" /\ Outdate({m}, {})
        BY <1>1, <2>2 DEF Receive, Move
    <3>2. ~Remove(m) /\ ~TimeOut(m) /\ ~Send(m)
        BY <3>1 DEF Remove, TimeOut, Send, Move
    <3> QED
        BY <1>1, <3>1, <3>2 DEF Outdate, Poll
  <2>3. CASE Remove(m) \/ TimeOut(m)
    <3>1. message[m] = "taken" /\ Outdate({m}, {m})
        BY <2>3 DEF Remove, TimeOut, Move
    <3>2. ~Send(m)
        BY <3>1 DEF Send, Move
    <3> QED
        BY <1>1, <2>3, <3>1, <3>2 DEF Outdate, Poll
  <2> QED
      BY <2>1, <2>2, <2>3
<1>3. /\ \A n \in Messages : n # m => message'[n] = message[n]
      /\ Send(m) => message[m] = "absent" /\ message'[m] = "visible"
      /\ Receive(m) => message[m] = "visible" /\ message'[m] = "taken"
      /\ Remove(m) => message[m] = "taken" /\ message'[m] = "absent"
      /\ TimeOut(m) => message[m] = "taken" /\ message'[m] = "visible"
    BY <1>1 DEF Send, Receive, Remove, TimeOut, Move
<1>4. poll'[k].lived \subseteq poll[k].lived /\ poll'[k].lived \subseteq InQueue'
    BY <1>1, <1>2, <1>3 DEF CountedBy, InQueue
<1>5. poll'[k].waited \subseteq poll[k].waited /\ poll'[k].waited \subseteq Visible'
    BY <1>1, <1>2, <1>3 DEF CountedBy, Visible
<1>6. poll'[k].lived \cap Visible' \subseteq poll[k].lived \cap Visible
    BY <1>1, <1>2, <1>3, <1>4 DEF CountedBy, InQueue, Visible
<1>7. /\ Cardinality(poll'[k].lived) <= Cardinality(poll[k].lived)
      /\ Cardinality(poll'[k].lived \cap Visible') <= Cardinality(poll[k].lived \cap Visible)
      /\ Cardinality(poll'[k].lived) \in Nat /\ Cardinality(poll[k].lived) \in Nat
      /\ Cardinality(poll'[k].lived \cap Visible') \in Nat
      /\ Cardinality(poll[k].lived \cap Visible) \in Nat
  <2>1. poll[k].lived \cap Visible \in SUBSET Messages
      BY <1>1
  <2> QED
      BY <1>1, <1>4, <1>6, <2>1, Count
<1>8. poll[k].visible \in Nat /\ poll[k].invisible \in Nat
    BY <1>1 DEF Poll
<1> QED
    BY <1>1, <1>2, <1>4, <1>5, <1>7, <1>8 DEF CountedBy, At

\* A step of k's poll.
LEMMA CountedPoll ==
    ASSUME TypeOK, Counted, NEW k \in Keys, PollStep(k)
    PROVE  Counted'
<1>1. poll[k] \in Poll /\ poll \in [Keys -> Poll] /\ CountedBy(k)
    BY DEF TypeOK, Counted
<1>2. Visible' = Visible /\ InQueue' = InQueue
    BY DEF PollStep, ListOne, Unidle, longPollReceiveMessage, Report, cachedNumberOfSentMessages,
           getApproxMessages, getApproxMessagesNotVisible, cachedNumberOfReceiveMessages,
           Fail, Panic, Visible, InQueue
<1> DEFINE Others == \A i \in Keys : i # k => poll'[i] = poll[i]
<1>3. ASSUME Others, CountedBy(k)' PROVE Counted'
    BY <1>2, <1>3 DEF Counted, CountedBy, At
<1>4. CASE Panic(k)
    BY <1>4 DEF Panic, AtRest, Counted, CountedBy, At
<1>5. CASE ListOne(k)
  <2>1. /\ poll'[k].at \in {"unidle", "sent", "visible"}
        /\ poll'[k].waited = IF LongPolls(item[k]) THEN Visible ELSE {}
        /\ poll'[k].lived = IF LongPolls(item[k]) THEN {} ELSE InQueue
      BY <1>1, <1>5 DEF ListOne, AtRest
  <2>2. CountedBy(k)'
      BY <1>2, <2>1 DEF CountedBy, At
  <2> QED
      BY <1>1, <1>3, <1>5, <2>2 DEF ListOne
<1>6. CASE Unidle(k)
  <2>1. poll'[k] = AtRest \/ poll'[k] = [poll[k] EXCEPT !.at = "receive"]
      BY <1>1, <1>6 DEF Unidle
  <2>2. CountedBy(k)'
      BY <1>1, <1>2, <2>1 DEF CountedBy, At, AtRest, Poll
  <2> QED
      BY <1>1, <1>3, <1>6, <2>2 DEF Unidle
<1>7. CASE longPollReceiveMessage(k)
  <2>1. poll'[k] = [poll[k] EXCEPT !.at = "found", !.visible = IF Visible = {} THEN 0 ELSE 1]
      BY <1>1, <1>7 DEF longPollReceiveMessage
  <2>2. CountedBy(k)'
      BY <1>1, <1>2, <2>1 DEF CountedBy, At, Poll
  <2> QED
      BY <1>1, <1>3, <1>7, <2>2 DEF longPollReceiveMessage
<1>8. CASE Report(k)
  <2>1. /\ poll'[k].lived = {} /\ poll'[k].waited = {}
        /\ poll'[k].at \in {"busy", "silence", "list"}
      BY <1>1, <1>8 DEF Report, AtRest
  <2>2. CountedBy(k)'
      BY <2>1 DEF CountedBy, At
  <2> QED
      BY <1>1, <1>3, <1>8, <2>2 DEF Report
<1>9. CASE cachedNumberOfSentMessages(k)
  <2>1. poll'[k] = [poll[k] EXCEPT !.at = "visible"]
      BY <1>1, <1>9 DEF cachedNumberOfSentMessages, Go
  <2>2. CountedBy(k)'
      BY <1>1, <1>2, <2>1 DEF CountedBy, At, Poll
  <2> QED
      BY <1>1, <1>3, <1>9, <2>2 DEF cachedNumberOfSentMessages, Go
<1>10. CASE getApproxMessages(k)
  <2>1. poll'[k] = [poll[k] EXCEPT !.at = "invisible", !.visible = Cardinality(Visible)]
      BY <1>1, <1>10 DEF getApproxMessages
  <2>2. poll'[k].visible = Cardinality(Visible) /\ poll'[k].lived = poll[k].lived
        /\ poll'[k].waited = poll[k].waited /\ poll'[k].at = "invisible"
      BY <1>1, <2>1 DEF Poll
  <2>3. Cardinality(Visible) >= Cardinality(poll[k].lived \cap Visible)
      BY Count DEF Visible
  <2>4. CountedBy(k)'
      BY <1>1, <1>2, <2>2, <2>3 DEF CountedBy, At
  <2> QED
      BY <1>1, <1>3, <1>10, <2>4 DEF getApproxMessages
<1>11. CASE getApproxMessagesNotVisible(k)
  <2> DEFINE lived == poll[k].lived
  <2>1. poll'[k] = [poll[k] EXCEPT !.at = "report",
                                   !.invisible = Cardinality(InQueue \ Visible)]
      BY <1>1, <1>11 DEF getApproxMessagesNotVisible
  <2>2. /\ poll'[k].visible = poll[k].visible
        /\ poll'[k].invisible = Cardinality(InQueue \ Visible)
        /\ poll'[k].lived = lived /\ poll'[k].waited = poll[k].waited /\ poll'[k].at = "report"
      BY <1>1, <2>1 DEF Poll
  <2>3. poll[k].visible >= Cardinality(lived \cap Visible)
      BY <1>1, <1>11 DEF getApproxMessagesNotVisible, CountedBy
  <2>4. lived \subseteq InQueue /\ InQueue \subseteq Messages
      BY <1>1 DEF CountedBy, InQueue
  <2>5. Cardinality(InQueue \ Visible) >= Cardinality(lived \ Visible)
      BY <2>4, Count
  <2>6. Cardinality(lived) = Cardinality(lived \cap Visible) + Cardinality(lived \ Visible)
    <3>1. IsFiniteSet(lived \cap Visible) /\ IsFiniteSet(lived \ Visible)
        BY <2>4, ServiceAssumption, FS_Subset
    <3>2. /\ (lived \cap Visible) \cup (lived \ Visible) = lived
          /\ (lived \cap Visible) \cap (lived \ Visible) = {}
        OBVIOUS
    <3>3. Cardinality(lived \cap Visible) \in Nat /\ Cardinality(lived \ Visible) \in Nat
        BY <3>1, FS_CardinalityType
    <3> QED
        BY <3>1, <3>2, <3>3, FS_Union, FS_EmptySet
  <2>7. /\ poll[k].visible \in Nat /\ Cardinality(InQueue \ Visible) \in Nat
        /\ Cardinality(lived \cap Visible) \in Nat /\ Cardinality(lived \ Visible) \in Nat
      BY <1>1, <2>4, Count DEF Poll
  <2>8. poll'[k].visible + poll'[k].invisible >= Cardinality(lived)
      BY <2>2, <2>3, <2>5, <2>6, <2>7
  <2>9. CountedBy(k)'
      BY <1>1, <1>2, <2>2, <2>8 DEF CountedBy, At
  <2> QED
      BY <1>1, <1>3, <1>11, <2>9 DEF getApproxMessagesNotVisible
<1>12. CASE cachedNumberOfReceiveMessages(k) \/ Fail(k)
  <2>1. poll' = [poll EXCEPT ![k] = AtRest]
      BY <1>12 DEF cachedNumberOfReceiveMessages, Fail
  <2>2. CountedBy(k)'
      BY <1>1, <2>1 DEF AtRest, CountedBy, At
  <2> QED
      BY <1>1, <1>3, <2>1, <2>2
<1> QED
    BY <1>4, <1>5, <1>6, <1>7, <1>8, <1>9, <1>10, <1>11, <1>12 DEF PollStep

LEMMA CountedNext == TypeOK /\ Counted /\ [Next]_vars => Counted'
<1> SUFFICES ASSUME TypeOK, Counted, [Next]_vars PROVE Counted'
    OBVIOUS
<1>1. CASE UNCHANGED <<message, poll>>
    BY <1>1 DEF Counted, CountedBy, At, Visible, InQueue
<1>2. ASSUME NEW k \in Keys, Sync(k) \/ EditSpec(k) PROVE UNCHANGED <<message, poll>>
    BY <1>2 DEF Sync, StartSync, FinishSync, EditSpec
<1>3. ASSUME NEW u \in Uris, Expire(u) PROVE UNCHANGED <<message, poll>>
    BY <1>3 DEF Expire
<1> QED
    BY <1>1, <1>2, <1>3, CountedMove, CountedPoll DEF Next, vars

\* However many messages a queue has and whatever its users do between the calls
\* of a poll, the count it reports is no less than the messages that stayed in the
\* queue; a long poll that reports none has missed none that waited.
THEOREM NothingOverlooked == Spec => []NoneOverlooked
<1>1. Counted => NoneOverlooked
    BY DEF Counted, CountedBy, NoneOverlooked
<1>2. Spec => [](TypeOK /\ Counted)
    BY TypesInit, TypesNext, CountedInit, CountedNext, PTL DEF Spec
<1> QED
    BY <1>1, <1>2, PTL

=============================================================================
