-------------------------- MODULE QueuesProofs --------------------------
(***************************************************************************)
(* What the operations of Queues keep, for every set of keys, callers,     *)
(* services and URIs.                                                      *)
(***************************************************************************)
EXTENDS Queues, TLAPS

\* The entry Add builds is an entry.
LEMMA BuildSpecType ==
    ASSUME NEW old \in QueueSpec \cup {NoSpec}, NEW uri \in Uris, ServiceOf[uri] \in Services,
           NEW workers \in Int, NEW seconds \in Nat
    PROVE  BuildSpec(old, uri, workers, seconds) \in QueueSpec
<1>1. Unsynced \in Int
    BY DEF Unsynced
<1>2. old # NoSpec => old.messages \in Int /\ old.sent \in Int /\ old.idle \in Int
    BY DEF QueueSpec
<1> QED
    BY <1>1, <1>2 DEF BuildSpec, QueueSpec

\* Add up to its list keeps the types of the registry.
LEMMA AddListType ==
    ASSUME QueuesTypeOK, NEW c \in Callers, NEW key \in Keys, NEW uri \in Uris,
           NEW workers \in Int, NEW seconds \in Nat, AddList(c, key, uri, workers, seconds)
    PROVE  QueuesTypeOK'
<1>1. item[key] \in QueueSpec \cup {NoSpec}
    BY DEF QueuesTypeOK
<1> DEFINE built == BuildSpec(item[key], uri, workers, seconds)
<1>2. built \in QueueSpec
    BY <1>1, BuildSpecType DEF AddList
<1>3. call' = [call EXCEPT ![c] = [key |-> key, spec |-> built]]
    BY DEF AddList, ListQueue
<1>4. [key |-> key, spec |-> built] \in [key : Keys, spec : QueueSpec]
    BY <1>2
<1>5. call \in [Callers -> [key : Keys, spec : QueueSpec] \cup {Idle}] /\ item' = item
    BY DEF QueuesTypeOK, AddList
<1>6. call' \in [Callers -> [key : Keys, spec : QueueSpec] \cup {Idle}]
    BY <1>3, <1>4, <1>5
<1> QED
    BY <1>5, <1>6 DEF QueuesTypeOK

\* So do its send, and Delete.
LEMMA AddSendType ==
    ASSUME QueuesTypeOK, NEW c \in Callers, AddSend(c)
    PROVE  QueuesTypeOK'
<1>1. call[c] \in [key : Keys, spec : QueueSpec]
    BY DEF QueuesTypeOK, AddSend
<1> QED
    BY <1>1 DEF QueuesTypeOK, AddSend

LEMMA DeleteType ==
    ASSUME QueuesTypeOK, NEW c \in Callers, NEW key \in Keys, Delete(c, key)
    PROVE  QueuesTypeOK'
BY DEF QueuesTypeOK, Delete

\* The registry after a report on key: an entry's URI is never touched.
Reported(key) ==
    /\ item' \in [Keys -> QueueSpec \cup {NoSpec}]
    /\ UNCHANGED call
    /\ \A k \in Keys : /\ item'[k] = NoSpec <=> item[k] = NoSpec
                       /\ item[k] # NoSpec => item'[k].uri = item[k].uri

\* A report changes nothing but counts.
LEMMA ReportType ==
    ASSUME QueuesTypeOK, NEW key \in Keys, NEW n \in Int,
           updateMessage(key, n) \/ updateMessageSent(key, n) \/ updateIdleWorkers(key, n)
    PROVE  Reported(key)
<1>1. item \in [Keys -> QueueSpec \cup {NoSpec}] /\ UNCHANGED call
    BY DEF QueuesTypeOK, updateMessage, updateMessageSent, updateIdleWorkers
<1>2. CASE item[key] = NoSpec
    BY <1>1, <1>2 DEF Reported, Registered, updateMessage, updateMessageSent, updateIdleWorkers
<1>3. CASE item[key] # NoSpec
  <2> DEFINE q == item'[key]
  <2>1. item[key] \in QueueSpec
      BY <1>1, <1>3
  <2>2. \/ item' = [item EXCEPT ![key].messages = n]
        \/ item' = [item EXCEPT ![key].sent = n]
        \/ item' = [item EXCEPT ![key].idle = n]
      BY <1>3 DEF Registered, updateMessage, updateMessageSent, updateIdleWorkers
  <2>3. q \in QueueSpec /\ q.uri = item[key].uri
      BY <1>1, <2>1, <2>2 DEF QueueSpec
  <2>4. \A k \in Keys : k # key => item'[k] = item[k]
      BY <1>1, <2>2
  <2>5. item' \in [Keys -> QueueSpec \cup {NoSpec}]
    <3>1. DOMAIN item' = Keys /\ item' = [k \in Keys |-> item'[k]]
        BY <1>1, <2>2
    <3>2. \A k \in Keys : item'[k] \in QueueSpec \cup {NoSpec}
        BY <1>1, <2>3, <2>4
    <3> QED
        BY <3>1, <3>2
  <2> QED
      BY <1>1, <1>3, <2>3, <2>4, <2>5, NoEntryAssumption DEF Reported
<1> QED
    BY <1>2, <1>3

\* And the counts of that entry only: no other entry, no URI, nothing where none is.
LEMMA ReportCounts ==
    ASSUME QueuesTypeOK, NEW key \in Keys, NEW n \in Int,
           updateMessage(key, n) \/ updateMessageSent(key, n) \/ updateIdleWorkers(key, n)
    PROVE  /\ \A other \in Keys \ {key} : item'[other] = item[other]
           /\ ~Registered(key) => item'[key] = item[key]
           /\ Registered(key) => /\ item'[key] # NoSpec
                                 /\ item'[key] = [item[key] EXCEPT
                                        !.messages = item'[key].messages,
                                        !.sent = item'[key].sent, !.idle = item'[key].idle]
<1>1. item \in [Keys -> QueueSpec \cup {NoSpec}]
    BY DEF QueuesTypeOK
<1>2. CASE ~Registered(key)
    BY <1>2 DEF updateMessage, updateMessageSent, updateIdleWorkers
<1>3. CASE Registered(key)
  <2>1. item[key] \in QueueSpec
      BY <1>1, <1>3 DEF Registered
  <2>2. \/ item' = [item EXCEPT ![key].messages = n]
        \/ item' = [item EXCEPT ![key].sent = n]
        \/ item' = [item EXCEPT ![key].idle = n]
      BY <1>3 DEF updateMessage, updateMessageSent, updateIdleWorkers
  <2>3. \/ item'[key] = [item[key] EXCEPT !.messages = n]
        \/ item'[key] = [item[key] EXCEPT !.sent = n]
        \/ item'[key] = [item[key] EXCEPT !.idle = n]
      BY <1>1, <2>2
  <2>4. item'[key] = [item[key] EXCEPT !.messages = item'[key].messages,
                                       !.sent = item'[key].sent, !.idle = item'[key].idle]
      BY <2>1, <2>3 DEF QueueSpec
  <2>5. item'[key] # NoSpec
      BY <1>3, ReportType DEF Reported, Registered
  <2> QED
      BY <1>1, <1>3, <2>2, <2>4, <2>5
<1> QED
    BY <1>2, <1>3

=============================================================================
