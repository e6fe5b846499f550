----------------------------- MODULE Queues -----------------------------
(***************************************************************************)
(* The in-memory registry of queues (pkg/queue/queue.go): one goroutine    *)
(* owns the map and serves one channel message at a time, so every handler *)
(* of Queues.Sync is one step.  Add is not: it lists the map, builds the   *)
(* entry and sends it, and other messages are served in between.  The      *)
(* controller's workers and the poll goroutines that call it are in        *)
(* Poller.tla and Controller.tla.                                          *)
(***************************************************************************)
EXTENDS Integers

CONSTANTS
    Keys,           \* namespace/name of the WorkerPodAutoScalers
    Callers,        \* the controller's worker goroutines, which call Add
    Uris,           \* queue URIs a spec may hold
    Services,       \* queue services Add supports, whether or not they are started
    ServiceOf,      \* the service of a URI, "unsupported" (or empty), "malformed"
    NoSpec,         \* the zero QueueSpec: no entry
    Idle            \* the caller has no Add in progress

ASSUME QueuesAssumption ==
    /\ ServiceOf \in [Uris -> Services \cup {"unsupported", "malformed"}]
    /\ Services \cap {"unsupported", "malformed"} = {}

VARIABLES
    item,   \* the map, NoSpec where a key is absent
    call    \* per caller, the entry an Add has built and not yet sent

queueVars == <<item, call>>

\* The registry's "not known yet" (UnsyncedQueueMessageCount, ...SentPerMinute,
\* ...IdleWorkers).
Unsynced == -1

QueueSpec == [uri : {u \in Uris : ServiceOf[u] \in Services},
              messages : Int, sent : Int, idle : Int, workers : Int, seconds : Nat]

\* No entry is taken for the absence of one.
ASSUME NoEntryAssumption == NoSpec \notin QueueSpec

\* No Add in progress is taken for none.
ASSUME IdleAssumption == Idle \notin [key : Keys, spec : QueueSpec]

QueuesTypeOK ==
    /\ item \in [Keys -> QueueSpec \cup {NoSpec}]
    /\ call \in [Callers -> [key : Keys, spec : QueueSpec] \cup {Idle}]

QueuesInit ==
    /\ item = [k \in Keys |-> NoSpec]
    /\ call = [c \in Callers |-> Idle]

-----------------------------------------------------------------------------

Registered(key) == item[key] # NoSpec

\* ListQueue answers NoSpec for an absent key; List filters by service.
ListQueue(key) == item[key]

List(service) == {k \in Keys : Registered(k) /\ ServiceOf[item[k].uri] = service}

\* A bug the runs look for: what is known of the queue is lost.
BuildSpecUnsynced(old, uri, workers, seconds) ==
    [uri |-> uri, workers |-> workers, seconds |-> seconds,
     messages |-> Unsynced, sent |-> Unsynced, idle |-> Unsynced]

\* The entry Add sends: what the poller has found so far is carried over.
BuildSpec(old, uri, workers, seconds) ==
    [uri |-> uri, workers |-> workers, seconds |-> seconds,
     messages |-> IF old = NoSpec THEN Unsynced ELSE old.messages,
     sent     |-> IF old = NoSpec THEN Unsynced ELSE old.sent,
     idle     |-> IF old = NoSpec THEN Unsynced ELSE old.idle]

\* A bug the runs look for: an unsupported queue is registered all the same.
AddListUnsupported(c, key, uri, workers, seconds) ==
    /\ call[c] = Idle
    /\ call' = [call EXCEPT ![c] =
                   [key |-> key, spec |-> BuildSpec(ListQueue(key), uri, workers, seconds)]]
    /\ UNCHANGED item

\* Add up to its list; for a URI of no service Add returns and does nothing.
AddList(c, key, uri, workers, seconds) ==
    /\ call[c] = Idle
    /\ ServiceOf[uri] \in Services
    /\ call' = [call EXCEPT ![c] =
                   [key |-> key, spec |-> BuildSpec(ListQueue(key), uri, workers, seconds)]]
    /\ UNCHANGED item

\* Add's send on addCh, and the handler.
AddSend(c) ==
    /\ call[c] # Idle
    /\ item' = [item EXCEPT ![call[c].key] = call[c].spec]
    /\ call' = [call EXCEPT ![c] = Idle]

Delete(c, key) ==
    /\ call[c] = Idle
    /\ item' = [item EXCEPT ![key] = NoSpec]
    /\ UNCHANGED call

\* A bug the runs look for: the report is stored although the key is gone.
updateMessageUnchecked(key, n) ==
    /\ item' = [item EXCEPT ![key] =
                   IF Registered(key) THEN [@ EXCEPT !.messages = n]
                   ELSE [BuildSpec(NoSpec, CHOOSE u \in Uris : TRUE, 0, 0) EXCEPT !.messages = n]]
    /\ UNCHANGED call

\* The poller's three updates.  A report on a key that is gone is dropped.
updateMessage(key, n) ==
    /\ item' = IF Registered(key) THEN [item EXCEPT ![key].messages = n] ELSE item
    /\ UNCHANGED call

updateMessageSent(key, n) ==
    /\ item' = IF Registered(key) THEN [item EXCEPT ![key].sent = n] ELSE item
    /\ UNCHANGED call

updateIdleWorkers(key, n) ==
    /\ item' = IF Registered(key) THEN [item EXCEPT ![key].idle = n] ELSE item
    /\ UNCHANGED call

=============================================================================
