---------------------------- MODULE Service ----------------------------
(***************************************************************************)
(* What is around the poll of a queue service (pkg/queue/queue_service.go):*)
(* one queue with its messages, the workloads that take them, and the      *)
(* controller's syncs, which register the queue and scale on what the      *)
(* polls report.  SQS.tla and Beanstalk.tla add the polls.  A sync works   *)
(* on the replicas there are (Controller.tla has the stale caches); here   *)
(* it interleaves with the steps of a poll.                                *)
(***************************************************************************)
EXTENDS Queues, Scaling, FiniteSets

CONSTANTS
    Messages,    \* messages that may be in the queue
    WpaSpecs,    \* specs a user may give the WorkerPodAutoScalers
    Edits        \* pairs: the edits a user makes, few in TLC's runs

WpaSpec == [min : Nat32, max : Nat32, target : Nat32, seconds : Nat,
            maxDisruption : MaxDisruptionValue, uri : Uris]

ASSUME ServiceAssumption ==
    /\ Callers = Keys
    /\ IsFiniteSet(Messages)
    /\ WpaSpecs \subseteq WpaSpec
    /\ \A w \in WpaSpecs : ServiceOf[w.uri] \in Services

VARIABLES
    wpa,         \* per key, the spec
    replicas,    \* per key, the workers of its workload
    message,     \* per message, where it is
    poll         \* per key, where its goroutine is in poll, and what it knows

loopVars == <<wpa, replicas>>

\* "held" is Beanstalk's: the long poll has reserved the job.
Places == {"absent", "visible", "taken", "held"}

Visible == {m \in Messages : message[m] = "visible"}

InQueue == {m \in Messages : message[m] # "absent"}

ServiceTypeOK ==
    /\ QueuesTypeOK
    /\ wpa \in [Keys -> WpaSpecs]
    /\ replicas \in [Keys -> Nat32]
    /\ message \in [Messages -> Places]

ServiceInit ==
    /\ QueuesInit
    /\ wpa \in [Keys -> WpaSpecs]
    /\ replicas \in [Keys -> {0, 1}]
    /\ message = [m \in Messages |-> "absent"]

-----------------------------------------------------------------------------
(* The controller                                                          *)

StartSync(k) ==
    /\ AddList(k, k, wpa[k].uri, replicas[k], wpa[k].seconds)
    /\ UNCHANGED <<loopVars, message, poll>>

\* age: NeverScaled stands for any time past the cool-off, 0 for one within it.
\* A report between the handler of Add and the decision is as one before the sync.
FinishSync(k, age) ==
    /\ AddSend(k)
    /\ LET q       == call[k].spec
           desired == GetDesiredWorkers(wpa[k], q, replicas[k])
       IN  replicas' = IF \/ q.messages = Unsynced
                          \/ GetScaleOperation(desired, replicas[k], age, 0) = "ScaleNoop"
                       THEN replicas
                       ELSE [replicas EXCEPT ![k] = desired]
    /\ UNCHANGED <<wpa, message, poll>>

\* A sync works on a copy of the spec: an edit during it is as one after it.
EditSpec(k) ==
    /\ call[k] = Idle
    /\ \E w \in WpaSpecs : <<wpa[k], w>> \in Edits /\ wpa' = [wpa EXCEPT ![k] = w]
    /\ UNCHANGED <<item, call, replicas, message, poll>>

Sync(k) == StartSync(k) \/ \E age \in {NeverScaled, 0} : FinishSync(k, age)

\* What a panic and the restart of the pod leave of the registry and the workers.
Forgotten ==
    /\ item' = [k \in Keys |-> NoSpec]
    /\ call' = [k \in Keys |-> Idle]
    /\ UNCHANGED <<wpa, replicas>>

-----------------------------------------------------------------------------
(* Producers and workers.  Of a long poll under way, waited are the        *)
(* messages that have been visible since it began, of any other, lived are *)
(* those that have been in the queue.                                      *)

Move(m, from, to) == message[m] = from /\ message' = [message EXCEPT ![m] = to]

\* What m's move does to waited and lived of every poll.
Outdate(waited, lived) ==
    poll' = [k \in Keys |-> [poll[k] EXCEPT !.waited = @ \ waited, !.lived = @ \ lived]]

Send(m) == Move(m, "absent", "visible") /\ UNCHANGED <<item, call, loopVars, poll>>

Receive(m) ==
    /\ \E k \in Keys : replicas[k] > 0
    /\ Move(m, "visible", "taken")
    /\ Outdate({m}, {})
    /\ UNCHANGED <<item, call, loopVars>>

\* The worker is done with it.
Remove(m) ==
    /\ Move(m, "taken", "absent")
    /\ Outdate({m}, {m})
    /\ UNCHANGED <<item, call, loopVars>>

-----------------------------------------------------------------------------
(* A poll                                                                  *)

At(k, place) == poll[k].at = place

Go(k, place) == poll' = [poll EXCEPT ![k].at = place]

\* Premises of the liveness properties: nobody edits a spec any more.
NoEdits == <>[][FALSE]_wpa

\* A message does not wait for ever while there are no workers: the poll finds
\* it, the sync reads it, in spite of the report an Add may overwrite.
GetsAWorker ==
    \A m \in Messages :
        message[m] \in {"visible", "held"} ~>
            \/ message[m] \notin {"visible", "held"}
            \/ \E k \in Keys : replicas[k] > 0

\* A queue without messages is left with the least workers its spec allows.
GivesUpWorkers ==
    <>[](InQueue = {}) => <>[](\A k \in Keys : replicas[k] = wpa[k].min)

=============================================================================
