--------------------------- MODULE Autoscaler ---------------------------
(***************************************************************************)
(* The control loop of one WorkerPodAutoScaler as it is meant to work:     *)
(* every sync reads the workers, the queue and the last scale time in one  *)
(* step and acts on them (syncHandler, pkg/controller/controller.go).  The *)
(* poller reports one field of the queue at a time, users edit the spec    *)
(* and the replicas.  Time enters only as the age of lastScaleTime, which  *)
(* stops at the first value that is past the delay.                        *)
(***************************************************************************)
EXTENDS Scaling

CONSTANTS
    WpaSpecs,        \* the specs a user may give the resource
    MessageCounts,   \* what updateMessage may report
    SentRates,       \* what updateMessageSent may report
    IdleCounts,      \* what updateIdleWorkers may report
    EditedReplicas,  \* what a user may scale the deployment to by hand
    ScaleDownDelay   \* --scale-down-delay-after-last-scale-activity

WpaSpec == [min : Nat32, max : Nat32, target : Nat32, seconds : Nat,
            maxDisruption : MaxDisruptionValue]

ASSUME AutoscalerAssumption ==
    /\ WpaSpecs \subseteq WpaSpec
    /\ MessageCounts \subseteq Nat32
    /\ SentRates \subseteq Nat
    /\ IdleCounts \subseteq Int32
    /\ EditedReplicas \subseteq Nat32
    /\ ScaleDownDelay \in Nat

VARIABLES
    replicas,   \* spec.replicas of the deployment or replica set
    age,        \* seconds since status.LastScaleTime
    wpa,        \* the spec of the WorkerPodAutoScaler
    q           \* messages, sent and idle of the queue's registry entry

vars == <<replicas, age, wpa, q>>

\* The queue registry's "not known yet" (queue.UnsyncedQueueMessageCount ...).
Unsynced == -1

QueueInfo == [messages : MessageCounts \cup {Unsynced},
              sent     : SentRates \cup {Unsynced},
              idle     : IdleCounts \cup {Unsynced}]

TypeOK ==
    /\ replicas \in Nat32
    /\ age \in 0 .. ScaleDownDelay + 1 \cup {NeverScaled}
    /\ wpa \in WpaSpecs
    /\ q \in QueueInfo

Init ==
    /\ replicas \in EditedReplicas
    /\ age = NeverScaled
    /\ wpa \in WpaSpecs
    /\ q = [messages |-> Unsynced, sent |-> Unsynced, idle |-> Unsynced]

-----------------------------------------------------------------------------

Desired == GetDesiredWorkers(wpa, q, replicas)

\* syncHandler, once the queue has been polled.
Sync ==
    /\ q.messages # Unsynced
    /\ IF GetScaleOperation(Desired, replicas, age, ScaleDownDelay) # "ScaleNoop"
       THEN replicas' = Desired /\ age' = 0
       ELSE UNCHANGED <<replicas, age>>
    /\ UNCHANGED <<wpa, q>>

updateMessage ==
    /\ \E n \in MessageCounts : q' = [q EXCEPT !.messages = n]
    /\ UNCHANGED <<replicas, age, wpa>>

updateMessageSent ==
    /\ \E n \in SentRates : q' = [q EXCEPT !.sent = n]
    /\ UNCHANGED <<replicas, age, wpa>>

updateIdleWorkers ==
    /\ \E n \in IdleCounts : q' = [q EXCEPT !.idle = n]
    /\ UNCHANGED <<replicas, age, wpa>>

\* The user edits the WPA's spec, or scales the deployment by hand.
EditSpec == wpa' \in WpaSpecs /\ UNCHANGED <<replicas, age, q>>

EditReplicas == replicas' \in EditedReplicas /\ UNCHANGED <<age, wpa, q>>

Tick ==
    /\ age \in 0 .. ScaleDownDelay
    /\ age' = age + 1
    /\ UNCHANGED <<replicas, wpa, q>>

Environment ==
    updateMessage \/ updateMessageSent \/ updateIdleWorkers \/ EditSpec \/ EditReplicas

Next == Sync \/ Tick \/ Environment

\* The resync period re-runs the loop for ever, and time passes.
Spec == Init /\ [][Next]_vars /\ WF_vars(Sync) /\ WF_vars(Tick)

-----------------------------------------------------------------------------

\* The floor the throughput puts under the workers.
MinWorkers == getMinWorkers(q.sent, wpa.min, wpa.seconds)

Disruptable == getMaxDisruptableWorkers(wpa.maxDisruption, replicas)

\* Whatever the queue reports, a sync that changes the replicas puts them
\* between the minimum the throughput asks for and maxReplicas, and at
\* maxReplicas when the minimum is above it (convertDesiredReplicasWithRules).
ScalesIntoBounds ==
    [][Sync /\ replicas' # replicas =>
         /\ replicas' <= wpa.max
         /\ replicas' >= IF MinWorkers < wpa.max THEN MinWorkers ELSE wpa.max]_vars

\* One scale-down removes at most maxDisruption workers, except when all are
\* idle and the queue is silent, or when there are more than maxReplicas.
DisruptionBounded ==
    [][Sync /\ wpa.target > 0 /\ replicas <= wpa.max /\ ~MassiveScaleDown(wpa, q, replicas)
         => replicas' >= replicas \/ replicas - replicas' <= Disruptable]_vars

\* A queue that has messages keeps a worker, or gets its first one, at the
\* next sync, in spite of tolerance, disruption and cool-off.
BacklogKeepsAWorker ==
    [][Sync /\ q.messages > 0 /\ wpa.max > 0 /\ wpa.target > 0 => replicas' > 0]_vars

\* The loop does not hunt: where a sync has just scaled up, the same queue and
\* spec never make the next one scale down, nor the other way round.
NoHunting ==
    [][Sync => LET next == GetDesiredWorkers(wpa, q, replicas')
               IN  /\ replicas' > replicas => next >= replicas'
                   /\ replicas' < replicas => next <= replicas']_vars

\* More messages never ask for fewer workers, across the tolerance band, the
\* idle branch and the throughput branch.
MoreMessagesMoreWorkers ==
    wpa.target > 0 =>
        \A m, n \in MessageCounts : m <= n =>
            GetDesiredWorkers(wpa, [q EXCEPT !.messages = m], replicas)
              <= GetDesiredWorkers(wpa, [q EXCEPT !.messages = n], replicas)

Settled == q.messages # Unsynced => Desired = replicas

\* When users and the poller leave everything as it is, the loop reaches a
\* number of workers it is content with, and stays there.
Convergence == <>[][~Environment]_vars => <>[]Settled

=============================================================================
