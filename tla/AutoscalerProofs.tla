------------------------- MODULE AutoscalerProofs -------------------------
(***************************************************************************)
(* The safety properties of Autoscaler, for every int32 width, every set   *)
(* of specs and reports and every delay.                                   *)
(***************************************************************************)
EXTENDS Autoscaler, ScalingProofs

\* What GetScaleOperation makes of two int32 that are equal, or not.
LEMMA ScaleOperation ==
    ASSUME NEW desired \in Int, NEW current \in Int, NEW since, NEW delay
    PROVE  /\ desired = current => GetScaleOperation(desired, current, since, delay) = "ScaleNoop"
           /\ desired > current => GetScaleOperation(desired, current, since, delay) = "ScaleUp"
<1>1. CASE desired = current
    BY <1>1 DEF GetScaleOperation
<1>2. CASE desired > current
    BY <1>2 DEF GetScaleOperation
<1> QED
    BY <1>1, <1>2

LEMMA Nat32IsNat == Nat32 \subseteq Nat /\ Int32 \subseteq Int
BY ScalingAssumption DEF Nat32, Int32

\* TypeOK gives the decision a spec and, once polled, a report of its types.
LEMMA DecisionInput ==
    ASSUME TypeOK
    PROVE  /\ replicas \in Nat32
           /\ SpecOK(wpa)
           /\ q.sent \in Int /\ q.idle \in Int
           /\ q.messages # Unsynced => ReportOK(q) /\ q.messages \in Nat32
<1>1. wpa \in WpaSpec /\ replicas \in Nat32
    BY AutoscalerAssumption DEF TypeOK
<1>2. /\ q.messages \in MessageCounts \cup {Unsynced}
      /\ q.sent \in SentRates \cup {Unsynced}
      /\ q.idle \in IdleCounts \cup {Unsynced}
    BY DEF TypeOK, QueueInfo
<1>3. Int32 \subseteq Int /\ Nat32 \subseteq Nat
    BY Nat32IsNat
<1>4. SpecOK(wpa)
    BY <1>1, <1>3 DEF SpecOK, WpaSpec
<1>5. q.messages # Unsynced => q.messages \in Nat32
    BY <1>2, AutoscalerAssumption
<1>6. q.sent \in Int /\ q.idle \in Int
  <2>1. Unsynced \in Int
      BY DEF Unsynced
  <2>2. SentRates \subseteq Int /\ IdleCounts \subseteq Int
      BY <1>3, AutoscalerAssumption
  <2> QED
      BY <1>2, <2>1, <2>2
<1>7. q.messages # Unsynced => q.messages \in Int
    BY <1>5, ScalingAssumption DEF Nat32
<1> QED
    BY <1>1, <1>4, <1>5, <1>6, <1>7 DEF ReportOK

\* What a sync may write.
LEMMA SyncWrites ==
    ASSUME TypeOK, Sync
    PROVE  /\ q.messages # Unsynced
           /\ \/ replicas' = Desired /\ age' = 0 /\ Desired # replicas
              \/ UNCHANGED <<replicas, age>>
           /\ UNCHANGED <<wpa, q>>
<1>1. Desired \in Nat32 /\ replicas \in Nat32
    BY DecisionInput, DesiredRange DEF Sync, Desired
<1>2. Desired = replicas => GetScaleOperation(Desired, replicas, age, ScaleDownDelay) = "ScaleNoop"
    BY <1>1, Nat32IsNat, ScaleOperation
<1> QED
    BY <1>2 DEF Sync

-----------------------------------------------------------------------------

\* The replicas are never negative and never more than an int32 holds, the
\* registry and lastScaleTime hold what their writers may write.
THEOREM TypeCorrect == Spec => []TypeOK
<1>1. Init => TypeOK
  <2> SUFFICES ASSUME Init PROVE TypeOK
      OBVIOUS
  <2>1. replicas \in Nat32 /\ wpa \in WpaSpecs
      BY AutoscalerAssumption DEF Init
  <2>2. age \in 0 .. ScaleDownDelay + 1 \cup {NeverScaled}
      BY DEF Init
  <2>3. q \in QueueInfo
      BY DEF Init, QueueInfo
  <2> QED
      BY <2>1, <2>2, <2>3 DEF TypeOK
<1>2. TypeOK /\ [Next]_vars => TypeOK'
  <2> SUFFICES ASSUME TypeOK, [Next]_vars PROVE TypeOK'
      OBVIOUS
  <2> USE DEF TypeOK
  <2>1. CASE Sync
    <3>1. Desired \in Nat32
        BY <2>1, SyncWrites, DecisionInput, DesiredRange DEF Desired
    <3>2. 0 \in 0 .. ScaleDownDelay + 1
        BY AutoscalerAssumption
    <3> QED
        BY <2>1, <3>1, <3>2, SyncWrites
  <2>2. CASE Tick
    <3>1. age' \in 0 .. ScaleDownDelay + 1
        BY <2>2, AutoscalerAssumption DEF Tick
    <3> QED
        BY <2>2, <3>1 DEF Tick
  <2>3. CASE updateMessage
      BY <2>3 DEF updateMessage, QueueInfo
  <2>4. CASE updateMessageSent
      BY <2>4 DEF updateMessageSent, QueueInfo
  <2>5. CASE updateIdleWorkers
      BY <2>5 DEF updateIdleWorkers, QueueInfo
  <2>6. CASE EditSpec
      BY <2>6 DEF EditSpec
  <2>7. CASE EditReplicas
      BY <2>7, AutoscalerAssumption DEF EditReplicas
  <2>8. CASE UNCHANGED vars
      BY <2>8 DEF vars
  <2> QED
      BY <2>1, <2>2, <2>3, <2>4, <2>5, <2>6, <2>7, <2>8 DEF Next, Environment
<1> QED
    BY <1>1, <1>2, PTL DEF Spec

\* Whatever is reported, a sync that changes the replicas ends in bounds.
THEOREM InBounds == Spec => ScalesIntoBounds
<1>1. TypeOK /\ [Next]_vars =>
        [Sync /\ replicas' # replicas =>
           /\ replicas' <= wpa.max
           /\ replicas' >= IF MinWorkers < wpa.max THEN MinWorkers ELSE wpa.max]_vars
  <2> SUFFICES ASSUME TypeOK, Sync, replicas' # replicas
               PROVE  /\ replicas' <= wpa.max
                      /\ replicas' >= IF MinWorkers < wpa.max THEN MinWorkers ELSE wpa.max
      OBVIOUS
  <2>1. replicas' = Desired
      BY SyncWrites
  <2>2. SpecOK(wpa) /\ ReportOK(q) /\ replicas \in Nat32
      BY SyncWrites, DecisionInput
  <2> QED
      BY <2>1, <2>2, DesiredRange DEF Desired, MinWorkers
<1> QED
    BY <1>1, TypeCorrect, PTL DEF Spec, ScalesIntoBounds

\* No spec has a maxDisruption that overflows an int32: with more than 100% it
\* can, and then one scale-down may take more than any percentage.
SaneDisruption == \A w \in WpaSpecs : Sane(w.maxDisruption)

\* One scale-down takes at most maxDisruption of the workers.
THEOREM Disruption ==
    ASSUME SaneDisruption
    PROVE  Spec => DisruptionBounded
<1>1. TypeOK /\ [Next]_vars =>
        [Sync /\ wpa.target > 0 /\ replicas <= wpa.max /\ ~MassiveScaleDown(wpa, q, replicas)
           => replicas' >= replicas \/ replicas - replicas' <= Disruptable]_vars
  <2> SUFFICES ASSUME TypeOK, Sync, wpa.target > 0, replicas <= wpa.max,
                      ~MassiveScaleDown(wpa, q, replicas)
               PROVE  replicas' >= replicas \/ replicas - replicas' <= Disruptable
      OBVIOUS
  <2>1. SpecOK(wpa) /\ ReportOK(q) /\ q.messages \in Nat32 /\ replicas \in Nat32
      BY SyncWrites, DecisionInput
  <2>2. Sane(wpa.maxDisruption)
      BY SaneDisruption DEF SaneDisruption, TypeOK
  <2>3. replicas - Desired <= Disruptable
      BY <2>1, <2>2, DesiredDisruption DEF Desired, Disruptable
  <2> QED
      BY <2>1, <2>3, SyncWrites, Nat32IsNat
<1> QED
    BY <1>1, TypeCorrect, PTL DEF Spec, DisruptionBounded

\* After a sync, a queue with messages has a worker.
THEOREM Backlog ==
    ASSUME SaneDisruption
    PROVE  Spec => BacklogKeepsAWorker
<1>1. TypeOK /\ [Next]_vars =>
        [Sync /\ q.messages > 0 /\ wpa.max > 0 /\ wpa.target > 0 => replicas' > 0]_vars
  <2> SUFFICES ASSUME TypeOK, Sync, q.messages > 0, wpa.max > 0, wpa.target > 0
               PROVE  replicas' > 0
      OBVIOUS
  <2>1. SpecOK(wpa) /\ ReportOK(q) /\ q.messages \in Nat32 /\ replicas \in Nat32
      BY SyncWrites, DecisionInput
  <2>2. Sane(wpa.maxDisruption)
      BY SaneDisruption DEF SaneDisruption, TypeOK
  <2>3. Desired > 0
      BY <2>1, <2>2, DesiredDisruption DEF Desired
  <2>4. CASE replicas = 0
    <3>1. GetScaleOperation(Desired, replicas, age, ScaleDownDelay) = "ScaleUp"
      <4>1. Desired \in Nat32
          BY <2>1, DesiredRange DEF Desired
      <4> QED
          BY <2>1, <2>3, <2>4, <4>1, Nat32IsNat, ScaleOperation
    <3> QED
        BY <2>3, <3>1 DEF Sync
  <2>5. CASE replicas # 0
      BY <2>1, <2>3, <2>5, SyncWrites, Nat32IsNat
  <2> QED
      BY <2>4, <2>5
<1> QED
    BY <1>1, TypeCorrect, PTL DEF Spec, BacklogKeepsAWorker

\* In every state, a larger backlog asks for no fewer workers: the decision is
\* monotone across the tolerance, the idle workers and the throughput.
THEOREM Monotony ==
    ASSUME SaneDisruption
    PROVE  Spec => []MoreMessagesMoreWorkers
<1>1. TypeOK => MoreMessagesMoreWorkers
  <2> SUFFICES ASSUME TypeOK, wpa.target > 0,
                      NEW m \in MessageCounts, NEW n \in MessageCounts, m <= n
               PROVE  GetDesiredWorkers(wpa, [q EXCEPT !.messages = m], replicas)
                        <= GetDesiredWorkers(wpa, [q EXCEPT !.messages = n], replicas)
      BY DEF MoreMessagesMoreWorkers
  <2> DEFINE few == [q EXCEPT !.messages = m]
             many == [q EXCEPT !.messages = n]
  <2>1. /\ few.messages = m /\ few.sent = q.sent /\ few.idle = q.idle
        /\ many.messages = n /\ many.sent = q.sent /\ many.idle = q.idle
      BY DEF TypeOK, QueueInfo
  <2> HIDE DEF few, many
  <2>2. SpecOK(wpa) /\ q.sent \in Int /\ q.idle \in Int /\ replicas \in Nat32
      BY DecisionInput
  <2>3. m \in Nat32 /\ n \in Nat32 /\ m \in Int /\ n \in Int
      BY AutoscalerAssumption, Nat32IsNat
  <2>4. ReportOK(few) /\ ReportOK(many)
      BY <2>1, <2>2, <2>3 DEF ReportOK
  <2>5. Sane(wpa.maxDisruption)
      BY SaneDisruption DEF SaneDisruption, TypeOK
  <2>6. GetDesiredWorkers(wpa, few, replicas) <= GetDesiredWorkers(wpa, many, replicas)
      BY <2>1, <2>2, <2>3, <2>4, <2>5, DesiredMonotone
  <2> QED
      BY <2>6 DEF few, many
<1> QED
    BY <1>1, TypeCorrect, PTL

\* Where a target of 0 is ruled out, a sync never undoes what the last one did
\* for the same spec and report.
THEOREM Steady ==
    ASSUME SaneDisruption, \A w \in WpaSpecs : w.target > 0
    PROVE  Spec => NoHunting
<1>1. TypeOK /\ [Next]_vars =>
        [Sync => LET next == GetDesiredWorkers(wpa, q, replicas')
                 IN  /\ replicas' > replicas => next >= replicas'
                     /\ replicas' < replicas => next <= replicas']_vars
  <2> SUFFICES ASSUME TypeOK, Sync
               PROVE  LET next == GetDesiredWorkers(wpa, q, replicas')
                      IN  /\ replicas' > replicas => next >= replicas'
                          /\ replicas' < replicas => next <= replicas'
      OBVIOUS
  <2>1. SpecOK(wpa) /\ ReportOK(q) /\ q.messages \in Nat32 /\ replicas \in Nat32
      BY SyncWrites, DecisionInput
  <2>2. Sane(wpa.maxDisruption) /\ wpa.target > 0
      BY SaneDisruption DEF SaneDisruption, TypeOK
  <2>3. CASE replicas' = Desired
      BY <2>1, <2>2, <2>3, DesiredSettles DEF Desired
  <2>4. CASE replicas' = replicas
      BY <2>1, <2>4, Nat32IsNat
  <2> QED
      BY <2>3, <2>4, SyncWrites
<1> QED
    BY <1>1, TypeCorrect, PTL DEF Spec, NoHunting

=============================================================================
