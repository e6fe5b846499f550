---------------------------- MODULE Scaling ----------------------------
(***************************************************************************)
(* The scaling decision: how many workers a queue needs, and whether the   *)
(* controller may act on it (pkg/controller/controller.go and              *)
(* pkg/controller/scale_operation.go).  Pure operators: w is the part of a *)
(* WorkerPodAutoScaler's spec the decision reads, q what the queue         *)
(* registry knows about its queue.  Floats are taken at integer values.    *)
(***************************************************************************)
EXTENDS Integers

CONSTANTS
    Int32Max,       \* largest value of a Go int32 (small in TLC's runs)
    Overflow32      \* what this build's float-to-int32 conversion yields for
                    \* +Inf, NaN and every value an int32 cannot hold

Int32 == -Int32Max - 1 .. Int32Max
Nat32 == 0 .. Int32Max

ASSUME ScalingAssumption == Int32Max \in Nat \ {0} /\ Overflow32 \in Int32

\* int32 arithmetic: the result modulo 2^32, read as a signed number.
Wrap(n) == ((n + Int32Max + 1) % (2 * Int32Max + 2)) - Int32Max - 1

\* int32(f) for a float that holds the integer n.
FloatToInt32(n) == IF n \in Int32 THEN n ELSE Overflow32

CeilDiv(a, b) == -((-a) \div b)

Abs(n) == IF n < 0 THEN -n ELSE n

-----------------------------------------------------------------------------

MaxDisruptionValue == [percent : BOOLEAN, value : Nat]

\* A bug the runs look for: rounding down.
BacklogWorkersFloor(messages, target) ==
    IF target = 0 THEN Overflow32 ELSE FloatToInt32(messages \div target)

\* int32(math.Ceil(messages / target)); a target of 0 gives +Inf or NaN.
BacklogWorkers(messages, target) ==
    IF target = 0 THEN Overflow32 ELSE FloatToInt32(CeilDiv(messages, target))

getMaxDisruptableWorkers(maxDisruption, current) ==
    Wrap(IF maxDisruption.percent
         THEN CeilDiv(maxDisruption.value * current, 100)
         ELSE maxDisruption.value)

\* A bug the runs look for: the minimum is overwritten, not raised.
getMinWorkersOverwritten(sentPerMinute, min, seconds) ==
    IF seconds # 0 THEN FloatToInt32(CeilDiv(seconds * sentPerMinute, 60)) ELSE min

getMinWorkers(sentPerMinute, min, seconds) ==
    LET byThroughput == FloatToInt32(CeilDiv(seconds * sentPerMinute, 60))
    IN  IF seconds # 0 /\ byThroughput > min THEN byThroughput ELSE min

\* math.Abs(desired-current)/current <= 0.1, called with current # 0.
isChangeTooSmall(desired, current) ==
    10 * Abs(Wrap(desired - current)) <= current

\* Bugs the runs look for: maxReplicas not enforced; maxDisruption ignored.
convertWithoutMax(current, desired, min, max, maxDisruptable) ==
    LET limited == IF Wrap(current - desired) > maxDisruptable
                   THEN Wrap(current - maxDisruptable)
                   ELSE desired
    IN  CASE min >= max                 -> max
          [] min < max /\ limited < min -> min
          [] OTHER                      -> limited

convertWithoutDisruption(current, desired, min, max, maxDisruptable) ==
    CASE min >= max                 -> max
      [] min < max /\ desired > max -> max
      [] min < max /\ desired < min -> min
      [] OTHER                      -> desired

convertDesiredReplicasWithRules(current, desired, min, max, maxDisruptable) ==
    LET limited == IF Wrap(current - desired) > maxDisruptable
                   THEN Wrap(current - maxDisruptable)
                   ELSE desired
    IN  CASE min >= max                   -> max
          [] min < max /\ limited > max   -> max
          [] min < max /\ limited < min   -> min
          [] OTHER                        -> limited

\* No backlog, no throughput and every worker idle: maxDisruption is ignored.
MassiveScaleDown(w, q, current) ==
    /\ current # 0
    /\ q.messages <= 0
    /\ ~(q.sent > 0 /\ w.seconds > 0)
    /\ current = q.idle

\* A bug the runs look for: an empty queue keeps the workers it has.
GetDesiredWorkersKeeping(w, q, current) ==
    LET min == getMinWorkers(q.sent, w.min, w.seconds)
    IN  IF current # 0 /\ q.messages <= 0 /\ ~MassiveScaleDown(w, q, current)
        THEN current
        ELSE convertDesiredReplicasWithRules(current,
                 IF current # 0 /\ q.messages <= 0 THEN 0 ELSE BacklogWorkers(q.messages, w.target),
                 min, w.max, getMaxDisruptableWorkers(w.maxDisruption, current))

\* A bug the runs look for: idle workers go before the backlog is looked at.
GetDesiredWorkersIdleFirst(w, q, current) ==
    LET Rules(desired, maxDisruptable) ==
            convertDesiredReplicasWithRules(current, desired,
                getMinWorkers(q.sent, w.min, w.seconds), w.max, maxDisruptable)
        disruptable == getMaxDisruptableWorkers(w.maxDisruption, current)
    IN  IF current # 0 /\ current = q.idle
        THEN Rules(0, current)
        ELSE Rules(BacklogWorkers(q.messages, w.target), disruptable)

GetDesiredWorkers(w, q, current) ==
    LET min     == getMinWorkers(q.sent, w.min, w.seconds)
        backlog == BacklogWorkers(q.messages, w.target)
        Rules(desired, maxDisruptable) ==
            convertDesiredReplicasWithRules(current, desired, min, w.max, maxDisruptable)
        disruptable == getMaxDisruptableWorkers(w.maxDisruption, current)
    IN  CASE current = 0 -> Rules(backlog, disruptable)
          [] current # 0 /\ q.messages > 0 ->
                Rules(IF isChangeTooSmall(backlog, current) THEN current ELSE backlog,
                      disruptable)
          [] MassiveScaleDown(w, q, current) -> Rules(0, current)
          [] OTHER -> Rules(min, disruptable)

-----------------------------------------------------------------------------

\* age: seconds since lastScaleTime, or NeverScaled when it is nil.
NeverScaled == -1

\* A bug the runs look for: the comparison of the two times is swapped.
canScaleDownSwapped(age, scaleDownDelay) == age = NeverScaled \/ age < scaleDownDelay

canScaleDown(age, scaleDownDelay) == age = NeverScaled \/ age > scaleDownDelay

GetScaleOperation(desired, current, age, scaleDownDelay) ==
    CASE desired > current -> "ScaleUp"
      [] desired < current /\ canScaleDown(age, scaleDownDelay) -> "ScaleDown"
      [] OTHER -> "ScaleNoop"

=============================================================================
