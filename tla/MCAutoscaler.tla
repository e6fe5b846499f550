-------------------------- MODULE MCAutoscaler --------------------------
(* Small instances of Autoscaler for TLC. *)
EXTENDS Autoscaler

Percent(n) == [percent |-> TRUE, value |-> n]
Pods(n) == [percent |-> FALSE, value |-> n]

WpaOf(min, max, target, seconds, disruption) ==
    [min |-> min, max |-> max, target |-> target, seconds |-> seconds,
     maxDisruption |-> disruption]

MCWpaSpecs ==
    { WpaOf(0, 5, 2, 0, Percent(50)),     \* backlog only, rounds up
      WpaOf(1, 4, 1, 30, Pods(1)),        \* throughput raises the minimum
      WpaOf(3, 2, 1, 0, Percent(100)),    \* minimum above maximum
      WpaOf(0, 11, 1, 0, Percent(0)),     \* a tolerance band, no scale-down
      WpaOf(1, 4, 0, 0, Pods(1)) }        \* a target of 0: the quotient overflows

MCMessageCounts == {0, 1, 2, 5, 9, 11}
MCOverflow32 == -32   \* amd64: CVTTSD2SL yields the smallest int32
MCSentRates == {0, 120, 400}
MCIdleCounts == {-1, 0, 2, 4}
MCEditedReplicas == {0, 1, 4, 10}

=============================================================================
