-------------------------- MODULE ScalingProofs --------------------------
(***************************************************************************)
(* What the operators of Scaling return, for every value of the constants: *)
(* the arithmetic first, then the rules, then the decision.                *)
(***************************************************************************)
EXTENDS Scaling, TLAPS

USE DEF Int32, Nat32

\* int32 arithmetic stays in an int32, and is exact for what fits one.
LEMMA WrapRange ==
    ASSUME NEW n \in Int
    PROVE  Wrap(n) \in Int32
<1>1. Int32Max \in Nat /\ 2 * Int32Max + 2 \in Nat \ {0}
    BY ScalingAssumption
<1>2. (n + Int32Max + 1) % (2 * Int32Max + 2) \in 0 .. 2 * Int32Max + 1
    BY <1>1
<1> QED
    BY <1>1, <1>2 DEF Wrap

LEMMA WrapExact ==
    ASSUME NEW n \in Int32
    PROVE  Wrap(n) = n
<1>1. Int32Max \in Nat
    BY ScalingAssumption
<1>2. \A a, b \in Nat : a < b => a % b = a
    OBVIOUS
<1>3. (n + Int32Max + 1) % (2 * Int32Max + 2) = n + Int32Max + 1
    BY <1>1, <1>2
<1> QED
    BY <1>1, <1>3 DEF Wrap

\* Dividing a backlog among workers and rounding up: never more workers than
\* messages, and one at least when there is a message.
LEMMA CeilDivRange ==
    ASSUME NEW a \in Nat, NEW b \in Nat \ {0}
    PROVE  /\ CeilDiv(a, b) \in 0 .. a
           /\ a > 0 => CeilDiv(a, b) >= 1
<1> DEFINE d == (-a) \div b
           r == (-a) % b
<1>1. d \in Int /\ r \in 0 .. b - 1 /\ -a = b * d + r
    OBVIOUS
<1> HIDE DEF d, r
<1>2. d <= 0
  <2>1. ASSUME d >= 1 PROVE FALSE
    <3>1. b * d >= b
        BY <1>1, <2>1
    <3> QED
        BY <1>1, <3>1
  <2> QED
    BY <1>1, <2>1
<1>3. -a <= d
  <2>1. ASSUME d < -a PROVE FALSE
    <3>1. d + 1 <= -a /\ d + 1 <= 0
        BY <1>1, <2>1
    <3>2. b * (d + 1) <= d + 1
        BY <1>1, <3>1
    <3>3. b * d + b <= -a
        BY <1>1, <3>1, <3>2
    <3> QED
        BY <1>1, <3>3
  <2> QED
    BY <1>1, <2>1
<1>4. a > 0 => d # 0
    BY <1>1
<1> QED
    BY <1>1, <1>2, <1>3, <1>4 DEF CeilDiv, d

\* A float-to-int32 conversion yields an int32 whatever the float is.
LEMMA FloatToInt32Range ==
    ASSUME NEW n \in Int
    PROVE  FloatToInt32(n) \in Int32
BY ScalingAssumption DEF FloatToInt32

-----------------------------------------------------------------------------

\* The limit maxDisruption puts on the desired workers, before the bounds.
Limited(current, desired, maxDisruptable) ==
    IF Wrap(current - desired) > maxDisruptable
    THEN Wrap(current - maxDisruptable)
    ELSE desired

\* The rules end in an integer between the bounds, the upper one first.
LEMMA ConvertRange ==
    ASSUME NEW current \in Int, NEW desired \in Int, NEW min \in Int, NEW max \in Int,
           NEW maxDisruptable \in Int
    PROVE  LET result == convertDesiredReplicasWithRules(current, desired, min, max, maxDisruptable)
           IN  /\ result \in Int
               /\ result <= max
               /\ result >= IF min < max THEN min ELSE max
<1> DEFINE limited == Limited(current, desired, maxDisruptable)
<1>1. limited \in Int
  <2>1. Wrap(current - maxDisruptable) \in Int /\ Wrap(current - desired) \in Int
      BY WrapRange, ScalingAssumption
  <2> QED
      BY <2>1 DEF Limited
<1>2. convertDesiredReplicasWithRules(current, desired, min, max, maxDisruptable) =
        CASE min >= max                 -> max
          [] min < max /\ limited > max -> max
          [] min < max /\ limited < min -> min
          [] OTHER                      -> limited
    BY DEF convertDesiredReplicasWithRules, Limited
<1> HIDE DEF limited
<1>3. CASE min >= max
    BY <1>2, <1>3
<1>4. CASE min < max
    BY <1>1, <1>2, <1>4
<1> QED
    BY <1>3, <1>4

\* From workers within maxReplicas, and with nothing overflowing, the rules
\* take away at most maxDisruptable of them, and leave one where one is asked
\* for or maxDisruptable leaves one.
LEMMA ConvertDisruption ==
    ASSUME NEW current \in Nat32, NEW desired \in Nat32, NEW min \in Int, NEW max \in Int,
           NEW maxDisruptable \in Nat32
    PROVE  LET result == convertDesiredReplicasWithRules(current, desired, min, max, maxDisruptable)
           IN  /\ current <= max => current - result <= maxDisruptable
               /\ max > 0 /\ desired > 0 => result > 0
<1> DEFINE limited == Limited(current, desired, maxDisruptable)
<1>1. Wrap(current - desired) = current - desired
    BY WrapExact, ScalingAssumption
<1>2. Wrap(current - maxDisruptable) = current - maxDisruptable
    BY WrapExact, ScalingAssumption
<1>3. /\ limited \in Int
      /\ current - limited <= maxDisruptable
      /\ desired > 0 => limited > 0
    BY <1>1, <1>2 DEF Limited
<1>4. convertDesiredReplicasWithRules(current, desired, min, max, maxDisruptable) =
        CASE min >= max                 -> max
          [] min < max /\ limited > max -> max
          [] min < max /\ limited < min -> min
          [] OTHER                      -> limited
    BY DEF convertDesiredReplicasWithRules, Limited
<1> HIDE DEF limited
<1>5. CASE min >= max
    BY <1>4, <1>5, ScalingAssumption
<1>6. CASE min < max
    BY <1>3, <1>4, <1>6, ScalingAssumption
<1> QED
    BY <1>5, <1>6

-----------------------------------------------------------------------------

\* The throughput raises the minimum and never lowers it.
LEMMA MinWorkersRange ==
    ASSUME NEW sent \in Int, NEW min \in Nat32, NEW seconds \in Nat
    PROVE  /\ getMinWorkers(sent, min, seconds) \in Nat32
           /\ getMinWorkers(sent, min, seconds) >= min
<1>1. seconds * sent \in Int
    OBVIOUS
<1>2. CeilDiv(seconds * sent, 60) \in Int
  <2> DEFINE n == seconds * sent
  <2>1. n \in Int
      BY <1>1
  <2> HIDE DEF n
  <2>2. CeilDiv(n, 60) \in Int
      BY <2>1 DEF CeilDiv
  <2> QED
      BY <2>2 DEF n
<1>3. FloatToInt32(CeilDiv(seconds * sent, 60)) \in Int32
    BY <1>2, FloatToInt32Range
<1> QED
    BY <1>3, ScalingAssumption DEF getMinWorkers

\* Every message of a backlog asks for a worker's share of one, rounded up.
LEMMA BacklogWorkersRange ==
    ASSUME NEW messages \in Nat32, NEW target \in Nat \ {0}
    PROVE  /\ BacklogWorkers(messages, target) \in Nat32
           /\ messages > 0 => BacklogWorkers(messages, target) > 0
<1>1. messages \in Nat /\ Int32Max \in Nat
    BY ScalingAssumption
<1>2. CeilDiv(messages, target) \in 0 .. messages
    BY <1>1, CeilDivRange
<1>3. messages > 0 => CeilDiv(messages, target) >= 1
    BY <1>1, CeilDivRange
<1>4. BacklogWorkers(messages, target) = CeilDiv(messages, target)
    BY <1>1, <1>2 DEF BacklogWorkers, FloatToInt32
<1> QED
    BY <1>1, <1>2, <1>3, <1>4

\* Whatever the target, the desired workers are an int32.
LEMMA BacklogWorkersInt ==
    ASSUME NEW messages \in Int, NEW target \in Nat
    PROVE  BacklogWorkers(messages, target) \in Int32
<1>1. CASE target = 0
    BY <1>1, ScalingAssumption DEF BacklogWorkers
<1>2. CASE target # 0
  <2>1. CeilDiv(messages, target) \in Int
      BY <1>2 DEF CeilDiv
  <2> QED
      BY <1>2, <2>1, FloatToInt32Range DEF BacklogWorkers
<1> QED
    BY <1>1, <1>2

\* A maxDisruption no calculation overflows on: a number of pods an int32
\* holds, or at most 100%.
Sane(maxDisruption) ==
    maxDisruption.value <= IF maxDisruption.percent THEN 100 ELSE Int32Max

LEMMA DisruptableInt ==
    ASSUME NEW d \in MaxDisruptionValue, NEW current \in Int
    PROVE  getMaxDisruptableWorkers(d, current) \in Int32
<1> DEFINE n == d.value * current
<1>1. d.value \in Nat
    BY DEF MaxDisruptionValue
<1>2. n \in Int
    BY <1>1
<1> HIDE DEF n
<1>3. CeilDiv(n, 100) \in Int
    BY <1>2 DEF CeilDiv
<1>4. (IF d.percent THEN CeilDiv(n, 100) ELSE d.value) \in Int
    BY <1>1, <1>3
<1> QED
    BY <1>4, WrapRange DEF getMaxDisruptableWorkers, n

LEMMA DisruptableRange ==
    ASSUME NEW d \in MaxDisruptionValue, Sane(d), NEW current \in Nat32
    PROVE  getMaxDisruptableWorkers(d, current) \in Nat32
<1> DEFINE n == d.value * current
<1>1. /\ d.value \in Nat /\ current \in Nat /\ current <= Int32Max /\ Int32Max \in Nat
      /\ d.percent \in BOOLEAN
    BY ScalingAssumption DEF MaxDisruptionValue
<1>2. CASE d.percent
  <2>1. n \in Nat
      BY <1>1
  <2>2. n <= 100 * current
    <3>1. d.value <= 100
        BY <1>2 DEF Sane
    <3> QED
        BY <1>1, <3>1
  <2> HIDE DEF n
  <2>3. CeilDiv(n, 100) \in 0 .. current
      BY <1>1, <2>1, <2>2 DEF CeilDiv
  <2>4. Wrap(CeilDiv(n, 100)) = CeilDiv(n, 100)
      BY <1>1, <2>3, WrapExact
  <2> QED
      BY <1>1, <1>2, <2>3, <2>4 DEF getMaxDisruptableWorkers, n
<1>3. CASE ~d.percent
    BY <1>1, <1>3, WrapExact DEF getMaxDisruptableWorkers, Sane
<1> QED
    BY <1>1, <1>2, <1>3

-----------------------------------------------------------------------------

\* A spec and a report of the types the decision is made for.
SpecOK(w) ==
    /\ w.min \in Nat32 /\ w.max \in Nat32 /\ w.target \in Nat /\ w.seconds \in Nat
    /\ w.maxDisruption \in MaxDisruptionValue

ReportOK(q) == q.messages \in Int /\ q.sent \in Int /\ q.idle \in Int

\* The four ways GetDesiredWorkers calls the rules.
LEMMA DesiredCases ==
    ASSUME NEW w, NEW q, NEW current \in Nat32, SpecOK(w), ReportOK(q)
    PROVE  LET min == getMinWorkers(q.sent, w.min, w.seconds)
               backlog == BacklogWorkers(q.messages, w.target)
               disruptable == getMaxDisruptableWorkers(w.maxDisruption, current)
               Rules(desired, max) ==
                   GetDesiredWorkers(w, q, current) =
                       convertDesiredReplicasWithRules(current, desired, min, w.max, max)
           IN  /\ current = 0 => Rules(backlog, disruptable)
               /\ current # 0 /\ q.messages > 0 =>
                     Rules(backlog, disruptable) \/ Rules(current, disruptable)
               /\ MassiveScaleDown(w, q, current) => Rules(0, current)
               /\ current # 0 /\ q.messages <= 0 /\ ~MassiveScaleDown(w, q, current) =>
                     Rules(min, disruptable)
<1>1. CASE current = 0
    BY <1>1 DEF GetDesiredWorkers, MassiveScaleDown
<1>2. CASE current # 0 /\ q.messages > 0
    BY <1>2 DEF GetDesiredWorkers, MassiveScaleDown, ReportOK
<1>3. CASE current # 0 /\ q.messages <= 0
    BY <1>3 DEF GetDesiredWorkers, MassiveScaleDown, ReportOK
<1> QED
    BY <1>1, <1>2, <1>3 DEF ReportOK

\* The decision is a number of workers between the bounds.
LEMMA DesiredRange ==
    ASSUME NEW w, NEW q, NEW current \in Nat32, SpecOK(w), ReportOK(q)
    PROVE  LET min == getMinWorkers(q.sent, w.min, w.seconds)
               desired == GetDesiredWorkers(w, q, current)
           IN  /\ desired \in Nat32
               /\ desired <= w.max
               /\ desired >= IF min < w.max THEN min ELSE w.max
<1> DEFINE min == getMinWorkers(q.sent, w.min, w.seconds)
           backlog == BacklogWorkers(q.messages, w.target)
           disruptable == getMaxDisruptableWorkers(w.maxDisruption, current)
<1>1. min \in Nat32
    BY MinWorkersRange DEF SpecOK, ReportOK
<1>2. backlog \in Int
  <2>1. q.messages \in Int /\ w.target \in Nat
      BY ScalingAssumption DEF SpecOK, ReportOK
  <2>2. backlog \in Int32
      BY <2>1, BacklogWorkersInt
  <2> HIDE DEF backlog
  <2> QED
      BY <2>2, ScalingAssumption
<1>3. disruptable \in Int
    BY DisruptableInt, ScalingAssumption DEF SpecOK
<1>4. \E desired, limit \in Int :
         GetDesiredWorkers(w, q, current) =
             convertDesiredReplicasWithRules(current, desired, min, w.max, limit)
  <2>1. current \in Int /\ 0 \in Int /\ min \in Int
      BY <1>1, ScalingAssumption
  <2>2. MassiveScaleDown(w, q, current) \/ ~MassiveScaleDown(w, q, current)
      OBVIOUS
  <2>3. q.messages > 0 \/ q.messages <= 0
      BY ScalingAssumption DEF ReportOK
  <2> HIDE DEF min, backlog, disruptable
  <2> QED
      BY <1>2, <1>3, <2>1, <2>2, <2>3, DesiredCases DEF min, backlog, disruptable
<1>5. PICK desired \in Int, limit \in Int :
         GetDesiredWorkers(w, q, current) =
             convertDesiredReplicasWithRules(current, desired, min, w.max, limit)
    BY <1>4
<1>6. min \in Int /\ w.max \in Nat32 /\ current \in Int /\ w.max \in Int
    BY <1>1, ScalingAssumption DEF SpecOK
<1> HIDE DEF min
<1> DEFINE result == convertDesiredReplicasWithRules(current, desired, min, w.max, limit)
<1>7. result \in Int /\ result <= w.max /\ result >= IF min < w.max THEN min ELSE w.max
    BY <1>6, ConvertRange
<1> HIDE DEF result
<1>8. /\ GetDesiredWorkers(w, q, current) \in Int
      /\ GetDesiredWorkers(w, q, current) <= w.max
      /\ GetDesiredWorkers(w, q, current) >= IF min < w.max THEN min ELSE w.max
    BY <1>5, <1>7 DEF result
<1> QED
    BY <1>1, <1>6, <1>8, ScalingAssumption DEF min

\* Where nothing overflows, the decision takes away at most what maxDisruption
\* allows, unless all workers are idle, and leaves a worker to a backlog.
LEMMA DesiredDisruption ==
    ASSUME NEW w, NEW q, NEW current \in Nat32, SpecOK(w), ReportOK(q),
           q.messages \in Nat32, w.target > 0, Sane(w.maxDisruption)
    PROVE  LET desired == GetDesiredWorkers(w, q, current)
           IN  /\ current <= w.max /\ ~MassiveScaleDown(w, q, current) =>
                     current - desired <= getMaxDisruptableWorkers(w.maxDisruption, current)
               /\ q.messages > 0 /\ w.max > 0 => desired > 0
<1> DEFINE min == getMinWorkers(q.sent, w.min, w.seconds)
           backlog == BacklogWorkers(q.messages, w.target)
           disruptable == getMaxDisruptableWorkers(w.maxDisruption, current)
           desired == GetDesiredWorkers(w, q, current)
<1>1. min \in Nat32 /\ min \in Int
  <2>1. min \in Nat32
      BY MinWorkersRange DEF SpecOK, ReportOK
  <2> HIDE DEF min
  <2> QED
      BY <2>1, ScalingAssumption
<1>2. backlog \in Nat32 /\ (q.messages > 0 => backlog > 0)
    BY BacklogWorkersRange DEF SpecOK, ReportOK
<1>3. disruptable \in Nat32
    BY DisruptableRange DEF SpecOK
<1>4. w.max \in Int /\ q.messages \in Nat
    BY ScalingAssumption DEF SpecOK, ReportOK
<1> DEFINE Rules(x, limit) == convertDesiredReplicasWithRules(current, x, min, w.max, limit)
<1>5. /\ current = 0 => desired = Rules(backlog, disruptable)
      /\ current # 0 /\ q.messages > 0 =>
             desired = Rules(backlog, disruptable) \/ desired = Rules(current, disruptable)
      /\ current # 0 /\ q.messages <= 0 /\ ~MassiveScaleDown(w, q, current) =>
             desired = Rules(min, disruptable)
    BY DesiredCases
<1> HIDE DEF min, backlog, disruptable, desired
<1>6. \A x \in Nat32 : /\ current <= w.max => current - Rules(x, disruptable) <= disruptable
                       /\ w.max > 0 /\ x > 0 => Rules(x, disruptable) > 0
    BY <1>1, <1>3, <1>4, ConvertDisruption
<1> HIDE DEF Rules
<1>7. /\ current <= w.max /\ ~MassiveScaleDown(w, q, current) => current - desired <= disruptable
      /\ q.messages > 0 /\ w.max > 0 => desired > 0
  <2>1. CASE current = 0
      BY <1>2, <1>5, <1>6, <2>1
  <2>2. CASE current # 0 /\ q.messages > 0
      BY <1>2, <1>5, <1>6, <2>2
  <2>3. CASE current # 0 /\ q.messages <= 0
      BY <1>1, <1>4, <1>5, <1>6, <2>3
  <2> QED
      BY <1>4, <2>1, <2>2, <2>3
<1> QED
    BY <1>7 DEF desired, disruptable

-----------------------------------------------------------------------------
(* Where nothing overflows, the decision is a number between the bounds    *)
(* that is closest to what is wanted, or to what maxDisruption leaves.     *)

Clamp(x, min, max) ==
    IF min >= max \/ x > max THEN max ELSE IF x < min THEN min ELSE x

\* What is wanted, or what a limit on the workers that go leaves.
Kept(current, wanted, limit) == IF current - limit > wanted THEN current - limit ELSE wanted

\* What the branches of GetDesiredWorkers hand to the rules.
Wanted(w, q, current) ==
    LET backlog == BacklogWorkers(q.messages, w.target)
    IN  IF current = 0 THEN backlog
        ELSE IF q.messages > 0
             THEN IF isChangeTooSmall(backlog, current) THEN current ELSE backlog
             ELSE IF MassiveScaleDown(w, q, current) THEN 0
                  ELSE getMinWorkers(q.sent, w.min, w.seconds)

Limit(w, q, current) ==
    IF MassiveScaleDown(w, q, current) THEN current
    ELSE getMaxDisruptableWorkers(w.maxDisruption, current)

LEMMA ConvertClamps ==
    ASSUME NEW current \in Nat32, NEW desired \in Nat32, NEW min \in Int, NEW max \in Int,
           NEW maxDisruptable \in Nat32
    PROVE  convertDesiredReplicasWithRules(current, desired, min, max, maxDisruptable)
             = Clamp(Kept(current, desired, maxDisruptable), min, max)
<1>1. Wrap(current - desired) = current - desired
    BY WrapExact, ScalingAssumption
<1>2. Wrap(current - maxDisruptable) = current - maxDisruptable
    BY WrapExact, ScalingAssumption
<1> DEFINE limited == Kept(current, desired, maxDisruptable)
<1>3. limited \in Int
    BY ScalingAssumption DEF Kept
<1>4. limited = IF current - desired > maxDisruptable THEN current - maxDisruptable ELSE desired
    BY ScalingAssumption DEF Kept
<1> HIDE DEF limited
<1>5. convertDesiredReplicasWithRules(current, desired, min, max, maxDisruptable) =
        CASE min >= max                 -> max
          [] min < max /\ limited > max -> max
          [] min < max /\ limited < min -> min
          [] OTHER                      -> limited
    BY <1>1, <1>2, <1>4 DEF convertDesiredReplicasWithRules
<1>6. CASE min >= max
    BY <1>5, <1>6 DEF Clamp, limited
<1>7. CASE min < max
    BY <1>3, <1>5, <1>7 DEF Clamp, limited
<1> QED
    BY <1>6, <1>7

LEMMA DesiredClamps ==
    ASSUME NEW w, NEW q, NEW current \in Nat32, SpecOK(w), ReportOK(q),
           q.messages \in Nat32, w.target > 0, Sane(w.maxDisruption)
    PROVE  LET min == getMinWorkers(q.sent, w.min, w.seconds)
               wanted == Wanted(w, q, current)
               limit == Limit(w, q, current)
           IN  /\ wanted \in Nat32 /\ limit \in Nat32 /\ min \in Nat32
               /\ GetDesiredWorkers(w, q, current)
                    = Clamp(Kept(current, wanted, limit), min, w.max)
<1> DEFINE min == getMinWorkers(q.sent, w.min, w.seconds)
           backlog == BacklogWorkers(q.messages, w.target)
           small == isChangeTooSmall(backlog, current)
           massive == MassiveScaleDown(w, q, current)
           disruptable == getMaxDisruptableWorkers(w.maxDisruption, current)
           wanted == Wanted(w, q, current)
           limit == Limit(w, q, current)
<1>1. min \in Nat32
    BY MinWorkersRange DEF SpecOK, ReportOK
<1>2. backlog \in Nat32
    BY BacklogWorkersRange DEF SpecOK
<1>3. disruptable \in Nat32
    BY DisruptableRange DEF SpecOK
<1>4. w.max \in Int /\ q.messages \in Int /\ 0 \in Nat32
    BY ScalingAssumption DEF SpecOK
<1>5. massive => current # 0 /\ q.messages <= 0
    BY DEF MassiveScaleDown
<1>6. /\ wanted = IF current = 0 THEN backlog
                  ELSE IF q.messages > 0 THEN IF small THEN current ELSE backlog
                       ELSE IF massive THEN 0 ELSE min
      /\ limit = IF massive THEN current ELSE disruptable
    BY DEF Wanted, Limit
<1> DEFINE Rules(x, y) == convertDesiredReplicasWithRules(current, x, min, w.max, y)
<1>7. GetDesiredWorkers(w, q, current) =
        CASE current = 0 -> Rules(backlog, disruptable)
          [] current # 0 /\ q.messages > 0 ->
                Rules(IF small THEN current ELSE backlog, disruptable)
          [] massive -> Rules(0, current)
          [] OTHER -> Rules(min, disruptable)
    BY DEF GetDesiredWorkers
<1> HIDE DEF min, backlog, small, massive, disruptable, wanted, limit
<1>8. min \in Int
    BY <1>1, ScalingAssumption
<1>9. \A x, y \in Nat32 : Rules(x, y) = Clamp(Kept(current, x, y), min, w.max)
    BY <1>4, <1>8, ConvertClamps
<1> HIDE DEF Rules
<1>10. GetDesiredWorkers(w, q, current) = Rules(wanted, limit)
  <2>1. CASE current = 0
      BY <1>5, <1>6, <1>7, <2>1
  <2>2. CASE current # 0 /\ q.messages > 0
      BY <1>4, <1>5, <1>6, <1>7, <2>2
  <2>3. CASE massive
      BY <1>4, <1>5, <1>6, <1>7, <2>3
  <2>4. CASE current # 0 /\ ~(q.messages > 0) /\ ~massive
      BY <1>6, <1>7, <2>4
  <2> QED
      BY <2>1, <2>2, <2>3, <2>4
<1>11. wanted \in Nat32 /\ limit \in Nat32
    BY <1>1, <1>2, <1>3, <1>4, <1>6
<1> QED
    BY <1>1, <1>10, <1>11, <1>9 DEF min, wanted, limit

-----------------------------------------------------------------------------

LEMMA CeilDivMonotone ==
    ASSUME NEW a \in Nat, NEW c \in Nat, a <= c, NEW b \in Nat \ {0}
    PROVE  CeilDiv(a, b) <= CeilDiv(c, b)
<1> DEFINE d == (-a) \div b
           e == (-c) \div b
           r == (-a) % b
           t == (-c) % b
<1>1. /\ d \in Int /\ r \in 0 .. b - 1 /\ -a = b * d + r
      /\ e \in Int /\ t \in 0 .. b - 1 /\ -c = b * e + t
    OBVIOUS
<1> HIDE DEF d, e, r, t
<1>2. e <= d
  <2>1. ASSUME e >= d + 1 PROVE FALSE
    <3>1. b * e >= b * (d + 1)
        BY <1>1, <2>1
    <3>2. b * (d + 1) = b * d + b
        BY <1>1
    <3> QED
        BY <1>1, <3>1, <3>2
  <2> QED
    BY <1>1, <2>1
<1> QED
    BY <1>1, <1>2 DEF CeilDiv, d, e

LEMMA BacklogWorkersMonotone ==
    ASSUME NEW m \in Nat32, NEW n \in Nat32, m <= n, NEW target \in Nat \ {0}
    PROVE  BacklogWorkers(m, target) <= BacklogWorkers(n, target)
<1>1. m \in Nat /\ n \in Nat /\ Int32Max \in Nat
    BY ScalingAssumption
<1>2. CeilDiv(m, target) \in 0 .. m /\ CeilDiv(n, target) \in 0 .. n
    BY <1>1, CeilDivRange
<1>3. BacklogWorkers(m, target) = CeilDiv(m, target)
    BY <1>1, <1>2 DEF BacklogWorkers, FloatToInt32
<1>4. BacklogWorkers(n, target) = CeilDiv(n, target)
    BY <1>1, <1>2 DEF BacklogWorkers, FloatToInt32
<1> QED
    BY <1>1, <1>3, <1>4, CeilDivMonotone

\* The tolerance is a band around the workers there are.
LEMMA ChangeTooSmall ==
    ASSUME NEW desired \in Nat32, NEW current \in Nat32
    PROVE  isChangeTooSmall(desired, current)
             <=> 10 * (desired - current) <= current /\ 10 * (current - desired) <= current
<1>1. Wrap(desired - current) = desired - current
    BY WrapExact, ScalingAssumption
<1> QED
    BY <1>1, ScalingAssumption DEF isChangeTooSmall, Abs

\* More messages never ask for fewer workers.
LEMMA DesiredMonotone ==
    ASSUME NEW w, NEW p, NEW q, NEW current \in Nat32, SpecOK(w), ReportOK(p), ReportOK(q),
           p.messages \in Nat32, q.messages \in Nat32, p.messages <= q.messages,
           p.sent = q.sent, p.idle = q.idle, w.target > 0, Sane(w.maxDisruption)
    PROVE  GetDesiredWorkers(w, p, current) <= GetDesiredWorkers(w, q, current)
<1> DEFINE min == getMinWorkers(q.sent, w.min, w.seconds)
           disruptable == getMaxDisruptableWorkers(w.maxDisruption, current)
           b == BacklogWorkers(p.messages, w.target)
           c == BacklogWorkers(q.messages, w.target)
           x == Wanted(w, p, current)
           y == Wanted(w, q, current)
           i == Limit(w, p, current)
           j == Limit(w, q, current)
<1>1. /\ GetDesiredWorkers(w, p, current) = Clamp(Kept(current, x, i), min, w.max)
      /\ GetDesiredWorkers(w, q, current) = Clamp(Kept(current, y, j), min, w.max)
      /\ x \in Nat32 /\ y \in Nat32 /\ i \in Nat32 /\ j \in Nat32 /\ min \in Nat32
    BY DesiredClamps
<1>2. b \in Nat32 /\ c \in Nat32 /\ b <= c
    BY BacklogWorkersRange, BacklogWorkersMonotone DEF SpecOK
<1>3. /\ Int32Max \in Nat /\ w.max \in Int
      /\ p.messages \in Nat /\ q.messages \in Nat /\ disruptable \in Nat32
    BY ScalingAssumption, DisruptableRange DEF SpecOK
<1>4. /\ MassiveScaleDown(w, p, current) => current # 0 /\ p.messages <= 0
      /\ MassiveScaleDown(w, q, current) =>
            current # 0 /\ q.messages <= 0 /\ (p.messages <= 0 => MassiveScaleDown(w, p, current))
      /\ q.messages <= 0 /\ MassiveScaleDown(w, p, current) => MassiveScaleDown(w, q, current)
    BY DEF MassiveScaleDown
<1>5. /\ x = IF current = 0 THEN b
             ELSE IF p.messages > 0 THEN IF isChangeTooSmall(b, current) THEN current ELSE b
                  ELSE IF MassiveScaleDown(w, p, current) THEN 0 ELSE min
      /\ y = IF current = 0 THEN c
             ELSE IF q.messages > 0 THEN IF isChangeTooSmall(c, current) THEN current ELSE c
                  ELSE IF MassiveScaleDown(w, q, current) THEN 0 ELSE min
      /\ i = IF MassiveScaleDown(w, p, current) THEN current ELSE disruptable
      /\ j = IF MassiveScaleDown(w, q, current) THEN current ELSE disruptable
    BY DEF Wanted, Limit
<1>6. /\ isChangeTooSmall(b, current)
            <=> 10 * (b - current) <= current /\ 10 * (current - b) <= current
      /\ isChangeTooSmall(c, current)
            <=> 10 * (c - current) <= current /\ 10 * (current - c) <= current
    BY <1>2, ChangeTooSmall
<1> HIDE DEF min, disruptable, b, c, x, y, i, j
<1>7. \/ x <= y /\ i = j
      \/ x = min /\ i = j
      \/ x = 0 /\ i = current
  <2>1. CASE current = 0
      BY <1>2, <1>4, <1>5, <2>1
  <2>2. CASE current # 0 /\ p.messages > 0
    <3>1. q.messages > 0 /\ i = j
        BY <1>3, <1>4, <1>5, <2>2
    <3>2. x <= y
      <4>1. b \in Nat /\ c \in Nat /\ current \in Nat
          BY <1>2, <1>3
      <4>2. x = IF isChangeTooSmall(b, current) THEN current ELSE b
          BY <1>5, <2>2
      <4>3. y = IF isChangeTooSmall(c, current) THEN current ELSE c
          BY <1>5, <2>2, <3>1
      <4>4. CASE isChangeTooSmall(b, current) /\ ~isChangeTooSmall(c, current)
        <5>1. current <= c
            BY <1>2, <1>6, <4>1, <4>4
        <5> QED
            BY <4>2, <4>3, <4>4, <5>1
      <4>5. CASE ~isChangeTooSmall(b, current) /\ isChangeTooSmall(c, current)
        <5>1. b <= current
            BY <1>2, <1>6, <4>1, <4>5
        <5> QED
            BY <4>2, <4>3, <4>5, <5>1
      <4>6. CASE isChangeTooSmall(b, current) /\ isChangeTooSmall(c, current)
          BY <4>1, <4>2, <4>3, <4>6
      <4>7. CASE ~isChangeTooSmall(b, current) /\ ~isChangeTooSmall(c, current)
          BY <1>2, <4>2, <4>3, <4>7
      <4> QED
          BY <4>4, <4>5, <4>6, <4>7
    <3> QED
        BY <3>1, <3>2
  <2>3. CASE current # 0 /\ ~(p.messages > 0) /\ MassiveScaleDown(w, p, current)
      BY <1>5, <2>3
  <2>4. CASE current # 0 /\ ~(p.messages > 0) /\ ~MassiveScaleDown(w, p, current)
    <3>1. ~MassiveScaleDown(w, q, current)
        BY <1>3, <1>4, <2>4
    <3> QED
        BY <1>5, <2>4, <3>1
  <2> QED
      BY <2>1, <2>2, <2>3, <2>4
<1>8. current \in Nat
    BY ScalingAssumption
<1> QED
    BY <1>1, <1>3, <1>7, <1>8 DEF Clamp, Kept

\* One decision after the other, for what their branches may want: the second
\* does not undo the first.
LEMMA ClampSettles ==
    ASSUME NEW current \in Nat, NEW min \in Nat, NEW max \in Nat,
           NEW x \in Nat, NEW i \in Nat, NEW y \in Nat, NEW j \in Nat,
           NEW d, d = Clamp(Kept(current, x, i), min, max),
           NEW next, next = Clamp(Kept(d, y, j), min, max),
           x = y \/ x = current \/ y = d \/ (x \in {0, min} /\ y \in {0, min})
    PROVE  /\ d > current => next >= d
           /\ d < current => next <= d
<1>1. d \in Nat /\ d <= max /\ (min < max => d >= min) /\ (min >= max => d = max)
    BY DEF Clamp, Kept
<1>2. next \in Nat /\ next <= max /\ (min < max => next >= min) /\ (min >= max => next = max)
    BY <1>1 DEF Clamp, Kept
<1>3. y = d => next >= d /\ next <= d
    BY <1>1 DEF Clamp, Kept
<1>4. y \in {0, min} => next <= d
    BY <1>1 DEF Clamp, Kept
<1>5. x = y => (d > current => next >= d) /\ (d < current => next <= d)
    BY <1>1 DEF Clamp, Kept
<1>6. x = current => (d > current => next >= d) /\ (d < current => next <= d)
    BY <1>1, <1>2 DEF Clamp, Kept
<1>7. x \in {0, min} => (d > current => next >= d)
    BY <1>1, <1>2 DEF Clamp, Kept
<1> QED
    BY <1>3, <1>4, <1>5, <1>6, <1>7

LEMMA DesiredSettles ==
    ASSUME NEW w, NEW q, NEW current \in Nat32, SpecOK(w), ReportOK(q),
           q.messages \in Nat32, w.target > 0, Sane(w.maxDisruption)
    PROVE  LET d == GetDesiredWorkers(w, q, current)
               next == GetDesiredWorkers(w, q, d)
           IN  /\ d > current => next >= d
               /\ d < current => next <= d
<1> DEFINE d == GetDesiredWorkers(w, q, current)
           next == GetDesiredWorkers(w, q, d)
           min == getMinWorkers(q.sent, w.min, w.seconds)
           b == BacklogWorkers(q.messages, w.target)
           x == Wanted(w, q, current)
           y == Wanted(w, q, d)
           i == Limit(w, q, current)
           j == Limit(w, q, d)
<1>1. d \in Nat32
    BY DesiredRange
<1> HIDE DEF d
<1>2. /\ GetDesiredWorkers(w, q, current) = Clamp(Kept(current, x, i), min, w.max)
      /\ next = Clamp(Kept(d, y, j), min, w.max)
      /\ x \in Nat32 /\ i \in Nat32 /\ y \in Nat32 /\ j \in Nat32 /\ min \in Nat32
    BY <1>1, DesiredClamps
<1>3. q.messages \in Nat /\ w.max \in Nat /\ w.target \in Nat \ {0}
    BY ScalingAssumption DEF SpecOK
<1>4. q.messages <= 0 => b = 0
  <2>1. ASSUME q.messages <= 0 PROVE b = 0
    <3>1. q.messages = 0
        BY <1>3, <2>1
    <3>2. CeilDiv(q.messages, w.target) = 0
        BY <1>3, <3>1, CeilDivRange
    <3> QED
        BY <1>3, <3>2, ScalingAssumption DEF BacklogWorkers, FloatToInt32
  <2> QED
      BY <2>1
<1> HIDE DEF min, b
<1>5. /\ q.messages > 0 => x \in {b, current} /\ y \in {b, d}
      /\ ~(q.messages > 0) => x \in {b, 0, min} /\ y \in {b, 0, min}
    BY DEF Wanted, b, min
<1> HIDE DEF next, x, y, i, j
<1>6. \/ x = y \/ x = current \/ y = d
      \/ x \in {0, min} /\ y \in {0, min}
    BY <1>3, <1>4, <1>5
<1>7. /\ current \in Nat /\ min \in Nat /\ x \in Nat /\ i \in Nat /\ y \in Nat /\ j \in Nat
      /\ d = Clamp(Kept(current, x, i), min, w.max)
    BY <1>2, ScalingAssumption DEF d
<1>8. (d > current => next >= d) /\ (d < current => next <= d)
  <2>1. PICK max \in Nat : max = w.max
      BY <1>3
  <2>2. /\ d = Clamp(Kept(current, x, i), min, max)
        /\ next = Clamp(Kept(d, y, j), min, max)
      BY <1>2, <1>7, <2>1
  <2> QED
      BY <1>6, <1>7, <2>2, ClampSettles
<1> QED
    BY <1>8 DEF next, d

=============================================================================
