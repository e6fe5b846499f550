----------------------------- MODULE MCSQS -----------------------------
(* Small instances of SQS for TLC. *)
EXTENDS SQS

SpecOf(min, max, seconds, u) ==
    [min |-> min, max |-> max, target |-> 1, seconds |-> seconds,
     maxDisruption |-> [percent |-> FALSE, value |-> 0], uri |-> u]

\* In a region without clients, by throughput, and by backlog alone.
Far          == SpecOf(0, 1, 0, "far")
ByThroughput == SpecOf(0, 1, 1, "near")
ByBacklog    == SpecOf(0, 1, 0, "near")

MCWpaSpecs == {Far, ByThroughput, ByBacklog}

MCEdits == {<<Far, ByBacklog>>}

MCServiceOf == [u \in Uris |-> "sqs"]

MCOverflow32 == -8

=============================================================================
