-------------------------- MODULE MCController --------------------------
(* Small instances of Controller for TLC. *)
EXTENDS Controller

Spec1(min, max, target, disruption, u, d) ==
    [min |-> min, max |-> max, target |-> target, seconds |-> 2,
     maxDisruption |-> [percent |-> FALSE, value |-> disruption],
     uri |-> u, deployment |-> d]

\* One workload, one queue, one pod at a time may go.
MCOneSpec == {Spec1(0, 3, 1, 1, "sqs", d) : d \in Deployments}

\* The smallest int32, as on amd64.
MCOverflow32 == -32

\* Another queue, at another target, with fewer workers at most.
MCTwoSpecs == {Spec1(0, 3, 1, 1, "sqs", d) : d \in Deployments}
    \cup {Spec1(1, 2, 2, 1, "tube", d) : d \in Deployments}

\* Specs the controller cannot act on, next to one it can.
MCOddSpecs == MCOneSpec
    \cup {Spec1(0, 3, 1, 1, u, d) : u \in {"bad", "ftp"}, d \in Deployments}
    \cup {Spec1(0, 3, 1, 1, "sqs", NoDeployment)}

\* Any of the backlogs in any queue, or one in the first and another in the second.
MCAnyBacklogs == [Uris -> Backlogs]

MCTwoBacklogs == {[u \in Uris |-> IF u = "sqs" THEN 3 ELSE 2]}

MCServiceOf == [u \in Uris |-> CASE u = "sqs"  -> "sqs"
                                 [] u = "tube" -> "beanstalkd"
                                 [] u = "bad"  -> "malformed"
                                 [] OTHER      -> "unsupported"]

=============================================================================
