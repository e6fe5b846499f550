---------------------------- MODULE MCPoller ----------------------------
(* Small instances of Poller for TLC. *)
EXTENDS Poller

\* A queue of each service, and a URI of none.
MCServiceOf == [u \in Uris |-> CASE u = "sqsA" -> "sqs"
                                 [] u = "tube" -> "beanstalkd"
                                 [] OTHER      -> "unsupported"]

\* A poll that knows the messages only.
MCUnknown == {-1}

\* Any key may be given any of the URIs.
MCUrisOf == [k \in Keys |-> Uris]

=============================================================================
