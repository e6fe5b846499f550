-------------------------- MODULE MCBeanstalk --------------------------
(* Small instances of Beanstalk for TLC. *)
EXTENDS Beanstalk

SpecOf(min) ==
    [min |-> min, max |-> 1, target |-> 1, seconds |-> 0,
     maxDisruption |-> [percent |-> FALSE, value |-> 0], uri |-> Tube]

MCWpaSpecs == {SpecOf(0), SpecOf(1)}

MCEdits == {<<SpecOf(1), SpecOf(0)>>}

MCServiceOf == [u \in Uris |-> "beanstalkd"]

MCOverflow32 == -8

=============================================================================
