---------------------------- MODULE WorkItem ----------------------------
(***************************************************************************)
(* What the controller relies on its work queue for, of one item: once     *)
(* added it is wanted until a worker takes it, one worker has it at a      *)
(* time, what is added meanwhile is wanted again, and a worker that fails  *)
(* puts it back for later.  Only the end of the process may lose it.       *)
(***************************************************************************)
CONSTANT Workers

VARIABLES
    wanted,      \* the item was added, and nobody has taken it since
    later,       \* it is to be wanted again after a back-off
    holders,     \* the workers that have taken it and are not done
    failing,     \* those of them whose sync has failed
    running      \* the process

Init == ~wanted /\ ~later /\ holders = {} /\ failing = {} /\ running

Add == wanted' = TRUE /\ UNCHANGED <<later, holders, failing, running>>

Take(w) ==
    /\ wanted /\ holders = {}
    /\ wanted' = FALSE /\ holders' = {w} /\ failing' \in {{}, {w}}
    /\ UNCHANGED <<later, running>>

\* A worker that fails is not done with it.
Done(w) ==
    /\ holders = {w} /\ failing = {}
    /\ holders' = {}
    /\ UNCHANGED <<wanted, later, failing, running>>

Retry(w) ==
    /\ holders = {w} /\ failing = {w}
    /\ holders' = {} /\ failing' = {} /\ later' = TRUE
    /\ UNCHANGED <<wanted, running>>

\* The back-off ends.
Redeliver ==
    /\ later
    /\ later' = FALSE /\ wanted' = TRUE
    /\ UNCHANGED <<holders, failing, running>>

End == running /\ running' = FALSE /\ UNCHANGED <<wanted, later, holders, failing>>

Restart ==
    /\ ~running /\ running' = TRUE
    /\ wanted' \in BOOLEAN /\ later' = FALSE
    /\ holders' = {} /\ failing' = {}

Next ==
    \/ Add \/ Redeliver \/ End \/ Restart
    \/ \E w \in Workers : Take(w) \/ Done(w) \/ Retry(w)

=============================================================================
