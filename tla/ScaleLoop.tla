---------------------------- MODULE ScaleLoop ----------------------------
(***************************************************************************)
(* What the autoscaler promises of a workload's replicas, and all it       *)
(* promises: apart from what users do by hand, every change is a decision  *)
(* GetDesiredWorkers takes on the replicas the workload has at that very   *)
(* moment, for some spec it was given and some report on its queue.  Where *)
(* the decision reads them, how stale, how often and by whom is left open. *)
(***************************************************************************)
EXTENDS Scaling

CONSTANTS
    Specs,            \* specs the resource may have had
    Reports,          \* what may have been known about its queue
    EditedReplicas    \* replicas users may choose

VARIABLE replicas

Init == replicas \in Nat32

Scale ==
    \E w \in Specs, q \in Reports : replicas' = GetDesiredWorkers(w, q, replicas)

Edit == replicas' \in EditedReplicas

Next == Scale \/ Edit

Spec == Init /\ [][Next]_replicas

=============================================================================
