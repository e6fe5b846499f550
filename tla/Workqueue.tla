---------------------------- MODULE Workqueue ----------------------------
(***************************************************************************)
(* client-go's rate limited work queue, as the controller uses it: an item *)
(* waits at most once, is handed to one worker at a time, and is queued    *)
(* again at its Done when it was added while it was being processed.       *)
(* Back-off delays are not measured: a delayed item is added some day.     *)
(***************************************************************************)
EXTENDS Sequences

\* queue: the order of work; dirty: what needs processing; processing: what a
\* worker holds; delayed: what AddRateLimited keeps back.
EmptyQueue == [queue |-> <<>>, dirty |-> {}, processing |-> {}, delayed |-> {}]

\* A bug the runs look for: Add does not look at what is being processed.
EnqueueAlways(wq, item) ==
    IF item \in wq.dirty THEN wq
    ELSE [wq EXCEPT !.dirty = @ \cup {item}, !.queue = Append(@, item)]

Enqueue(wq, item) ==
    IF item \in wq.dirty THEN wq
    ELSE [wq EXCEPT !.dirty = @ \cup {item},
                    !.queue = IF item \in wq.processing THEN @ ELSE Append(@, item)]

\* A bug the runs look for: who processes what is not kept.
DequeueUnmarked(wq) ==
    [wq EXCEPT !.queue = Tail(@), !.dirty = @ \ {Head(wq.queue)}]

Dequeue(wq) ==
    LET item == Head(wq.queue)
    IN  [wq EXCEPT !.queue = Tail(@),
                   !.dirty = @ \ {item},
                   !.processing = @ \cup {item}]

\* A bug the runs look for: what was added meanwhile is taken for done, too.
ItemDoneForAll(wq, item) ==
    [wq EXCEPT !.processing = @ \ {item}, !.dirty = @ \ {item}]

ItemDone(wq, item) ==
    [wq EXCEPT !.processing = @ \ {item},
               !.queue = IF item \in wq.dirty THEN Append(@, item) ELSE @]

Delay(wq, item) == [wq EXCEPT !.delayed = @ \cup {item}]

Redeliver(wq, item) == Enqueue([wq EXCEPT !.delayed = @ \ {item}], item)

=============================================================================
