------------------------------- MODULE Event --------------------------------
(***************************************************************************)
(* event_listener::Event as async_channel uses it: the listening tasks,    *)
(* oldest first, and those notified and not polled yet.  A notification    *)
(* without listeners is not kept.                                          *)
(***************************************************************************)
EXTENDS WaitQueue

Events(S) == [queue : Seq(S), woken : SUBSET S]

NewEvent == [queue |-> <<>>, woken |-> {}]

Listen(e, t) == [e EXCEPT !.queue = Append(@, t)]

\* notify_additional(1)
NotifyNext(e) ==
    IF e.queue = <<>> THEN e
    ELSE [queue |-> Tail(e.queue), woken |-> e.woken \cup {Head(e.queue)}]

NotifyAll(e) == [queue |-> <<>>, woken |-> e.woken \cup Waiting(e.queue)]

Consume(e, t) == [e EXCEPT !.woken = @ \ {t}]

\* The listener is dropped: a notification it had not used passes on.
Unlisten(e, t) ==
    IF t \in e.woken THEN NotifyNext(Consume(e, t)) ELSE [e EXCEPT !.queue = Leave(@, t)]
=============================================================================
