------------------------------- MODULE SSEHub -------------------------------
(***************************************************************************)
(* internal/scanner/sse.go: the fan-out of events to the connected         *)
(* clients.  Every method runs under h.mu, so each is one function of the  *)
(* clients' channels.  A channel is the sequence of the events buffered in *)
(* it, which are read even after it was closed.                            *)
(***************************************************************************)
EXTENDS Naturals, Sequences

CONSTANTS
    Clients,        \* connections to GET /api/scan/sse
    QueueCap        \* config.SSEHubChannelBuffer

ASSUME HubAssumption == QueueCap \in Nat \ {0}

NoClients == [k \in Clients |-> [in |-> FALSE, queue |-> <<>>]]

Subscribe(hub, k) == [hub EXCEPT ![k] = [in |-> TRUE, queue |-> <<>>]]

\* The handler has returned: what is buffered is not read any more.
Unsubscribe(hub, k) == [hub EXCEPT ![k] = [in |-> FALSE, queue |-> <<>>]]

\* A full channel loses the event, for that client only.
Broadcast(hub, event) ==
    [k \in Clients |->
        IF hub[k].in /\ Len(hub[k].queue) < QueueCap
        THEN [hub[k] EXCEPT !.queue = Append(@, event)]
        ELSE hub[k]]

Receive(hub, k) == [hub EXCEPT ![k].queue = Tail(@)]

\* Run, once its context is done: what is buffered in a closed channel is still read.
CloseAll(hub) == [k \in Clients |-> [hub[k] EXCEPT !.in = FALSE]]

=============================================================================
