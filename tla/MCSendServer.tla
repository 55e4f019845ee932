---------------------------- MODULE MCSendServer ----------------------------
EXTENDS SendServer

CONSTANTS q1, q2, w1, w2

\* The requests arrive in the order q1, q2; two of them for the same chain,
\* and for its coin, the steps of a token sweep being the same but one.
InOrder ==
    req[q2].pc # "new" =>
        /\ req[q1].pc # "new"
        /\ Sweeps(q2, req[q1].chain, "NATIVE") /\ req[q1].token = "NATIVE"

\* The first process ends with one request, that its reconciler may race, or
\* goes on to a second when the reconciler is done; the next process runs its
\* reconciler, once it has listed the rows, beside the second.
OneSweepEnds ==
    req[q2].pc # "new" =>
        IF restarts = 0 THEN phase = "serving" /\ rec.pc = "idle" ELSE rec.pc # "list"

\* A dismissal or a failed statement, when all else is one process with one
\* request.
OneMishap ==
    (faults > 0 \/ \E r \in Rows : txState[r].status = "dismissed") =>
        phase = "serving" /\ restarts = 0 /\ req[q2].pc = "new"

\* A sweep of a second address is one of BSC coins, w1 first, alone in a
\* process with no rows to reconcile.
Takes(q, w) == w \in req[q].todo \/ txState[<<q, w>>].status # "absent"
SecondAddress ==
    /\ Takes(q1, w2) =>
          /\ Sweeps(q1, "BSC", "NATIVE") /\ Takes(q1, w1)
          /\ req[q2].pc = "new" /\ restarts = 0 /\ faults = 0 /\ ~lost
          /\ phase = "serving" /\ rec.pc = "idle"
          /\ \A r \in Rows : txState[r].status # "dismissed"
    /\ ~Takes(q2, w2)

=============================================================================
