------------------------------ MODULE MCPoller ------------------------------
(* Instances of module Poller for TLC. *)
EXTENDS Poller, TLC

CONSTANTS a1, w1, w2, h1, h2

OneBtcAddress == [a \in Addresses |-> "BTC"]
PaysOne == [h \in Hashes |-> {a1}]
Symmetric == Permutations(WatchIDs) \cup Permutations(Hashes)

\* Two watches that race for one transaction, or one watch with two: both at
\* once multiply the states and meet no code the two do not.
RaceOrBatch ==
    Cardinality({h \in Hashes : onChain[h] # "absent"})
        + Cardinality({w \in WatchIDs : g[w].pc # "idle"}) <= 3

\* ... under a crash and restart, or a failed statement, but not both.
OneFailure == restarts + faults <= 1

=============================================================================
