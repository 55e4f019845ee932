---------------------------- MODULE MCGasPreSeed ----------------------------
(* Two requests for gas from one source; the list of one names an address twice. *)
EXTENDS GasPreSeed, TLC

TwoRequests == {"q1", "q2"}
TwoTargets == ("q1" :> <<"t1", "t1">> @@ "q2" :> <<"t2">>)

=============================================================================
