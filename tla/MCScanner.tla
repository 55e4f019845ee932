----------------------------- MODULE MCScanner -----------------------------
(* Instances of Scanner for TLC. *)
EXTENDS Scanner, TLC

\* Two BSC providers: one answers for a batch, the other address by address.
BscPools == ("BSC" :> <<"BscScan", "BSCRPC">>)
BscBatch == ("BscScan" :> 2 @@ "BSCRPC" :> 1)
BscTokens == ("BSC" :> <<"USDC">>)

\* Addresses 0 and 1 of a request for up to three; 0 holds the native coin.
BscAddresses == ("BSC" :> 2)
BscFunds == ("BSC" :> {<<0, Native>>})

=============================================================================
