--------------------------- MODULE ScanProviders ---------------------------
(***************************************************************************)
(* What the providers of internal/scanner answer to FetchNativeBalances    *)
(* and FetchTokenBalances, as the set of answers each can give for a       *)
(* batch.  onChain[i] is the true balance of address i in the asset asked  *)
(* for.  The chains' services are external: they answer, refuse, answer in *)
(* part or not at all.                                                     *)
(*                                                                         *)
(* An error carries the two things the pool asks of it: "retriable" for    *)
(* ErrProviderRateLimit, ErrProviderUnavailable and transient errors,      *)
(* "fatal" for any other (a failed request, an undecodable body, a done    *)
(* context).  Results that come with an error are never used.              *)
(***************************************************************************)
EXTENDS ScanDB

Answer == [err : {"none", "retriable", "fatal"}, results : SUBSET BalanceResult]

Refuses == [err |-> "retriable", results |-> {}]
Breaks == [err |-> "fatal", results |-> {}]

\* An answer in which the addresses of "unread" failed: their balance is "0" and
\* Error is set.
Reads(asset, batch, onChain, unread) ==
    [err |-> "none",
     results |-> {[index |-> i, asset |-> asset,
                   balance |-> IF i \in unread THEN "0" ELSE onChain[i],
                   reliable |-> i \notin unread] : i \in batch}]

\* One request per address: an address that fails is annotated and the loop goes
\* on, and only a batch that fails as a whole is an error.
OneByOne(asset, batch, onChain) ==
    {Reads(asset, batch, onChain, unread) : unread \in SUBSET batch \ {batch}} \cup {Refuses}

\* One request for the batch: it fails as a whole, or any of the addresses may be
\* missing from an answer that counts as a success, even all of them.
AllAtOnce(asset, batch, onChain) ==
    {Reads(asset, batch, onChain, unread) : unread \in SUBSET batch} \cup {Refuses, Breaks}

BlockstreamNative(batch, onChain) == OneByOne(Native, batch, onChain)
MempoolNative(batch, onChain) == OneByOne(Native, batch, onChain)

BscScanNative(batch, onChain) == AllAtOnce(Native, batch, onChain)
BscScanToken(token, batch, onChain) == OneByOne(token, batch, onChain)

BSCRPCNative(batch, onChain) == OneByOne(Native, batch, onChain)
BSCRPCToken(token, batch, onChain) == OneByOne(token, batch, onChain)

SolanaNative(batch, onChain) == AllAtOnce(Native, batch, onChain)
SolanaToken(token, batch, onChain) == AllAtOnce(token, batch, onChain)

\* No BTC provider knows a token, and no token is configured for BTC.
Answers(provider, asset, batch, onChain) ==
    CASE provider = "Blockstream" -> BlockstreamNative(batch, onChain)
      [] provider = "Mempool" -> MempoolNative(batch, onChain)
      [] provider = "BscScan" /\ asset = Native -> BscScanNative(batch, onChain)
      [] provider = "BscScan" /\ asset # Native -> BscScanToken(asset, batch, onChain)
      [] provider = "BSCRPC" /\ asset = Native -> BSCRPCNative(batch, onChain)
      [] provider = "BSCRPC" /\ asset # Native -> BSCRPCToken(asset, batch, onChain)
      [] asset = Native -> SolanaNative(batch, onChain)
      [] OTHER -> SolanaToken(asset, batch, onChain)

=============================================================================
