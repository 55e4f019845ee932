------------------------- MODULE TransferLifecycle -------------------------
(***************************************************************************)
(* What HDPay promises of the transfers that empty a wallet, whatever      *)
(* request, goroutine or process handles them: one request at a time       *)
(* sweeps a chain, and each only once; it alone sends its transfers, each  *)
(* once; what the chain made of a transfer is final; and a transfer is     *)
(* called confirmed only if it was mined.                                  *)
(***************************************************************************)

CONSTANTS
    Requests,   \* what may sweep a chain
    Sources,    \* the addresses a sweep may empty
    Chains

VARIABLES
    sweeping,   \* [Chains -> the requests that sweep it]
    fate,       \* [Requests \X Sources -> what the chain made of the transfer]
    confirmed   \* the transfers called confirmed

vars == <<sweeping, fate, confirmed>>

Transfers == Requests \X Sources

Init ==
    /\ sweeping = [c \in Chains |-> {}]
    /\ fate = [h \in Transfers |-> "unsent"]
    /\ confirmed = {}

Begin(q, c) ==
    /\ sweeping[c] = {}
    /\ \A s \in Sources : fate[<<q, s>>] = "unsent"
    /\ sweeping' = [sweeping EXCEPT ![c] = {q}]
    /\ UNCHANGED <<fate, confirmed>>

Send(q, c, s) ==
    /\ q \in sweeping[c]
    /\ fate[<<q, s>>] = "unsent"
    /\ fate' = [fate EXCEPT ![<<q, s>>] = "mempool"]
    /\ UNCHANGED <<sweeping, confirmed>>

End(q, c) ==
    /\ sweeping[c] = {q}
    /\ sweeping' = [sweeping EXCEPT ![c] = {}]
    /\ UNCHANGED <<fate, confirmed>>

\* The process ends, and its sweeps with it.
Abort ==
    /\ sweeping' = [c \in Chains |-> {}]
    /\ UNCHANGED <<fate, confirmed>>

Settle(h) ==
    /\ fate[h] = "mempool"
    /\ \E outcome \in {"mined", "reverted"} : fate' = [fate EXCEPT ![h] = outcome]
    /\ UNCHANGED <<sweeping, confirmed>>

\* What is called confirmed was mined; a user may dismiss it.
Report ==
    /\ confirmed' \subseteq confirmed \cup {h \in Transfers : fate[h] = "mined"}
    /\ UNCHANGED <<sweeping, fate>>

Next ==
    \/ \E q \in Requests, c \in Chains :
          Begin(q, c) \/ End(q, c) \/ \E s \in Sources : Send(q, c, s)
    \/ \E h \in Transfers : Settle(h)
    \/ Report \/ Abort

Spec == Init /\ [][Next]_vars

=============================================================================
