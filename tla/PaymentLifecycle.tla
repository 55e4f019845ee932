-------------------------- MODULE PaymentLifecycle --------------------------
(***************************************************************************)
(* What the Poller promises about one payment, whatever goroutine, retry   *)
(* or restart handles it: it is seen, its award is fixed when it is        *)
(* confirmed, and that award enters the total of its payee at most once.   *)
(* Nothing else changes a total.                                           *)
(***************************************************************************)
EXTENDS Naturals

CONSTANTS
    Payments,   \* what may be paid
    Payees,     \* the accounts
    NoPayee,    \* the payee of an unseen payment
    Awards      \* the points a payment may be worth

VARIABLES
    stage,      \* [Payments -> Stage]
    payee,      \* [Payments -> the account a seen payment is for]
    award,      \* [Payments -> the points a confirmed payment is worth]
    total       \* [Payees -> points awarded so far]

vars == <<stage, payee, award, total>>

Stage == {"unseen", "pending", "confirmed", "credited"}

Init ==
    /\ stage = [h \in Payments |-> "unseen"]
    /\ payee = [h \in Payments |-> NoPayee]
    /\ award = [h \in Payments |-> 0]
    /\ total = [a \in Payees |-> 0]

See(h, a) ==
    /\ stage[h] = "unseen"
    /\ stage' = [stage EXCEPT ![h] = "pending"]
    /\ payee' = [payee EXCEPT ![h] = a]
    /\ UNCHANGED <<award, total>>

Confirm(h, p) ==
    /\ stage[h] = "pending"
    /\ stage' = [stage EXCEPT ![h] = "confirmed"]
    /\ award' = [award EXCEPT ![h] = p]
    /\ UNCHANGED <<payee, total>>

\* A payment first seen when already confirmed.
SeeConfirmed(h, a, p) ==
    /\ stage[h] = "unseen"
    /\ stage' = [stage EXCEPT ![h] = "confirmed"]
    /\ payee' = [payee EXCEPT ![h] = a]
    /\ award' = [award EXCEPT ![h] = p]
    /\ UNCHANGED total

Credit(h) ==
    /\ stage[h] = "confirmed"
    /\ stage' = [stage EXCEPT ![h] = "credited"]
    /\ total' = [total EXCEPT ![payee[h]] = @ + award[h]]
    /\ UNCHANGED <<payee, award>>

Next ==
    \E h \in Payments :
        \/ \E a \in Payees : See(h, a) \/ \E p \in Awards : SeeConfirmed(h, a, p)
        \/ \E p \in Awards : Confirm(h, p)
        \/ Credit(h)

Spec == Init /\ [][Next]_vars

=============================================================================
