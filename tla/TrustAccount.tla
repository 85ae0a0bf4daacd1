----------------------------- MODULE TrustAccount -----------------------------
(***************************************************************************)
(* What the trust ledger promises the client, without rows, approvals or   *)
(* requests: per case an amount of money that is never negative, and steps *)
(* that move one transaction's worth of money in or out of one case.       *)
(***************************************************************************)
EXTENDS Money

CONSTANT Cases

VARIABLE balance

Receive(c, a) == balance' = [balance EXCEPT ![c] = @ + a]

PayOut(c, a) == balance[c] >= a /\ balance' = [balance EXCEPT ![c] = @ - a]

Init == balance = [c \in Cases |-> 0]

Next == \E c \in Cases, a \in Amounts : Receive(c, a) \/ PayOut(c, a)

Spec == Init /\ [][Next]_balance
=============================================================================
