----------------------------- MODULE MCTrustLedger -----------------------------
(***************************************************************************)
(* Instances of TrustLedger for TLC.  Every invoice totals InvoiceTotal,   *)
(* except the credit note invNote, whose total is negative.                *)
(***************************************************************************)
EXTENDS TrustLedger, TLC

CONSTANTS InvoiceTotal, invNote

InvoiceTotals == [i \in Invoices |-> IF i = invNote THEN -1 ELSE InvoiceTotal]

Symmetric ==
    Permutations(Requests) \cup Permutations(Txs) \cup Permutations(Users)
      \cup Permutations(PaymentIds) \cup Permutations(Cases)
=============================================================================
