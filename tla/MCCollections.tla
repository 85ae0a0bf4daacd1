----------------------------- MODULE MCCollections -----------------------------
(***************************************************************************)
(* Instances of Collections for TLC.  Costs are one coin on any principal, *)
(* the one schedule agreed has two installments, and a case may carry a    *)
(* draft, its review task and a pending advice when its money moves.       *)
(***************************************************************************)
EXTENDS Collections, TLC

CostsOf == [p \in 0..4 |-> IF p = 0 THEN 0 ELSE 1]

TwoInstallments == {<<2, 1>>}

Waiting ==
    {{}, {[kind |-> "draft", id |-> 1, intent |-> "reply", step |-> "work"],
          [kind |-> "review", draft |-> 1],
          [kind |-> "advice", step |-> "work", status |-> "pending"],
          [kind |-> "mirror"]}}

Nothing == {{}}

Symmetric == Permutations(PaymentIds) \cup Permutations(ClaimIds)
=============================================================================
