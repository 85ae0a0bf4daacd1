--------------------------- MODULE MCPaymentMatching ---------------------------
(***************************************************************************)
(* Instances of PaymentMatching for TLC: credits of one coin.              *)
(***************************************************************************)
EXTENDS PaymentMatching, TLC

CostsOf == [p \in 0..4 |-> IF p = 0 THEN 0 ELSE 1]

OneCoin == [b \in BankRows |-> 1]

Nothing == {{}}

Waiting ==
    {{[kind |-> "draft", id |-> 1, intent |-> "reply", step |-> "regeling"],
      [kind |-> "review", draft |-> 1],
      [kind |-> "advice", step |-> "regeling", status |-> "pending"],
      [kind |-> "mirror"]}}

Symmetric == Permutations(PaymentIds) \cup Permutations(MatchIds) \cup Permutations(Requests)
=============================================================================
