------------------------------ MODULE MailPromise ------------------------------
(***************************************************************************)
(* What the queue behind "Verstuur later" promises about one planned mail, *)
(* without dispatchers, claims, crashes or notices: it waits, and then it  *)
(* is either withdrawn for good or taken for good; only a mail that was    *)
(* taken reaches the provider, and it does so at most once.  There is no   *)
(* second attempt.                                                         *)
(***************************************************************************)
CONSTANT Mails

VARIABLES fate, delivered

Plan(m) == /\ fate[m] = "none"
           /\ fate' = [fate EXCEPT ![m] = "waiting"]
           /\ UNCHANGED delivered

Withdraw(m) == /\ fate[m] = "waiting"
               /\ fate' = [fate EXCEPT ![m] = "withdrawn"]
               /\ UNCHANGED delivered

Take(m) == /\ fate[m] = "waiting"
           /\ fate' = [fate EXCEPT ![m] = "taken"]
           /\ UNCHANGED delivered

Deliver(m) == /\ fate[m] = "taken"
              /\ delivered[m] = 0
              /\ delivered' = [delivered EXCEPT ![m] = 1]
              /\ UNCHANGED fate

Init == /\ fate = [m \in Mails |-> "none"]
        /\ delivered = [m \in Mails |-> 0]

Next == \E m \in Mails : Plan(m) \/ Withdraw(m) \/ Take(m) \/ Deliver(m)

Spec == Init /\ [][Next]_<<fate, delivered>>
=============================================================================
