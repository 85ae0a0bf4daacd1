--------------------------- MODULE CollectionsProofs ---------------------------
(***************************************************************************)
(* The money of a case, for every set of claims, payments, arrangements,   *)
(* bank credits and requests, and any amounts.                             *)
(*                                                                         *)
(* It begins with costs and their division: the scale of art. 6:96 BW is   *)
(* bounded and grows with the principal, what a case agrees is booked as   *)
(* it is shown but for one case, and the division of a payment follows     *)
(* art. 6:44 BW.                                                           *)
(*                                                                         *)
(* What follows holds with any number of overlapping requests.  What it  *)
(* rests on is the lock of create_payment: a booking reads the claims and  *)
(* payments of the moment.  Beyond types, MoneyInv remembers that a        *)
(* payment that a request once loaded keeps its day and its division for   *)
(* as long as it exists, and that its id is not given away meanwhile.      *)
(*                                                                         *)
(* The last part is about one request at a time.                         *)
(***************************************************************************)
EXTENDS PaymentMatching, MoneyLemmas

LEMMA LeastGreatest ==
    ASSUME NEW a \in Int, NEW b \in Int
    PROVE  /\ Least(a, b) \in {a, b} /\ Least(a, b) <= a /\ Least(a, b) <= b
           /\ Greatest(a, b) \in {a, b} /\ a <= Greatest(a, b) /\ b <= Greatest(a, b)
           /\ AtLeastZero(a) \in {a, 0} /\ AtLeastZero(a) \in Nat /\ a <= AtLeastZero(a)
BY SMT DEF Least, Greatest, AtLeastZero

-----------------------------------------------------------------------------
(* The scale.                                                              *)

\* The two roundings that the scale and the VAT use.
LEMMA RoundedFacts ==
    ASSUME NEW n \in Nat, NEW m \in Nat, n <= m
    PROVE  /\ Rounded(n, 1000) \in Nat /\ Rounded(n, 1000) <= Rounded(m, 1000)
           /\ Rounded(n, 100) \in Nat /\ Rounded(n, 100) <= Rounded(m, 100)
BY SMT DEF Rounded

LEMMA ScaleFacts ==
    ASSUME NEW p \in Int, NEW q \in Int, p <= q
    PROVE  Scale(p) \in Nat /\ Scale(p) <= Scale(q)
<1> DEFINE a(x) == InTier(x, 0, 250000)
           b(x) == InTier(x, 250000, 250000)
           c(x) == InTier(x, 500000, 500000)
           d(x) == InTier(x, 1000000, 19000000)
           e(x) == AtLeastZero(x - 20000000)
<1>1. /\ a(p) \in Nat /\ a(q) \in Nat /\ a(p) <= a(q)
      /\ b(p) \in Nat /\ b(q) \in Nat /\ b(p) <= b(q)
      /\ c(p) \in Nat /\ c(q) \in Nat /\ c(p) <= c(q)
      /\ d(p) \in Nat /\ d(q) \in Nat /\ d(p) <= d(q)
  BY SMT DEF InTier, Least, AtLeastZero
<1>2. e(p) \in Nat /\ e(q) \in Nat /\ e(p) <= e(q)
  BY SMT DEF AtLeastZero
<1> HIDE DEF a, b, c, d, e
<1>3. /\ Rounded(a(p) * 150, 1000) \in Nat /\ Rounded(a(q) * 150, 1000) \in Nat
      /\ Rounded(a(p) * 150, 1000) <= Rounded(a(q) * 150, 1000)
  BY <1>1, RoundedFacts, SMT
<1>4. /\ Rounded(b(p) * 100, 1000) \in Nat /\ Rounded(b(q) * 100, 1000) \in Nat
      /\ Rounded(b(p) * 100, 1000) <= Rounded(b(q) * 100, 1000)
  BY <1>1, RoundedFacts, SMT
<1>5. /\ Rounded(c(p) * 50, 1000) \in Nat /\ Rounded(c(q) * 50, 1000) \in Nat
      /\ Rounded(c(p) * 50, 1000) <= Rounded(c(q) * 50, 1000)
  BY <1>1, RoundedFacts, SMT
<1>6. /\ Rounded(d(p) * 10, 1000) \in Nat /\ Rounded(d(q) * 10, 1000) \in Nat
      /\ Rounded(d(p) * 10, 1000) <= Rounded(d(q) * 10, 1000)
  BY <1>1, RoundedFacts, SMT
<1>7. /\ Rounded(e(p) * 5, 1000) \in Nat /\ Rounded(e(q) * 5, 1000) \in Nat
      /\ Rounded(e(p) * 5, 1000) <= Rounded(e(q) * 5, 1000)
  BY <1>2, RoundedFacts, SMT
<1>8. \A x : Scale(x) = Rounded(a(x) * 150, 1000) + Rounded(b(x) * 100, 1000)
                        + Rounded(c(x) * 50, 1000) + Rounded(d(x) * 10, 1000)
                        + Rounded(e(x) * 5, 1000)
  BY SMT DEF Scale, a, b, c, d, e
<1> QED
  BY <1>3, <1>4, <1>5, <1>6, <1>7, <1>8, SMT

\* Any claim costs at least the minimum of forty euros and at most the
\* maximum of 6775 (wik.py, WIK_MINIMUM and WIK_MAXIMUM).
THEOREM ScaleIsBounded ==
    ASSUME NEW p \in Int
    PROVE  /\ p <= 0 => BikExclusive(p) = 0
           /\ p > 0 => 4000 <= BikExclusive(p) /\ BikExclusive(p) <= 677500
<1>1. Scale(p) \in Int
  BY ScaleFacts
<1> QED
  BY <1>1, SMT DEF BikExclusive, Least, Greatest

\* A higher principal never costs less, with VAT or without, although the
\* tiers are rounded one by one (calculate_bik).
THEOREM ScaleGrows ==
    ASSUME NEW p \in Int, NEW q \in Int, p <= q, NEW withBtw \in BOOLEAN
    PROVE  calculate_bik(p, withBtw) <= calculate_bik(q, withBtw)
<1>1. /\ BikExclusive(p) \in Nat /\ BikExclusive(q) \in Nat
      /\ BikExclusive(p) <= BikExclusive(q)
  BY ScaleFacts, SMT DEF BikExclusive, Least, Greatest
<1>2. /\ Btw(BikExclusive(p)) \in Nat /\ Btw(BikExclusive(q)) \in Nat
      /\ Btw(BikExclusive(p)) <= Btw(BikExclusive(q))
  <2>1. BikExclusive(p) * 21 \in Nat /\ BikExclusive(q) * 21 \in Nat
        /\ BikExclusive(p) * 21 <= BikExclusive(q) * 21
    BY <1>1, SMT
  <2> QED
    BY <2>1, RoundedFacts, SMT DEF Btw
<1> QED
  BY <1>1, <1>2, SMT DEF calculate_bik

-----------------------------------------------------------------------------
(* What is agreed.                                                         *)

LEMMA BikType == ASSUME NEW p \in Int, NEW b \in BOOLEAN PROVE calculate_bik(p, b) \in Nat
<1>1. BikExclusive(p) \in Nat
  BY ScaleFacts, SMT DEF BikExclusive, Least, Greatest
<1>2. Btw(BikExclusive(p)) \in Nat
  <2>1. BikExclusive(p) * 21 \in Nat
    BY <1>1, SMT
  <2> QED
    BY <2>1, RoundedFacts, SMT DEF Btw
<1> QED
  BY <1>1, <1>2, SMT DEF calculate_bik

LEMMA BookedType ==
    ASSUME NEW s \in Agreements, NEW p \in Int
    PROVE  BookedBik(s, p) \in Int /\ ShownBik(s, p) \in Int
<1>1. s.percentage \in Int /\ s.fixed \in Int /\ s.floor \in Int /\ s.btw \in BOOLEAN
  BY SMT DEF Agreements, Unset
<1>2. p * s.percentage \in Int
  BY <1>1, SMT
<1>3. Percent(p, s.percentage) \in Int
  BY <1>2, SMT DEF Percent, Rounded
<1>4. calculate_bik(p, s.btw) \in Int
  BY <1>1, BikType, SMT
<1>5. BookedBik(s, p) \in Int
  BY <1>1, <1>3, <1>4, SMT DEF BookedBik
<1> QED
  BY <1>1, <1>5, LeastGreatest, SMT DEF ShownBik

LEMMA NakostenType == \A kind \in DOMAIN Nakosten : calculate_nakosten(kind) \in Nat
BY SMT DEF calculate_nakosten, Nakosten

\* What a payment is divided over is what the case shows, with one exception:
\* a percentage that falls below its own floor, which create_payment does not
\* know.  The exception is always to the debtor's advantage.
THEOREM BookedAsShownButForTheFloor ==
    ASSUME NEW s \in Agreements, NEW p \in Int
    PROVE  /\ BookedCosts(s, p) <= ShownCosts(s, p)
           /\ BookedAsShown(s, p) <=>
                ~(s.percentage # Unset /\ s.floor > 0 /\ Percent(p, s.percentage) < s.floor)
<1>1. BookedBik(s, p) \in Int /\ s.floor \in Int /\ calculate_nakosten(s.nakosten) \in Int
  BY BookedType, NakostenType, SMT DEF Agreements
<1>2. s.percentage # Unset => BookedBik(s, p) = Percent(p, s.percentage)
  BY SMT DEF BookedBik
<1> QED
  BY <1>1, <1>2, SMT DEF BookedAsShown, BookedCosts, ShownCosts, ShownBik, Greatest

\* The guard for consumers runs when the agreement is changed, not when claims come and
\* go, and it sums the deleted claims too.  A fixed amount, or none, that passed it stays
\* within the scale, booked and shown, as long as the claims that are left add up to at
\* least the sum the guard looked at (assert_bik_within_staffel) ...
THEOREM FixedStaysGuarded ==
    ASSUME NEW s \in Agreements, s.percentage = Unset, NEW all \in Int, WithinScale(s, all),
           NEW p \in Int, all <= p
    PROVE  /\ BookedBik(s, p) <= calculate_bik(p, s.btw)
           /\ ShownBik(s, p) <= calculate_bik(p, s.btw)
<1>1. ShownBik(s, p) = BookedBik(s, p) /\ ShownBik(s, all) = BookedBik(s, all)
  BY SMT DEF ShownBik
<1>2. calculate_bik(p, s.btw) \in Int /\ calculate_bik(all, s.btw) \in Int /\ s.btw \in BOOLEAN
  BY BikType, SMT DEF Agreements
<1>3. CASE s.fixed = Unset
  BY <1>1, <1>2, <1>3, SMT DEF BookedBik
<1>4. CASE s.fixed # Unset
  <2>1. /\ BookedBik(s, p) = s.fixed /\ BookedBik(s, all) = s.fixed /\ s.fixed \in Int
    BY <1>4, SMT DEF BookedBik, Agreements
  <2>2. s.fixed <= calculate_bik(all, s.btw)
    BY <1>1, <1>4, <2>1, SMT DEF WithinScale
  <2>3. calculate_bik(all, s.btw) <= calculate_bik(p, s.btw)
    BY <1>2, ScaleGrows
  <2> QED
    BY <1>1, <1>2, <2>1, <2>2, <2>3, SMT
<1> QED
  BY <1>3, <1>4

\* ... and no longer: with a claim of 2000 euros deleted and one of 1000 left, the guard
\* passes twice what the law allows.
THEOREM GuardCountsDeletedClaims ==
    \E s \in Agreements, p, all \in Nat :
        p < all /\ WithinScale(s, all) /\ BookedBik(s, p) = 2 * calculate_bik(p, s.btw)
<1>1. PICK p \in Nat, all \in Nat : 0 < p /\ p < all /\ Scale(p) = 15000 /\ Scale(all) = 42500
  <2>1. Scale(100000) = 15000
    BY SMT DEF Scale, InTier, Rounded, AtLeastZero, Least
  <2>2. Scale(300000) = 42500
    BY SMT DEF Scale, InTier, Rounded, AtLeastZero, Least
  <2> QED
    BY <2>1, <2>2, SMT
<1>2. PICK s \in Agreements : s.percentage = Unset /\ s.fixed = 30000 /\ ~s.btw
  <2> DEFINE t == [percentage |-> Unset, fixed |-> 30000, floor |-> 0, btw |-> FALSE,
                   nakosten |-> "none"]
  <2>1. t \in Agreements
    BY SMT DEF Agreements, Nakosten
  <2> QED
    BY <2>1, SMT
<1>3. calculate_bik(p, s.btw) = 15000 /\ calculate_bik(all, s.btw) = 42500
  <2>1. BikExclusive(p) = 15000 /\ BikExclusive(all) = 42500
    BY <1>1, SMT DEF BikExclusive, Least, Greatest
  <2> QED
    BY <1>2, <2>1, SMT DEF calculate_bik
<1>4. ShownBik(s, all) = 30000 /\ BookedBik(s, p) = 30000
  BY <1>2, SMT DEF ShownBik, BookedBik, Unset
<1>5. WithinScale(s, all)
  BY <1>3, <1>4, SMT DEF WithinScale
<1> QED
  BY <1>1, <1>2, <1>3, <1>4, <1>5, SMT

-----------------------------------------------------------------------------
(* A payment.                                                              *)

\* Art. 6:44 BW for every amount and every debt: no part gets more than is
\* open, interest waits for costs and principal for interest, and what is
\* divided is the payment up to the whole debt (distribute_payment).
THEOREM DivisionFollowsTheLaw ==
    ASSUME NEW a \in Nat, NEW room \in [costs : Nat, interest : Nat, principal : Nat],
           NEW to, to = distribute_payment(a, room)
    PROVE  /\ to.costs \in 0..room.costs
           /\ to.interest \in 0..room.interest
           /\ to.principal \in 0..room.principal
           /\ to.interest > 0 => to.costs = room.costs
           /\ to.principal > 0 => to.costs = room.costs /\ to.interest = room.interest
           /\ to.costs + to.interest + to.principal
                = Least(a, room.costs + room.interest + room.principal)
<1> DEFINE c == Least(a, room.costs)
           i == Least(a - c, room.interest)
           p == Least(a - c - i, room.principal)
<1>1. room.costs \in Nat /\ room.interest \in Nat /\ room.principal \in Nat
  OBVIOUS
<1>2. to = [costs |-> c, interest |-> i, principal |-> p]
  BY DEF distribute_payment
<1>3. to.costs = c /\ to.interest = i /\ to.principal = p
  BY <1>2
<1>4. c \in 0..a /\ c <= room.costs /\ (c < room.costs => c = a)
  BY <1>1, SMT DEF Least
<1>5. i \in 0..(a - c) /\ i <= room.interest /\ (i < room.interest => i = a - c)
  BY <1>1, <1>4, SMT DEF Least
<1>6. p \in 0..(a - c - i) /\ p <= room.principal /\ (p < room.principal => p = a - c - i)
  BY <1>1, <1>4, <1>5, SMT DEF Least
<1> HIDE DEF c, i, p
<1> QED
  BY <1>1, <1>3, <1>4, <1>5, <1>6, SMT DEF Least

-----------------------------------------------------------------------------
(* The rows of a case.                                                     *)

Parts == [costs : Nat, interest : Nat, principal : Nat]

Payment == [id : PaymentIds, amount : 0..MaxAmount, to : Parts, day : Days]

ClaimRow == [id : ClaimIds, amount : Amounts]

KeyedById(S) == \A x, y \in S : x.id = y.id => x = y

ClaimsOK(cl) == IsFiniteSet(cl) /\ cl \subseteq ClaimRow /\ KeyedById(cl)

PaymentsOK(ps) == ps \subseteq Payment

\* What a request in a slot has loaded.
Snapshot(seen) ==
    /\ {"op", "case", "claims", "payments", "arrs"} \subseteq DOMAIN seen
    /\ PaymentsOK(seen.payments)

\* A submission of the last seconds is that of a payment; on the two routes that
\* refuse to cap, what was booked is what was asked.
SubmissionOK(s) ==
    /\ \E p \in payments : p.id = s.id
    /\ s.via \in {"direct", "installment"} => s.booked = s.asked

MoneyInv ==
    /\ today \in Days
    /\ ClaimsOK(claims)
    /\ IsFiniteSet(payments) /\ PaymentsOK(payments) /\ KeyedById(payments)
    /\ \A s \in recent : SubmissionOK(s)
    /\ req = [r \in Requests |-> req[r]]
    /\ \A r \in Requests : req[r] # Idle => Snapshot(req[r])

-----------------------------------------------------------------------------
(* Sums, and what is open of each part.                                    *)

LEMMA DayType == \A d \in Days : d \in Nat
BY MaxDayAssumption DEF Days

\* Claims with ids of their own amount to no more than all ids together can.
LEMMA PrincipalBounded ==
    ASSUME NEW cl, ClaimsOK(cl)
    PROVE  Principal(cl) \in 0 .. MaxAmount * Cardinality(ClaimIds)
<1> DEFINE amount == [c \in cl |-> c.amount]
           key == [c \in cl |-> c.id]
<1>1. IsFiniteSet(Amounts) /\ Cardinality(Amounts) = MaxAmount
  BY FS_Interval, MaxAmountAssumption DEF Amounts
<1>2. IsFiniteSet(ClaimIds) /\ IsFiniteSet(cl)
  BY BikAssumption DEF ClaimsOK
<1>3. key \in Injection(cl, ClaimIds)
  BY DEF ClaimsOK, KeyedById, ClaimRow, Injection, IsInjective
<1>4. Cardinality(cl) <= Cardinality(ClaimIds)
  <2> HIDE DEF key
  <2> QED BY <1>2, <1>3, FS_Injection
<1>5. IsFiniteSet(cl \X Amounts) /\ Cardinality(cl \X Amounts) = Cardinality(cl) * MaxAmount
  BY <1>1, <1>2, FS_Product
<1>6. Coins(cl, amount) \subseteq cl \X Amounts
  BY DEF Coins
<1>7. Cardinality(Coins(cl, amount)) <= Cardinality(cl) * MaxAmount
  <2> HIDE DEF amount
  <2> QED BY <1>5, <1>6, FS_Subset
<1>8. SumOf(cl, amount) \in Nat
  <2> HIDE DEF amount
  <2> QED BY <1>2, SumType
<1>9. Cardinality(cl) \in Nat /\ Cardinality(ClaimIds) \in Nat /\ MaxAmount \in Nat
  BY <1>2, FS_CardinalityType, MaxAmountAssumption
<1>10. Cardinality(cl) * MaxAmount <= MaxAmount * Cardinality(ClaimIds)
  BY <1>4, <1>9
<1> HIDE DEF amount
<1>11. SumOf(cl, amount) <= MaxAmount * Cardinality(ClaimIds)
  BY <1>7, <1>8, <1>9, <1>10 DEF SumOf
<1>12. MaxAmount * Cardinality(ClaimIds) \in Nat
  BY <1>9
<1> QED BY <1>8, <1>11, <1>12 DEF Principal, amount

LEMMA CostsType ==
    ASSUME NEW cl, ClaimsOK(cl)
    PROVE  Bik[Principal(cl)] \in Nat /\ Principal(cl) \in Nat
<1>1. MaxAmount * Cardinality(ClaimIds) \in Nat
  BY BikAssumption, FS_CardinalityType, MaxAmountAssumption
<1> QED BY <1>1, PrincipalBounded, BikAssumption

LEMMA AllocatedType ==
    ASSUME NEW ps, IsFiniteSet(ps), NEW part
    PROVE  Allocated(ps, part) \in Nat
BY SumType DEF Allocated

LEMMA InterestType ==
    ASSUME NEW cl, NEW ps, NEW d \in Nat
    PROVE  Interest(cl, ps, d) \in Nat /\ Interest(cl, ps, d) <= d
<1> DEFINE S == {e \in 1..d : Principal(cl) > Allocated({p \in ps : p.day < e}, "principal")}
<1>1. IsFiniteSet(1..d) /\ Cardinality(1..d) = d
  BY FS_Interval
<1>2. S \subseteq 1..d
  OBVIOUS
<1> HIDE DEF S
<1>3. IsFiniteSet(S) /\ Cardinality(S) <= d
  BY <1>1, <1>2, FS_Subset
<1> QED BY <1>3, FS_CardinalityType DEF Interest, S

LEMMA RoomType ==
    ASSUME NEW cl, ClaimsOK(cl), NEW ps, IsFiniteSet(ps), NEW d \in Nat
    PROVE  Room(cl, ps, d) \in Parts /\ Total(Room(cl, ps, d)) \in Nat
<1>1. Bik[Principal(cl)] \in Nat /\ Principal(cl) \in Nat
  BY CostsType
<1>2. Interest(cl, ps, d) \in Nat
  BY InterestType
<1>3. \A part : Allocated(ps, part) \in Nat
  BY AllocatedType
<1>4. \A m, n \in Nat : AtLeastZero(m - n) \in Nat
  BY DEF AtLeastZero
<1> DEFINE room == Room(cl, ps, d)
<1>5. /\ room = [costs |-> room.costs, interest |-> room.interest, principal |-> room.principal]
      /\ room.costs \in Nat /\ room.interest \in Nat /\ room.principal \in Nat
  BY <1>1, <1>2, <1>3, <1>4 DEF Room
<1> HIDE DEF room
<1> QED BY <1>5 DEF Parts, Total, room

-----------------------------------------------------------------------------
(* What a step does to claims and payments.                                *)

\* A claim is filed, corrected or deleted.
ClaimsChange ==
    \/ UNCHANGED claims
    \/ \E id \in ClaimIds, a \in Amounts : claims' = WithClaim(claims, id, a)
    \/ \E id \in ClaimIds : claims' = {c \in claims : c.id # id}

\* A payment of `asked' coins is booked on what is open at this moment.
Booking(seen, via, id, asked, d) ==
    LET p == NewPayment(seen, id, asked, d) IN
    /\ id \in PaymentIds /\ asked \in Amounts /\ d \in Days
    /\ Unused(id, payments, "payments")
    /\ payments' = payments \cup {p}
    /\ recent' \subseteq recent \cup {[id |-> id, via |-> via, asked |-> asked,
                                      booked |-> p.amount, day |-> p.day]}
    /\ via \in {"direct", "installment"} =>
          asked <= Total(Room(claims, payments, d)) /\ ~Duplicate(seen, via, asked, d)

\* The amount and the day of a payment are corrected, on the row that was loaded.
Correcting(seen) ==
    \E p \in seen.payments, a \in Amounts, d \in Days :
        /\ payments' = {IF q.id = p.id THEN Flush(q, p, [p EXCEPT !.amount = a, !.day = d])
                        ELSE q : q \in payments}
        /\ UNCHANGED recent

Deleting ==
    \E id : /\ payments' = {q \in payments : q.id # id}
            /\ recent' = {s \in recent : s.id # id}

PaymentsChange(seen) ==
    \/ UNCHANGED payments /\ recent' \subseteq recent
    \/ /\ UNCHANGED claims
       /\ \/ \E via, id, asked, d : Booking(seen, via, id, asked, d)
          \/ Correcting(seen)
          \/ Deleting

MoneyEffect(seen) == ClaimsChange /\ PaymentsChange(seen) /\ today' = today

LEMMA BookEffect ==
    ASSUME today \in Days, NEW seen, NEW via, NEW id \in PaymentIds, NEW a \in Amounts,
           NEW d \in Days, Book(seen, via, a, NewPayment(seen, id, a, d)),
           via \in {"direct", "installment"} =>
               /\ a <= Total(Room(Reads(seen)[1], Reads(seen)[2], d))
               /\ ~Duplicate(seen, via, a, d)
    PROVE  Booking(seen, via, id, a, d)
BY DEF Book, Booking, NewPayment, Reads

LEMMA HandlerEffect ==
    ASSUME today \in Days, NEW seen, Handler(seen)
    PROVE  MoneyEffect(seen)
<1>1. CASE ClaimHandler(seen)
  <2>1. ASSUME NEW id \in ClaimIds, NEW a \in Amounts,
               create_claim(seen, id, a) \/ update_claim(seen, id, a)
        PROVE  MoneyEffect(seen)
    BY <2>1 DEF create_claim, update_claim, MoneyEffect, ClaimsChange, PaymentsChange, caseVars
  <2>2. ASSUME NEW id \in ClaimIds, delete_claim(seen, id)
        PROVE  MoneyEffect(seen)
    BY <2>2 DEF delete_claim, MoneyEffect, ClaimsChange, PaymentsChange, caseVars
  <2> QED BY <1>1, <2>1, <2>2 DEF ClaimHandler
<1>2. CASE PaymentHandler(seen)
  <2>1. ASSUME NEW id \in PaymentIds, NEW a \in Amounts, NEW d \in Days,
               create_payment(seen, id, a, d)
        PROVE  MoneyEffect(seen)
    <3>1. Booking(seen, "direct", id, a, d)
      BY <2>1, BookEffect DEF create_payment
    <3> QED BY <2>1, <3>1 DEF create_payment, MoneyEffect, ClaimsChange, PaymentsChange
  <2>2. ASSUME NEW x \in ArrIds, NEW k \in DOMAIN seen.arrs[x].inst, NEW id \in PaymentIds,
               NEW a \in Amounts, NEW d \in Days,
               record_installment_payment(seen, x, k, id, a, d)
        PROVE  MoneyEffect(seen)
    <3>1. Booking(seen, "installment", id, a, d)
      BY <2>2, BookEffect DEF record_installment_payment
    <3> QED BY <2>2, <3>1 DEF record_installment_payment, MoneyEffect, ClaimsChange, PaymentsChange
  <2>3. ASSUME NEW p \in seen.payments, delete_payment(seen, p)
        PROVE  MoneyEffect(seen)
    <3>1. Deleting
      BY <2>3 DEF delete_payment, Deleting
    <3> QED BY <2>3, <3>1 DEF delete_payment, MoneyEffect, ClaimsChange, PaymentsChange
  <2>4. ASSUME NEW p \in seen.payments, NEW a \in Amounts, NEW d \in Days,
               update_payment(seen, p, a, d)
        PROVE  MoneyEffect(seen)
    <3>1. Correcting(seen)
      BY <2>4 DEF update_payment, Correcting
    <3> QED BY <2>4, <3>1 DEF update_payment, MoneyEffect, ClaimsChange, PaymentsChange
  <2> QED BY <1>2, <2>1, <2>2, <2>3, <2>4 DEF PaymentHandler
<1>3. CASE ArrangementHandler(seen)
  BY <1>3 DEF ArrangementHandler, create_arrangement, default_arrangement, cancel_arrangement,
              update_arrangement, waive_installment, End, MoneyEffect, ClaimsChange,
              PaymentsChange, caseVars
<1>4. CASE CaseHandler(seen)
  BY <1>4 DEF CaseHandler, update_case_status, update_case_step, update_case_freeze, MoneyEffect, ClaimsChange,
              PaymentsChange, moneyVars
<1>5. CASE TrustHandler(seen)
  <2>1. PICK id \in PaymentIds, a \in Amounts, d \in Days :
            BookTrust(seen, "trust", id, a, d)
    BY <1>5 DEF TrustHandler, record_trust_debtor_payment
  <2>2. Booking(seen, "trust", id, a, d)
    BY <2>1, BookEffect DEF BookTrust
  <2> QED BY <2>1, <2>2 DEF BookTrust, MoneyEffect, ClaimsChange, PaymentsChange
<1> QED BY <1>1, <1>2, <1>3, <1>4, <1>5 DEF Handler

\* The daily jobs, the mails and the trust account touch neither; a day may pass.
LEMMA BackgroundEffect ==
    ASSUME today \in Days, Background
    PROVE  /\ UNCHANGED <<claims, payments>> /\ recent' \subseteq recent
           /\ today' \in Days /\ today <= today'
<1>1. today \in Nat /\ MaxDay \in Nat
  BY DayType, MaxDayAssumption
<1> QED BY <1>1 DEF Background, mark_overdue_installments, ensure_task, complete_task, PayOut,
                    SecondsPass, NextDay, moneyVars, caseVars, Days

-----------------------------------------------------------------------------
(* Every step keeps the invariant.                                         *)

LEMMA ClaimsStayOK ==
    ASSUME ClaimsOK(claims), ClaimsChange
    PROVE  ClaimsOK(claims')
<1>1. ASSUME NEW id \in ClaimIds, NEW a \in Amounts, claims' = WithClaim(claims, id, a)
      PROVE  ClaimsOK(claims')
  <2> DEFINE rest == {c \in claims : c.id # id}
             new == [id |-> id, amount |-> a]
  <2>1. rest \subseteq claims /\ claims' = rest \cup {new}
    BY <1>1 DEF WithClaim
  <2>2. IsFiniteSet(rest)
    <3> HIDE DEF rest
    <3> QED BY <2>1, FS_Subset DEF ClaimsOK
  <2>3. IsFiniteSet(claims')
    <3> HIDE DEF rest, new
    <3> QED BY <2>1, <2>2, FS_AddElement
  <2>4. claims' \subseteq ClaimRow /\ KeyedById(claims')
    BY <2>1 DEF ClaimsOK, ClaimRow, KeyedById
  <2> QED BY <2>3, <2>4 DEF ClaimsOK
<1>2. ASSUME NEW id \in ClaimIds, claims' = {c \in claims : c.id # id}
      PROVE  ClaimsOK(claims')
  <2>1. claims' \subseteq claims
    BY <1>2
  <2> QED BY <2>1, FS_Subset DEF ClaimsOK, KeyedById
<1>3. CASE UNCHANGED claims
  BY <1>3 DEF ClaimsOK
<1> QED BY <1>1, <1>2, <1>3 DEF ClaimsChange

\* The payment row that is booked, on any claims and payments: what it divides
\* is what is booked, in the order of the law.
LEMMA NewPaymentFollowsTheLaw ==
    ASSUME ClaimsOK(claims), IsFiniteSet(payments), today \in Days, NEW seen,
           NEW id \in PaymentIds, NEW a \in Amounts, NEW d \in Days,
           NEW p, p = NewPayment(seen, id, a, d),
           NEW room, room = Room(claims, payments, d)
    PROVE  /\ p \in Payment /\ p.id = id /\ p.day = d
           /\ p.amount = Least(a, Total(room))
           /\ p.amount = p.to.costs + p.to.interest + p.to.principal
           /\ p.to.costs <= room.costs
           /\ p.to.interest <= room.interest
           /\ p.to.principal <= room.principal
           /\ p.to.interest > 0 => p.to.costs = room.costs
           /\ p.to.principal > 0 => p.to.costs = room.costs /\ p.to.interest = room.interest
<1>1. d \in Nat /\ d \in Days
  BY DayType
<1>2. room \in Parts /\ Total(room) \in Nat
  BY <1>1, RoomType
<1>3. a \in Nat /\ a <= MaxAmount /\ MaxAmount \in Nat
  BY MaxAmountAssumption DEF Amounts
<1> DEFINE b == Least(a, Total(room))
           to == distribute_payment(b, room)
<1>4. b \in 0..MaxAmount /\ b \in Nat /\ b <= Total(room)
  BY <1>2, <1>3 DEF Least
<1>5. p = [id |-> id, amount |-> b, day |-> d, to |-> to]
  BY DEF NewPayment, Reads
<1>6. to = [costs |-> to.costs, interest |-> to.interest, principal |-> to.principal]
  BY DEF distribute_payment
<1>7. Least(b, Total(room)) = b
  BY <1>2, <1>4 DEF Least
<1>l. room \in [costs : Nat, interest : Nat, principal : Nat]
  BY <1>2 DEF Parts
<1> HIDE DEF b, to
<1>8. /\ to.costs \in 0..room.costs
      /\ to.interest \in 0..room.interest
      /\ to.principal \in 0..room.principal
      /\ to.interest > 0 => to.costs = room.costs
      /\ to.principal > 0 => to.costs = room.costs /\ to.interest = room.interest
      /\ to.costs + to.interest + to.principal
                = Least(b, room.costs + room.interest + room.principal)
  BY <1>4, <1>l, DivisionFollowsTheLaw DEF to
<1>9. to.costs + to.interest + to.principal = b
  BY <1>7, <1>8 DEF Total
<1>10. room.costs \in Nat /\ room.interest \in Nat /\ room.principal \in Nat
  BY <1>l
<1>11. to.costs \in Nat /\ to.interest \in Nat /\ to.principal \in Nat
  BY <1>8, <1>10
<1>12. to \in Parts
  BY <1>6, <1>11 DEF Parts
<1>13. p \in Payment /\ p.id = id /\ p.day = d /\ p.amount = b /\ p.to = to
  BY <1>1, <1>4, <1>5, <1>12 DEF Payment
<1>14. to.costs <= room.costs /\ to.interest <= room.interest /\ to.principal <= room.principal
  BY <1>8, <1>10
<1> QED BY <1>8, <1>9, <1>13, <1>14 DEF b

LEMMA BookingStaysOK ==
    ASSUME MoneyInv, NEW seen, NEW via, NEW id, NEW a, NEW d, Booking(seen, via, id, a, d)
    PROVE  /\ IsFiniteSet(payments') /\ PaymentsOK(payments') /\ KeyedById(payments')
           /\ \A s \in recent' : SubmissionOK(s)'
<1> DEFINE p == NewPayment(seen, id, a, d)
           new == [id |-> id, via |-> via, asked |-> a, booked |-> p.amount, day |-> d]
           room == Room(claims, payments, d)
<1>1. id \in PaymentIds /\ a \in Amounts /\ d \in Days /\ Unused(id, payments, "payments")
  BY DEF Booking
<1>2. ClaimsOK(claims) /\ IsFiniteSet(payments) /\ today \in Days
  BY DEF MoneyInv
<1>3. /\ p \in Payment /\ p.id = id /\ p.day = d
      /\ p.amount = Least(a, Total(room))
  BY <1>1, <1>2, NewPaymentFollowsTheLaw
<1>4. payments' = payments \cup {p} /\ recent' \subseteq recent \cup {new}
  BY <1>3 DEF Booking
<1>5. via \in {"direct", "installment"} => a <= Total(room)
  BY DEF Booking
<1>6. Total(room) \in Nat /\ a \in Nat
  BY <1>1, <1>2, RoomType, DayType DEF Amounts
<1>7. via \in {"direct", "installment"} => p.amount = a
  BY <1>3, <1>5, <1>6 DEF Least
<1>9. \A q \in payments : q.id # id
  BY <1>1 DEF Unused
<1> HIDE DEF p, room
<1>10. IsFiniteSet(payments')
  BY <1>2, <1>4, FS_AddElement
<1>11. PaymentsOK(payments') /\ KeyedById(payments')
  BY <1>3, <1>4, <1>9 DEF MoneyInv, PaymentsOK, KeyedById
<1>12. ASSUME NEW s \in recent' PROVE SubmissionOK(s)'
  <2>1. CASE s \in recent
    <3>1. SubmissionOK(s)
      BY <2>1 DEF MoneyInv
    <3> QED BY <1>3, <1>4, <1>9, <3>1 DEF SubmissionOK
  <2>2. CASE s = new
    BY <1>3, <1>4, <1>7, <1>9, <2>2 DEF SubmissionOK
  <2> QED BY <1>4, <2>1, <2>2
<1> QED BY <1>10, <1>11, <1>12

\* A corrected row: the amount and the day written by the request or kept.
LEMMA CorrectedRow ==
    ASSUME NEW q \in Payment, NEW p \in Payment, NEW a \in Amounts, NEW d \in Days
    PROVE  LET new == Flush(q, p, [p EXCEPT !.amount = a, !.day = d]) IN
           new \in Payment /\ new.id = q.id /\ new.to = q.to
<1> DEFINE changed == [p EXCEPT !.amount = a, !.day = d]
           new == Flush(q, p, changed)
<1>1. a \in 0..MaxAmount
  BY MaxAmountAssumption DEF Amounts
<1>2. /\ changed.id = p.id /\ changed.to = p.to /\ changed.amount = a /\ changed.day = d
      /\ DOMAIN q = {"id", "amount", "to", "day"}
  BY DEF Payment
<1> HIDE DEF changed
<1>3. new = [f \in {"id", "amount", "to", "day"} |->
               IF changed[f] = p[f] THEN q[f] ELSE changed[f]]
  BY <1>2 DEF Flush
<1>4. new.id = q.id /\ new.to = q.to /\ new.amount \in {q.amount, a} /\ new.day \in {q.day, d}
  BY <1>2, <1>3
<1>5. new = [id |-> new.id, amount |-> new.amount, to |-> new.to, day |-> new.day]
  BY <1>3
<1> HIDE DEF new
<1>6. new \in Payment
  BY <1>1, <1>4, <1>5 DEF Payment
<1> QED BY <1>4, <1>6 DEF new, changed

LEMMA CorrectingStaysOK ==
    ASSUME MoneyInv, NEW seen, PaymentsOK(seen.payments), Correcting(seen)
    PROVE  /\ IsFiniteSet(payments') /\ PaymentsOK(payments') /\ KeyedById(payments')
           /\ \A s \in recent' : SubmissionOK(s)'
<1>1. PICK p \in seen.payments, a \in Amounts, d \in Days :
          /\ payments' = {IF q.id = p.id THEN Flush(q, p, [p EXCEPT !.amount = a, !.day = d])
                          ELSE q : q \in payments}
          /\ UNCHANGED recent
  BY DEF Correcting
<1> DEFINE New(q) == IF q.id = p.id THEN Flush(q, p, [p EXCEPT !.amount = a, !.day = d]) ELSE q
<1>2. payments' = {New(q) : q \in payments}
  BY <1>1
<1>3. IsFiniteSet(payments) /\ payments \subseteq Payment /\ KeyedById(payments) /\ p \in Payment
  BY DEF MoneyInv, PaymentsOK
<1>4. \A q \in payments : New(q) \in Payment /\ New(q).id = q.id
  BY <1>3, CorrectedRow
<1> HIDE DEF New
<1>5. IsFiniteSet(payments')
  <2> DEFINE corrected == [q \in payments |-> New(q)]
  <2>1. corrected \in Surjection(payments, payments')
    BY <1>2 DEF Surjection
  <2> HIDE DEF corrected
  <2> QED BY <1>3, <2>1, FS_Surjection
<1>6. PaymentsOK(payments') /\ KeyedById(payments')
  BY <1>2, <1>3, <1>4 DEF PaymentsOK, KeyedById
<1>7. ASSUME NEW s \in recent' PROVE SubmissionOK(s)'
  BY <1>1, <1>2, <1>4 DEF MoneyInv, SubmissionOK
<1> QED BY <1>5, <1>6, <1>7

LEMMA FewerStayOK ==
    ASSUME MoneyInv, (UNCHANGED payments /\ recent' \subseteq recent) \/ Deleting
    PROVE  /\ IsFiniteSet(payments') /\ PaymentsOK(payments') /\ KeyedById(payments')
           /\ \A s \in recent' : SubmissionOK(s)'
<1>1. payments' \subseteq payments /\ recent' \subseteq recent
  BY DEF Deleting
<1>2. \A s \in recent', q \in payments : q.id = s.id => q \in payments'
  BY DEF Deleting
<1>3. IsFiniteSet(payments')
  BY <1>1, FS_Subset DEF MoneyInv
<1>4. PaymentsOK(payments') /\ KeyedById(payments')
  BY <1>1 DEF MoneyInv, PaymentsOK, KeyedById
<1>5. ASSUME NEW s \in recent' PROVE SubmissionOK(s)'
  <2>1. SubmissionOK(s)
    BY <1>1 DEF MoneyInv
  <2> QED BY <1>1, <1>2, <2>1 DEF SubmissionOK
<1> QED BY <1>3, <1>4, <1>5

\* What the slot r does in a step: it keeps what it has loaded, forgets it, loads
\* the rows of the moment, or goes on to the trust deposit.
SlotStep(r) ==
    \/ req'[r] = req[r]
    \/ req'[r] = Idle
    \/ req[r] # Idle /\ req'[r] = [req[r] EXCEPT !.op = "trust"]
    \/ /\ {"op", "case", "claims", "payments", "arrs"} \subseteq DOMAIN req'[r]
       /\ req'[r].payments = payments'

SlotsStep == req' = [r \in Requests |-> req'[r]] /\ \A r \in Requests : SlotStep(r)

LEMMA MoneyStep ==
    ASSUME MoneyInv, SlotsStep, today' \in Days, ClaimsOK(claims'),
           IsFiniteSet(payments'), PaymentsOK(payments'), KeyedById(payments'),
           \A s \in recent' : SubmissionOK(s)'
    PROVE  MoneyInv'
<1>1. ASSUME NEW r \in Requests, req'[r] # Idle PROVE Snapshot(req[r])'
  <2>1. CASE req[r] # Idle /\ req'[r] \in {req[r], [req[r] EXCEPT !.op = "trust"]}
    <3>1. /\ {"op", "case", "claims", "payments", "arrs"} \subseteq DOMAIN req[r]
          /\ PaymentsOK(req[r].payments)
      BY <2>1 DEF MoneyInv, Snapshot
    <3>2. /\ {"op", "case", "claims", "payments", "arrs"} \subseteq DOMAIN req'[r]
          /\ req'[r].payments = req[r].payments
      BY <2>1, <3>1
    <3> QED BY <3>1, <3>2 DEF Snapshot
  <2>2. CASE /\ {"op", "case", "claims", "payments", "arrs"} \subseteq DOMAIN req'[r]
             /\ req'[r].payments = payments'
    BY <2>2 DEF Snapshot
  <2>3. SlotStep(r)
    BY DEF SlotsStep
  <2> QED BY <1>1, <2>1, <2>2, <2>3 DEF SlotStep
<1> QED BY <1>1 DEF MoneyInv, SlotsStep

\* A handler works on rows that some request loaded, or on those of the moment.
SeenOK(seen) == PaymentsOK(seen.payments)

LEMMA MoneyEffectStep ==
    ASSUME MoneyInv, SlotsStep, NEW seen, SeenOK(seen), MoneyEffect(seen)
    PROVE  MoneyInv'
<1>1. today' \in Days
  BY DEF MoneyInv, MoneyEffect
<1>2. ClaimsOK(claims')
  BY ClaimsStayOK DEF MoneyInv, MoneyEffect
<1>3. /\ IsFiniteSet(payments') /\ PaymentsOK(payments') /\ KeyedById(payments')
      /\ \A s \in recent' : SubmissionOK(s)'
  <2>1. PaymentsChange(seen)
    BY DEF MoneyEffect
  <2> QED BY <2>1, BookingStaysOK, CorrectingStaysOK, FewerStayOK DEF PaymentsChange, SeenOK
<1> QED BY <1>1, <1>2, <1>3, MoneyStep

LEMMA SeenNow ==
    ASSUME MoneyInv
    PROVE  SeenOK(Now) /\ SeenOK(BankNow) /\ \A r \in Requests : req[r] # Idle => SeenOK(req[r])
<1>1. PaymentsOK(payments)
  BY DEF MoneyInv
<1>2. Now.payments = payments /\ BankNow.payments = payments
  BY DEF Now, BankNow
<1> QED BY <1>1, <1>2 DEF MoneyInv, Snapshot, SeenOK

\* A step of Collections: the rows a handler works on are good ones, the slots do
\* as they should, and claims and payments change by one of the handlers at most.
StepOK ==
    /\ SlotsStep
    /\ \/ \E seen : SeenOK(seen) /\ MoneyEffect(seen)
       \/ /\ UNCHANGED <<claims, payments>> /\ recent' \subseteq recent
          /\ today' \in Days /\ today <= today'

LEMMA StepMoney ==
    ASSUME MoneyInv, StepOK
    PROVE  MoneyInv'
<1>1. CASE UNCHANGED <<claims, payments>> /\ recent' \subseteq recent /\ today' \in Days /\ today <= today'
  <2>1. /\ IsFiniteSet(payments') /\ PaymentsOK(payments') /\ KeyedById(payments')
        /\ \A s \in recent' : SubmissionOK(s)'
    BY <1>1, FewerStayOK
  <2>2. ClaimsOK(claims')
    BY <1>1 DEF MoneyInv
  <2> QED BY <1>1, <2>1, <2>2, MoneyStep DEF StepOK
<1> QED BY <1>1, MoneyEffectStep DEF StepOK

LEMMA InitMoney == Init => MoneyInv
<1> SUFFICES ASSUME Init PROVE MoneyInv
  OBVIOUS
<1>1. 0 \in Days
  BY MaxDayAssumption DEF Days
<1>2. IsFiniteSet({})
  BY FS_EmptySet
<1>3. ClaimsOK(claims)
  BY <1>2 DEF Init, ClaimsOK, KeyedById
<1>4. PaymentsOK(payments) /\ KeyedById(payments) /\ IsFiniteSet(payments)
  BY <1>2 DEF Init, PaymentsOK, KeyedById
<1>5. req = [r \in Requests |-> req[r]] /\ \A r \in Requests : req[r] = Idle
  BY DEF Init
<1>6. recent = {} /\ today = 0
  BY DEF Init
<1> QED BY <1>1, <1>3, <1>4, <1>5, <1>6 DEF MoneyInv

LEMMA SlotWrites ==
    ASSUME MoneyInv, NEW r \in Requests, NEW x, req' = [req EXCEPT ![r] = x],
           x = Idle \/ (x \in {Now, BankNow} /\ UNCHANGED payments)
                    \/ (req[r] # Idle /\ x = [req[r] EXCEPT !.op = "trust"])
    PROVE  SlotsStep
<1>1. req = [s \in Requests |-> req[s]]
  BY DEF MoneyInv
<1>2. req' = [s \in Requests |-> req'[s]]
  BY <1>1
<1>3. req'[r] = x /\ \A s \in Requests \ {r} : req'[s] = req[s]
  BY <1>1
<1>4. SlotStep(r)
  BY <1>3 DEF SlotStep, Now, BankNow
<1> QED BY <1>2, <1>3, <1>4 DEF SlotsStep, SlotStep

LEMMA NextOK ==
    ASSUME MoneyInv, Next
    PROVE  StepOK
<1>d. today \in Days /\ today <= today
  BY DayType DEF MoneyInv
<1>s. UNCHANGED req => SlotsStep
  BY DEF MoneyInv, SlotsStep, SlotStep
<1>1. CASE Handler(Now) /\ UNCHANGED req
  BY <1>1, <1>d, <1>s, HandlerEffect, SeenNow DEF StepOK
<1>2. CASE Background /\ UNCHANGED req
  BY <1>2, <1>d, <1>s, BackgroundEffect DEF StepOK
<1>3. ASSUME NEW r \in Requests, Begin(r) \/ BeginTrust(r) \/ Abandon(r)
      PROVE  StepOK
  <2>1. UNCHANGED <<claims, payments, recent, today>>
    BY <1>3 DEF Begin, BeginTrust, Abandon, moneyVars, caseVars
  <2>2. SlotsStep
    <3>1. CASE Begin(r)
      BY <2>1, <3>1, SlotWrites DEF Begin
    <3>2. CASE BeginTrust(r)
      <4>1. req[r] # Idle
        BY <3>2 DEF BeginTrust, Idle
      <4>2. req' = [req EXCEPT ![r] = [req[r] EXCEPT !.op = "trust"]]
        BY <3>2 DEF BeginTrust
      <4> QED BY <4>1, <4>2, SlotWrites
    <3>3. CASE Abandon(r)
      BY <3>3, SlotWrites DEF Abandon
    <3> QED BY <1>3, <3>1, <3>2, <3>3
  <2> QED BY <1>d, <2>1, <2>2 DEF StepOK
<1>4. ASSUME NEW r \in Requests, req[r] # Idle, Handler(req[r]), req' = [req EXCEPT ![r] = Idle]
      PROVE  StepOK
  <2>1. SlotsStep
    BY <1>4, SlotWrites
  <2>2. MoneyEffect(req[r]) /\ SeenOK(req[r])
    BY <1>4, <1>d, HandlerEffect, SeenNow
  <2> QED BY <2>1, <2>2 DEF StepOK
<1> QED BY <1>1, <1>2, <1>3, <1>4 DEF Next

LEMMA StutterOK ==
    ASSUME MoneyInv, UNCHANGED vars
    PROVE  StepOK
<1>1. today \in Days /\ today <= today
  BY DayType DEF MoneyInv
<1>2. SlotsStep
  BY DEF MoneyInv, SlotsStep, SlotStep, vars
<1> QED BY <1>1, <1>2 DEF StepOK, vars, moneyVars, caseVars

-----------------------------------------------------------------------------
(* The law, and double submissions.                                        *)

BookedByLaw ==
    \A p \in payments' : Booked(p) =>
        LET room == Room(claims, payments, p.day) IN
        /\ p.amount = p.to.costs + p.to.interest + p.to.principal
        /\ \A part \in DOMAIN p.to : p.to[part] <= room[part]
        /\ p.to.interest > 0 => p.to.costs = room.costs
        /\ p.to.principal > 0 => p.to.interest = room.interest /\ p.to.costs = room.costs

NotAgain ==
    \A s \in recent' \ recent, t \in recent :
        s.via \in {"direct", "installment"} => ~SameAgain(s, t)

\* Only a booking brings a payment with a new id.
LEMMA NewIdIsBooked ==
    ASSUME MoneyInv, StepOK, NEW q \in payments', Booked(q)
    PROVE  \E seen, via, id, a, d :
              Booking(seen, via, id, a, d) /\ q = NewPayment(seen, id, a, d)
<1>1. CASE payments' \subseteq payments
  BY <1>1 DEF Booked
<1>2. ASSUME NEW seen, SeenOK(seen), Correcting(seen)
      PROVE  FALSE
  <2>1. PICK p \in seen.payments, a \in Amounts, d \in Days :
            payments' = {IF x.id = p.id THEN Flush(x, p, [p EXCEPT !.amount = a, !.day = d])
                         ELSE x : x \in payments}
    BY <1>2 DEF Correcting
  <2>2. \A x \in payments : Flush(x, p, [p EXCEPT !.amount = a, !.day = d]).id = x.id
    BY <1>2, CorrectedRow DEF MoneyInv, SeenOK, PaymentsOK
  <2> QED BY <2>1, <2>2 DEF Booked
<1>3. ASSUME NEW seen, NEW via, NEW id, NEW a, NEW d, Booking(seen, via, id, a, d)
      PROVE  q = NewPayment(seen, id, a, d)
  BY <1>3 DEF Booking, Booked
<1> QED BY <1>1, <1>2, <1>3 DEF StepOK, MoneyEffect, PaymentsChange, Deleting

LEMMA LawStep ==
    ASSUME MoneyInv, StepOK
    PROVE  BookedByLaw
<1> SUFFICES ASSUME NEW q \in payments', Booked(q), NEW room, room = Room(claims, payments, q.day)
             PROVE  /\ q.amount = q.to.costs + q.to.interest + q.to.principal
                    /\ \A part \in DOMAIN q.to : q.to[part] <= room[part]
                    /\ q.to.interest > 0 => q.to.costs = room.costs
                    /\ q.to.principal > 0 => q.to.interest = room.interest /\ q.to.costs = room.costs
  BY DEF BookedByLaw
<1>1. PICK seen, via, id, a, d : Booking(seen, via, id, a, d) /\ q = NewPayment(seen, id, a, d)
  BY NewIdIsBooked
<1>2. id \in PaymentIds /\ a \in Amounts /\ d \in Days
  BY <1>1 DEF Booking
<1>3. q.day = d
  BY <1>1 DEF NewPayment
<1>4. ClaimsOK(claims) /\ IsFiniteSet(payments) /\ today \in Days
  BY DEF MoneyInv
<1>5. /\ q \in Payment
      /\ q.amount = q.to.costs + q.to.interest + q.to.principal
      /\ q.to.costs <= room.costs /\ q.to.interest <= room.interest
      /\ q.to.principal <= room.principal
      /\ q.to.interest > 0 => q.to.costs = room.costs
      /\ q.to.principal > 0 => q.to.costs = room.costs /\ q.to.interest = room.interest
  BY <1>1, <1>2, <1>3, <1>4, NewPaymentFollowsTheLaw
<1>6. DOMAIN q.to = {"costs", "interest", "principal"}
  BY <1>5 DEF Payment, Parts
<1> QED BY <1>5, <1>6

LEMMA NotAgainStep ==
    ASSUME MoneyInv, StepOK
    PROVE  NotAgain
<1> SUFFICES ASSUME NEW s \in recent' \ recent, NEW t \in recent,
                    s.via \in {"direct", "installment"}, SameAgain(s, t)
             PROVE  FALSE
  BY DEF NotAgain
<1>0. recent' \subseteq recent \/ \E seen, via, id, a, d : Booking(seen, via, id, a, d)
  <2>1. ASSUME NEW seen, Correcting(seen) PROVE recent' \subseteq recent
    BY <2>1 DEF Correcting
  <2>2. Deleting => recent' \subseteq recent
    BY DEF Deleting
  <2> QED BY <2>1, <2>2 DEF StepOK, MoneyEffect, PaymentsChange
<1>1. PICK seen, via, id, a, d : Booking(seen, via, id, a, d)
  BY <1>0
<1>2. s.via = via /\ s.asked = a /\ s.day = d
  BY <1>1 DEF Booking, NewPayment
<1>3. ~Duplicate(seen, via, a, d)
  BY <1>1, <1>2 DEF Booking
<1>4. PICK p \in payments : p.id = t.id /\ p.amount = t.booked /\ p.day = t.day
  BY DEF SameAgain
<1>5. t.via = via /\ t.asked = a /\ t.day = d
  BY <1>2 DEF SameAgain
<1>6. SubmissionOK(t)
  BY DEF MoneyInv
<1>7. p.amount = a /\ p.day = d
  BY <1>2, <1>4, <1>5, <1>6 DEF SubmissionOK
<1>8. Reads(seen)[2] = payments
  BY DEF Reads
<1> QED BY <1>3, <1>4, <1>5, <1>7, <1>8 DEF Duplicate

LEMMA MoneyInvariant == Spec => []MoneyInv
<1>1. MoneyInv /\ [Next]_vars => MoneyInv'
  BY NextOK, StutterOK, StepMoney
<1> QED BY <1>1, InitMoney, PTL DEF Spec

\* Art. 6:44 BW: with any number of requests at once, every booking fills costs
\* before interest and interest before principal, gives no part more than was open
\* on the day of the payment, and divides its whole amount (create_payment).
THEOREM LawfulBookings == Spec => BookedInOrder
<1>1. MoneyInv /\ [Next]_vars => [BookedByLaw]_vars
  BY NextOK, LawStep
<1> QED BY <1>1, MoneyInvariant, PTL DEF Spec, BookedInOrder, BookedByLaw

-----------------------------------------------------------------------------
(* Bank credits and their matches.                                         *)

Match ==
    [row : BankRows \cup {NoRow},
     status : {"none", "pending", "approved", "rejected", "executed"},
     payment : PaymentIds \cup {NoPayment}]

\* A match that was made is for a credit; one that waits has booked nothing yet.
MatchOK(x) ==
    /\ x.status = "none" => x = NoMatch
    /\ x.status # "none" => x.row \in BankRows
    /\ x.status = "pending" => x.payment = NoPayment

MatchesOK(table) == table \in [MatchIds -> Match] /\ \A m \in MatchIds : MatchOK(table[m])

\* Matches that were loaded once are still there, for the same credits.
SameRows(table, present) ==
    \A m \in MatchIds : table[m].status # "none" =>
        present[m].status # "none" /\ present[m].row = table[m].row

MatchesSeen(seen) == MatchesOK(seen.matches) /\ SameRows(seen.matches, matches)

BankInv ==
    /\ MatchesOK(matches)
    /\ rows \in [BankRows -> [imported : BOOLEAN, matched : BOOLEAN]]
    /\ deposits \in [BankRows -> Int]
    /\ \A r \in Requests : req[r].op = "bank" =>
          "matches" \in DOMAIN req[r] /\ MatchesSeen(req[r])

BankMoneyInv == MoneyInv /\ BankInv /\ NoCreditForgotten

LEMMA BankHandlerEffect ==
    ASSUME today \in Days, BankInv, NEW seen, MatchesSeen(seen), BankHandler(seen)
    PROVE  MoneyEffect(seen)
<1>1. ASSUME NEW b \in BankRows, NEW m \in MatchIds,
             generate_match(seen, b, m) \/ manual_match(seen, b, m)
      PROVE  MoneyEffect(seen)
  BY <1>1 DEF generate_match, manual_match, MoneyEffect, ClaimsChange, PaymentsChange, moneyVars,
              caseVars
<1>2. ASSUME NEW m \in MatchIds, approve_match(seen, m) \/ reject_match(seen, m)
      PROVE  MoneyEffect(seen)
  BY <1>2 DEF approve_match, reject_match, MoneyEffect, ClaimsChange, PaymentsChange, moneyVars,
              caseVars
<1>3. ASSUME NEW m \in MatchIds, undo_match(seen, m)
      PROVE  MoneyEffect(seen)
  <2>1. PaymentTakenBack(seen, seen.matches[m].payment)
    BY <1>3 DEF undo_match
  <2>2. Deleting
    BY <2>1 DEF PaymentTakenBack, Remaining, Deleting
  <2> QED BY <2>1, <2>2 DEF PaymentTakenBack, MoneyEffect, ClaimsChange, PaymentsChange
<1>4. ASSUME NEW m \in MatchIds, NEW id \in PaymentIds, NEW status \in {"approved", "pending"},
             Execute(seen, m, id, status)
      PROVE  MoneyEffect(seen)
  <2> DEFINE a == AmountOf[seen.matches[m].row]
  <2>1. seen.matches[m].row \in BankRows
    BY <1>4 DEF Execute, MatchesSeen, MatchesOK, MatchOK
  <2>2. a \in Amounts
    BY <2>1, BankAssumption
  <2>3. BookTrust(seen, "bank", id, a, 0)
    BY <1>4 DEF Execute
  <2>4. 0 \in Days
    BY MaxDayAssumption DEF Days
  <2> HIDE DEF a
  <2>5. Booking(seen, "bank", id, a, 0)
    BY <2>2, <2>3, <2>4, BookEffect DEF BookTrust
  <2> QED BY <2>3, <2>5 DEF BookTrust, MoneyEffect, ClaimsChange, PaymentsChange
<1> QED BY <1>1, <1>2, <1>3, <1>4 DEF BankHandler, execute_match, approve_and_execute_match

LEMMA BankNextOK ==
    ASSUME MoneyInv, BankInv, BankNext
    PROVE  StepOK
<1>d. today \in Days /\ today <= today
  BY DayType DEF MoneyInv
<1>s. UNCHANGED req => SlotsStep
  BY DEF MoneyInv, SlotsStep, SlotStep
<1>1. CASE Next
  BY <1>1, NextOK
<1>2. ASSUME NEW statement, import_bank_statement(statement), UNCHANGED req
      PROVE  StepOK
  BY <1>2, <1>d, <1>s DEF import_bank_statement, moneyVars, caseVars, StepOK
<1>3. CASE BankHandler(BankNow) /\ UNCHANGED req
  <2>1. MatchesSeen(BankNow)
    BY DEF BankNow, BankInv, MatchesSeen, SameRows
  <2>2. MoneyEffect(BankNow)
    BY <1>3, <1>d, <2>1, BankHandlerEffect
  <2> QED BY <1>3, <1>s, <2>2, SeenNow DEF StepOK
<1>4. ASSUME NEW r \in Requests, BeginBank(r) PROVE StepOK
  <2>1. UNCHANGED <<claims, payments, recent, today>>
    BY <1>4 DEF BeginBank, moneyVars, caseVars
  <2>2. SlotsStep
    BY <1>4, <2>1, SlotWrites DEF BeginBank
  <2> QED BY <1>d, <2>1, <2>2 DEF StepOK
<1>5. ASSUME NEW r \in Requests, req[r].op = "bank", BankHandler(req[r]),
             req' = [req EXCEPT ![r] = Idle]
      PROVE  StepOK
  <2>1. SlotsStep
    BY <1>5, SlotWrites
  <2>2. req[r] # Idle
    BY <1>5 DEF Idle
  <2>3. MatchesSeen(req[r])
    BY <1>5 DEF BankInv
  <2>4. MoneyEffect(req[r]) /\ SeenOK(req[r])
    BY <1>5, <1>d, <2>2, <2>3, BankHandlerEffect, SeenNow
  <2> QED BY <2>1, <2>4 DEF StepOK
<1> QED BY <1>1, <1>2, <1>3, <1>4, <1>5 DEF BankNext

\* Loaded matches: those of a slot that keeps them, or those of the moment.
BankSlots ==
    \A r \in Requests : req'[r].op = "bank" =>
        req'[r] = req[r] \/ (req'[r] = BankNow /\ UNCHANGED matches)

LEMMA SlotWritesBank ==
    ASSUME MoneyInv, NEW r \in Requests, NEW x, req' = [req EXCEPT ![r] = x],
           (x = BankNow /\ UNCHANGED matches) \/ x.op # "bank"
    PROVE  BankSlots
<1>1. req = [s \in Requests |-> req[s]]
  BY DEF MoneyInv
<1>2. req'[r] = x /\ \A s \in Requests \ {r} : req'[s] = req[s]
  BY <1>1
<1> QED BY <1>2 DEF BankSlots

LEMMA BankSlotsStep ==
    ASSUME MoneyInv, BankNext
    PROVE  BankSlots
<1>i. Idle.op # "bank" /\ Now.op # "bank"
  BY DEF Idle, Now
<1>s. UNCHANGED req => BankSlots
  BY DEF BankSlots
<1>1. ASSUME NEW r \in Requests, Begin(r) \/ BeginTrust(r) \/ Abandon(r)
      PROVE  BankSlots
  <2>1. CASE Begin(r)
    BY <1>i, <2>1, SlotWritesBank DEF Begin
  <2>2. CASE BeginTrust(r)
    <3>1. req[r] # Idle
      BY <2>2 DEF BeginTrust, Idle
    <3>2. [req[r] EXCEPT !.op = "trust"].op = "trust"
      BY <3>1 DEF MoneyInv, Snapshot
    <3>3. req' = [req EXCEPT ![r] = [req[r] EXCEPT !.op = "trust"]]
      BY <2>2 DEF BeginTrust
    <3> QED BY <3>2, <3>3, SlotWritesBank
  <2>3. CASE Abandon(r)
    BY <1>i, <2>3, SlotWritesBank DEF Abandon
  <2> QED BY <1>1, <2>1, <2>2, <2>3
<1>2. ASSUME NEW r \in Requests, BeginBank(r) PROVE BankSlots
  BY <1>2, SlotWritesBank DEF BeginBank, bankVars
<1>3. ASSUME NEW r \in Requests, req' = [req EXCEPT ![r] = Idle] PROVE BankSlots
  BY <1>3, <1>i, SlotWritesBank
<1>4. CASE Next
  BY <1>4, <1>1, <1>3, <1>s DEF Next
<1> QED BY <1>2, <1>3, <1>4, <1>s DEF BankNext

\* What a handler writes to one match: whatever was loaded stays so, and the
\* table stays a good one.
LEMMA MatchWritten ==
    ASSUME BankInv, NEW m \in MatchIds, NEW x \in Match, MatchOK(x), x.status # "none",
           matches[m].status # "none" => x.row = matches[m].row,
           matches' = [matches EXCEPT ![m] = x]
    PROVE  MatchesOK(matches') /\ SameRows(matches, matches')
<1>1. matches \in [MatchIds -> Match] /\ \A n \in MatchIds : MatchOK(matches[n])
  BY DEF BankInv, MatchesOK
<1>2. matches'[m] = x /\ \A n \in MatchIds \ {m} : matches'[n] = matches[n]
  BY <1>1
<1>3. matches' \in [MatchIds -> Match]
  BY <1>1
<1> QED BY <1>1, <1>2, <1>3 DEF MatchesOK, SameRows

LEMMA BankInvStep ==
    ASSUME BankInv, BankSlots, MatchesOK(matches'), SameRows(matches, matches'),
           rows' \in [BankRows -> [imported : BOOLEAN, matched : BOOLEAN]],
           deposits' \in [BankRows -> Int]
    PROVE  BankInv'
<1>1. ASSUME NEW r \in Requests, req'[r].op = "bank"
      PROVE  "matches" \in DOMAIN req'[r] /\ MatchesSeen(req[r])'
  <2>1. CASE req'[r] = req[r]
    <3>1. "matches" \in DOMAIN req[r] /\ MatchesSeen(req[r])
      BY <1>1, <2>1 DEF BankInv
    <3>2. SameRows(req[r].matches, matches')
      BY <3>1 DEF MatchesSeen, SameRows
    <3> QED BY <2>1, <3>1, <3>2 DEF MatchesSeen
  <2>2. CASE req'[r] = BankNow /\ UNCHANGED matches
    BY <2>2 DEF BankNow, BankInv, MatchesSeen, SameRows
  <2> QED BY <1>1, <2>1, <2>2 DEF BankSlots
<1> QED BY <1>1 DEF BankInv

\* What the bank handlers do to matches and credits.
Making ==
    \E b \in BankRows, m \in MatchIds, status \in {"pending", "approved"} :
        /\ matches[m] = NoMatch
        /\ matches' = [matches EXCEPT ![m] = NewMatch(b, status)]
        /\ rows' = [rows EXCEPT ![b].matched = TRUE]
        /\ UNCHANGED deposits

Keeping ==
    \E m \in MatchIds, status \in {"approved", "executed"},
       payment \in PaymentIds \cup {NoPayment} :
        /\ matches[m].status # "none"
        /\ matches' = [matches EXCEPT ![m].status = status, ![m].payment = payment]
        /\ UNCHANGED rows
        /\ deposits' \in [BankRows -> Int]

Ending ==
    \E m \in MatchIds :
        /\ matches[m].status # "none"
        /\ matches' = [matches EXCEPT ![m].status = "rejected"]
        /\ rows' = Unmatched(matches[m].row)
        /\ deposits' \in [BankRows -> Int]

Importing ==
    /\ UNCHANGED <<matches, deposits>>
    /\ rows' \in [BankRows -> [imported : BOOLEAN, matched : BOOLEAN]]
    /\ \A b \in BankRows : rows'[b].matched = rows[b].matched

BankEffect == Making \/ Keeping \/ Ending \/ Importing

LEMMA BankHandlerMoves ==
    ASSUME BankInv, NEW seen, MatchesSeen(seen), BankHandler(seen)
    PROVE  BankEffect
<1>t. /\ matches \in [MatchIds -> Match] /\ deposits \in [BankRows -> Int]
      /\ \A b \in BankRows : AmountOf[b] \in Int
  BY BankAssumption, MaxAmountAssumption DEF BankInv, MatchesOK, Amounts
<1>k. \A m \in MatchIds : seen.matches[m].status # "none" =>
          /\ matches[m].status # "none" /\ matches[m].row = seen.matches[m].row
          /\ matches[m].row \in BankRows
  BY DEF MatchesSeen, SameRows, BankInv, MatchesOK, MatchOK
<1>1. ASSUME NEW b \in BankRows, NEW m \in MatchIds,
             generate_match(seen, b, m) \/ manual_match(seen, b, m)
      PROVE  Making
  BY <1>1 DEF generate_match, manual_match, Making
<1>2. ASSUME NEW m \in MatchIds, approve_match(seen, m) PROVE Keeping
  <2>1. matches' = [matches EXCEPT ![m].status = "approved", ![m].payment = matches[m].payment]
    BY <1>2, <1>t DEF approve_match, Reviewed, Match
  <2>2. matches[m].payment \in PaymentIds \cup {NoPayment}
    BY <1>t DEF Match
  <2>3. matches[m].status # "none"
    BY <1>2, <1>k DEF approve_match
  <2> QED BY <1>2, <1>t, <2>1, <2>2, <2>3 DEF approve_match, Keeping
<1>3. ASSUME NEW m \in MatchIds, reject_match(seen, m) PROVE Ending
  BY <1>3, <1>t, <1>k DEF reject_match, Reviewed, Ending
<1>4. ASSUME NEW m \in MatchIds, undo_match(seen, m) PROVE Ending
  <2>1. matches[m].row \in BankRows /\ matches[m].row = seen.matches[m].row /\ matches[m].status # "none"
    BY <1>4, <1>k DEF undo_match
  <2>2. deposits' \in [BankRows -> Int]
    BY <1>4, <1>t, <2>1 DEF undo_match
  <2> QED BY <1>4, <2>1, <2>2 DEF undo_match, Reviewed, Ending
<1>5. ASSUME NEW m \in MatchIds, NEW id \in PaymentIds, NEW status \in {"approved", "pending"},
             Execute(seen, m, id, status)
      PROVE  Keeping
  <2>1. matches[m].row \in BankRows /\ matches[m].row = seen.matches[m].row /\ matches[m].status # "none"
    BY <1>5, <1>k DEF Execute
  <2>2. deposits' \in [BankRows -> Int]
    BY <1>5, <1>t, <2>1 DEF Execute
  <2> QED BY <1>5, <2>1, <2>2 DEF Execute, Keeping
<1> QED BY <1>1, <1>2, <1>3, <1>4, <1>5
        DEF BankHandler, execute_match, approve_and_execute_match, BankEffect

\* What every effect on the matches keeps.
TablesOK ==
    /\ MatchesOK(matches') /\ SameRows(matches, matches')
    /\ rows' \in [BankRows -> [imported : BOOLEAN, matched : BOOLEAN]]
    /\ deposits' \in [BankRows -> Int]

LEMMA LiveIsMade ==
    ASSUME BankInv, NEW b \in BankRows, NEW m \in MatchIds, Live(m, b)
    PROVE  matches[m] # NoMatch /\ matches[m].status # "none"
BY DEF Live, NoMatch

LEMMA MakingStep ==
    ASSUME BankInv, NoCreditForgotten, Making
    PROVE  TablesOK /\ NoCreditForgotten'
<1>1. PICK b \in BankRows, m \in MatchIds, status \in {"pending", "approved"} :
          /\ matches[m] = NoMatch
          /\ matches' = [matches EXCEPT ![m] = NewMatch(b, status)]
          /\ rows' = [rows EXCEPT ![b].matched = TRUE]
          /\ UNCHANGED deposits
  BY DEF Making
<1> DEFINE x == NewMatch(b, status)
<1>2. /\ x \in Match /\ x.row = b /\ x.status = status /\ x.payment = NoPayment
  BY DEF NewMatch, Match
<1>3. MatchOK(x) /\ x.status # "none" /\ matches[m].status = "none"
  BY <1>1, <1>2 DEF MatchOK, NoMatch
<1>4. matches' = [matches EXCEPT ![m] = x]
  BY <1>1
<1> HIDE DEF x
<1>5. MatchesOK(matches') /\ SameRows(matches, matches')
  BY <1>2, <1>3, <1>4, MatchWritten
<1>6. /\ rows' \in [BankRows -> [imported : BOOLEAN, matched : BOOLEAN]]
      /\ \A c \in BankRows \ {b} : rows'[c] = rows[c]
  BY <1>1 DEF BankInv
<1>7. TablesOK
  BY <1>1, <1>5, <1>6 DEF TablesOK, BankInv
<1>8. matches'[m] = x /\ \A n \in MatchIds \ {m} : matches'[n] = matches[n]
  BY <1>4 DEF BankInv, MatchesOK
<1>9. ASSUME NEW c \in BankRows, rows'[c].matched
      PROVE  \E n \in MatchIds : Live(n, c)'
  <2>1. CASE c = b
    BY <1>1, <1>2, <1>8, <2>1 DEF Live
  <2>2. CASE c # b
    <3>1. PICK n \in MatchIds : Live(n, c)
      BY <1>6, <1>9, <2>2 DEF NoCreditForgotten
    <3>2. n # m
      BY <1>1, <3>1, LiveIsMade
    <3> QED BY <1>8, <3>1, <3>2 DEF Live
  <2> QED BY <2>1, <2>2
<1> QED BY <1>7, <1>9 DEF NoCreditForgotten

LEMMA KeepingStep ==
    ASSUME BankInv, NoCreditForgotten, Keeping
    PROVE  TablesOK /\ NoCreditForgotten'
<1>1. PICK m \in MatchIds, status \in {"approved", "executed"},
           payment \in PaymentIds \cup {NoPayment} :
          /\ matches[m].status # "none"
          /\ matches' = [matches EXCEPT ![m].status = status, ![m].payment = payment]
          /\ UNCHANGED rows
          /\ deposits' \in [BankRows -> Int]
  BY DEF Keeping
<1>t. matches \in [MatchIds -> Match]
  BY DEF BankInv, MatchesOK
<1> DEFINE x == [matches[m] EXCEPT !.status = status, !.payment = payment]
<1>2. /\ x \in Match /\ x.row = matches[m].row /\ x.status = status
  BY <1>t DEF Match
<1>3. MatchOK(x) /\ x.status # "none"
  BY <1>1, <1>2 DEF MatchOK, BankInv, MatchesOK
<1>4. matches' = [matches EXCEPT ![m] = x]
  BY <1>1, <1>t
<1> HIDE DEF x
<1>5. MatchesOK(matches') /\ SameRows(matches, matches')
  BY <1>2, <1>3, <1>4, MatchWritten
<1>6. TablesOK
  BY <1>1, <1>5 DEF TablesOK, BankInv
<1>7. matches'[m] = x /\ \A n \in MatchIds \ {m} : matches'[n] = matches[n]
  BY <1>4, <1>t
<1>8. ASSUME NEW c \in BankRows, NEW n \in MatchIds, Live(n, c) PROVE Live(n, c)'
  BY <1>2, <1>7, <1>8 DEF Live
<1> QED BY <1>1, <1>6, <1>8 DEF NoCreditForgotten

LEMMA EndingStep ==
    ASSUME BankInv, NoCreditForgotten, Ending
    PROVE  TablesOK /\ NoCreditForgotten'
<1>1. PICK m \in MatchIds :
          /\ matches[m].status # "none"
          /\ matches' = [matches EXCEPT ![m].status = "rejected"]
          /\ rows' = Unmatched(matches[m].row)
          /\ deposits' \in [BankRows -> Int]
  BY DEF Ending
<1>t. matches \in [MatchIds -> Match] /\ MatchOK(matches[m])
  BY DEF BankInv, MatchesOK
<1> DEFINE x == [matches[m] EXCEPT !.status = "rejected"]
           b == matches[m].row
<1>2. /\ x \in Match /\ x.row = b /\ x.status = "rejected" /\ x.payment = matches[m].payment
  BY <1>t DEF Match
<1>3. MatchOK(x) /\ b \in BankRows
  BY <1>1, <1>2, <1>t DEF MatchOK
<1>4. matches' = [matches EXCEPT ![m] = x]
  BY <1>1, <1>t
<1>5. /\ rows' \in [BankRows -> [imported : BOOLEAN, matched : BOOLEAN]]
      /\ ~rows'[b].matched /\ \A c \in BankRows \ {b} : rows'[c] = rows[c]
  BY <1>1, <1>3 DEF Unmatched, BankInv
<1> HIDE DEF x
<1>6. MatchesOK(matches') /\ SameRows(matches, matches')
  BY <1>2, <1>3, <1>4, MatchWritten
<1>7. TablesOK
  BY <1>1, <1>5, <1>6 DEF TablesOK
<1>8. \A n \in MatchIds \ {m} : matches'[n] = matches[n]
  BY <1>4, <1>t
<1>9. ASSUME NEW c \in BankRows, rows'[c].matched
      PROVE  \E n \in MatchIds : Live(n, c)'
  <2>1. c # b /\ rows[c].matched
    BY <1>5, <1>9
  <2>2. PICK n \in MatchIds : Live(n, c)
    BY <2>1 DEF NoCreditForgotten
  <2>3. n # m
    BY <2>1, <2>2 DEF Live
  <2> QED BY <1>8, <2>2, <2>3 DEF Live
<1> QED BY <1>7, <1>9 DEF NoCreditForgotten

LEMMA ImportingStep ==
    ASSUME BankInv, NoCreditForgotten, Importing
    PROVE  TablesOK /\ NoCreditForgotten'
<1>1. TablesOK
  BY DEF Importing, TablesOK, BankInv, SameRows
<1>2. \A n \in MatchIds, b \in BankRows : Live(n, b) => Live(n, b)'
  BY DEF Importing, Live
<1> QED BY <1>1, <1>2 DEF Importing, NoCreditForgotten

LEMMA BankNextMoves ==
    ASSUME BankInv, BankNext
    PROVE  BankEffect
<1>1. UNCHANGED bankVars => Importing
  BY DEF bankVars, Importing, BankInv
<1>2. ASSUME NEW statement, import_bank_statement(statement) PROVE Importing
  BY <1>2 DEF import_bank_statement, Importing, BankInv
<1>3. MatchesSeen(BankNow)
  BY DEF BankNow, BankInv, MatchesSeen, SameRows
<1>4. ASSUME NEW r \in Requests, req[r].op = "bank" PROVE MatchesSeen(req[r])
  BY <1>4 DEF BankInv
<1>5. ASSUME NEW r \in Requests, BeginBank(r) PROVE Importing
  BY <1>1, <1>5 DEF BeginBank
<1> QED BY <1>1, <1>2, <1>3, <1>4, <1>5, BankHandlerMoves DEF BankNext, BankEffect

LEMMA BankStep ==
    ASSUME BankMoneyInv, BankNext
    PROVE  BankMoneyInv'
<1>1. MoneyInv /\ BankInv /\ NoCreditForgotten
  BY DEF BankMoneyInv
<1>2. MoneyInv'
  BY <1>1, BankNextOK, StepMoney
<1>3. TablesOK /\ NoCreditForgotten'
  BY <1>1, BankNextMoves, MakingStep, KeepingStep, EndingStep, ImportingStep DEF BankEffect
<1>4. BankInv'
  BY <1>1, <1>3, BankSlotsStep, BankInvStep DEF TablesOK
<1> QED BY <1>2, <1>3, <1>4 DEF BankMoneyInv

LEMMA BankStutter ==
    ASSUME BankMoneyInv, UNCHANGED allVars
    PROVE  BankMoneyInv'
<1>1. MoneyInv'
  BY StutterOK, StepMoney DEF BankMoneyInv, allVars
<1>2. Importing /\ BankSlots
  BY DEF BankMoneyInv, BankInv, Importing, BankSlots, allVars, bankVars, vars
<1>3. TablesOK /\ NoCreditForgotten'
  BY <1>2, ImportingStep DEF BankMoneyInv
<1>4. BankInv'
  BY <1>2, <1>3, BankInvStep DEF BankMoneyInv, TablesOK
<1> QED BY <1>1, <1>3, <1>4 DEF BankMoneyInv

LEMMA BankInitInv == BankInit => BankMoneyInv
<1> SUFFICES ASSUME BankInit PROVE BankMoneyInv
  OBVIOUS
<1>1. MoneyInv
  BY InitMoney DEF BankInit
<1>2. NoMatch \in Match /\ MatchOK(NoMatch)
  BY DEF NoMatch, Match, MatchOK
<1>3. MatchesOK(matches)
  BY <1>2 DEF BankInit, MatchesOK
<1>4. \A r \in Requests : req[r].op # "bank"
  BY DEF BankInit, Init, Idle
<1>5. BankInv
  BY <1>3, <1>4 DEF BankInit, BankInv
<1>6. NoCreditForgotten
  BY DEF BankInit, NoCreditForgotten
<1> QED BY <1>1, <1>5, <1>6 DEF BankMoneyInv

LEMMA BankInvariant == BankSpec => []BankMoneyInv
BY BankInitInv, BankStep, BankStutter, PTL DEF BankSpec

\* A credit that is marked as matched has a match that waits, was approved or was
\* booked, with any number of requests on stale rows (payment_matching_service).
THEOREM CreditsKeptInSight == BankSpec => []NoCreditForgotten
BY BankInvariant, PTL DEF BankMoneyInv

\* Art. 6:44 BW again, with the bookings of matches among the others.
THEOREM LawfulBankBookings == BankSpec => BookedInOrder
<1>1. BankMoneyInv /\ [BankNext]_allVars => [BookedByLaw]_vars
  BY BankNextOK, LawStep DEF BankMoneyInv, allVars
<1> QED BY <1>1, BankInvariant, PTL DEF BankSpec, BookedInOrder, BookedByLaw

\* A direct payment or an installment submitted twice within seconds is booked
\* once: the second submission finds the first behind the lock (create_payment).
THEOREM BookedOnceIfTwice == BankSpec => SubmittedOnce
<1>1. BankMoneyInv /\ [BankNext]_allVars => [NotAgain]_vars
  BY BankNextOK, NotAgainStep DEF BankMoneyInv, allVars
<1> QED BY <1>1, BankInvariant, PTL DEF BankSpec, SubmittedOnce, NotAgain

-----------------------------------------------------------------------------
(* Both bookings of a match.                                               *)

\* The matches of the credit b that a table has as booked.
BookedFor(table, b) == {m \in MatchIds : table[m].row = b /\ table[m].status = "executed"}

\* No payment is left of a match that was taken back.
TakenBackWhole(table, ps) ==
    \A m \in MatchIds : table[m].status = "rejected" => \A p \in ps : p.id # table[m].payment

LEMMA BothMeans ==
    BothOrNeither <=>
        \A b \in BankRows : /\ deposits[b] = Cardinality(BookedFor(matches, b))
                            /\ TakenBackWhole(matches, payments)
BY DEF BothOrNeither, BookedFor, TakenBackWhole

LEMMA BothMeansNext ==
    BothOrNeither' <=>
        \A b \in BankRows : /\ deposits'[b] = Cardinality(BookedFor(matches', b))
                            /\ TakenBackWhole(matches', payments')
BY DEF BothOrNeither, BookedFor, TakenBackWhole

LEMMA BookedForFinite ==
    ASSUME NEW table, NEW b
    PROVE  IsFiniteSet(BookedFor(table, b))
<1>1. BookedFor(table, b) \subseteq MatchIds
  BY DEF BookedFor
<1> QED BY <1>1, BankAssumption, FS_Subset

\* Payments that come or go without touching a match.
LEMMA OthersKeepBoth ==
    ASSUME BothOrNeither, UNCHANGED <<matches, deposits>>, KeepsIds
    PROVE  BothOrNeither'
<1>1. TakenBackWhole(matches, payments) => TakenBackWhole(matches', payments')
  BY DEF TakenBackWhole, KeepsIds, Booked
<1> QED BY <1>1, BothMeans, BothMeansNext

\* A match that is neither booked nor taken back, before or after.
LEMMA ReviewKeepsBoth ==
    ASSUME BankInv, BothOrNeither, NEW m \in MatchIds, NEW x,
           matches' = [matches EXCEPT ![m] = x], matches[m].status # "executed",
           x.status # "executed",
           x.status = "rejected" => \A p \in payments : p.id # x.payment,
           UNCHANGED <<deposits, payments>>
    PROVE  BothOrNeither'
<1>1. matches'[m] = x /\ \A n \in MatchIds \ {m} : matches'[n] = matches[n]
  BY DEF BankInv, MatchesOK
<1>2. \A b \in BankRows : BookedFor(matches', b) = BookedFor(matches, b)
  BY <1>1 DEF BookedFor
<1>3. TakenBackWhole(matches, payments) => TakenBackWhole(matches', payments')
  BY <1>1 DEF TakenBackWhole
<1> QED BY <1>2, <1>3, BothMeans, BothMeansNext

LEMMA UndoKeepsBoth ==
    ASSUME BankInv, BothOrNeither, NEW m \in MatchIds, undo_match(BankNow, m)
    PROVE  BothOrNeither'
<1> DEFINE b == matches[m].row
<1>t. /\ matches \in [MatchIds -> Match] /\ MatchOK(matches[m])
      /\ deposits \in [BankRows -> Int]
  BY DEF BankInv, MatchesOK
<1>1. /\ matches[m].status = "executed"
      /\ deposits' = [deposits EXCEPT ![b] = @ - 1]
      /\ payments' = {p \in payments : p.id # matches[m].payment}
      /\ matches' = [matches EXCEPT ![m].status = "rejected"]
  BY DEF undo_match, BankNow, PaymentTakenBack, Remaining, Reviewed
<1>2. b \in BankRows
  BY <1>1, <1>t DEF MatchOK
<1>3. /\ matches'[m].status = "rejected" /\ matches'[m].row = b
      /\ matches'[m].payment = matches[m].payment
      /\ \A n \in MatchIds \ {m} : matches'[n] = matches[n]
  BY <1>1, <1>t DEF Match
<1>4. BookedFor(matches', b) = BookedFor(matches, b) \ {m} /\ m \in BookedFor(matches, b)
  BY <1>1, <1>3 DEF BookedFor
<1>5. \A c \in BankRows \ {b} : BookedFor(matches', c) = BookedFor(matches, c)
  BY <1>1, <1>3 DEF BookedFor
<1>6. deposits'[b] = deposits[b] - 1 /\ \A c \in BankRows \ {b} : deposits'[c] = deposits[c]
  BY <1>1, <1>2, <1>t
<1>7. TakenBackWhole(matches, payments) => TakenBackWhole(matches', payments')
  BY <1>1, <1>3 DEF TakenBackWhole
<1>8. Cardinality(BookedFor(matches', b)) = Cardinality(BookedFor(matches, b)) - 1
  BY <1>4, BookedForFinite, FS_RemoveElement
<1> HIDE DEF b
<1> QED BY <1>2, <1>5, <1>6, <1>7, <1>8, BothMeans, BothMeansNext

LEMMA ExecuteKeepsBoth ==
    ASSUME BankInv, BothOrNeither, NEW m \in MatchIds, NEW id \in PaymentIds,
           NEW status \in {"approved", "pending"}, Execute(BankNow, m, id, status)
    PROVE  BothOrNeither'
<1> DEFINE b == matches[m].row
<1>t. /\ matches \in [MatchIds -> Match] /\ MatchOK(matches[m])
      /\ deposits \in [BankRows -> Int]
  BY DEF BankInv, MatchesOK
<1>1. /\ matches[m].status = status /\ KeepsIds
      /\ deposits' = [deposits EXCEPT ![b] = @ + 1]
      /\ matches' = [matches EXCEPT ![m].status = "executed", ![m].payment = id]
  BY DEF Execute, BankNow
<1>2. b \in BankRows
  BY <1>1, <1>t DEF MatchOK
<1>3. /\ matches'[m].status = "executed" /\ matches'[m].row = b
      /\ \A n \in MatchIds \ {m} : matches'[n] = matches[n]
  BY <1>1, <1>t DEF Match
<1>4. BookedFor(matches', b) = BookedFor(matches, b) \cup {m} /\ m \notin BookedFor(matches, b)
  BY <1>1, <1>3 DEF BookedFor
<1>5. \A c \in BankRows \ {b} : BookedFor(matches', c) = BookedFor(matches, c)
  BY <1>1, <1>3 DEF BookedFor
<1>6. deposits'[b] = deposits[b] + 1 /\ \A c \in BankRows \ {b} : deposits'[c] = deposits[c]
  BY <1>1, <1>2, <1>t
<1>7. TakenBackWhole(matches, payments) => TakenBackWhole(matches', payments')
  BY <1>1, <1>3 DEF TakenBackWhole, KeepsIds, Booked
<1>8. Cardinality(BookedFor(matches', b)) = Cardinality(BookedFor(matches, b)) + 1
  BY <1>4, BookedForFinite, FS_AddElement
<1> HIDE DEF b
<1> QED BY <1>2, <1>5, <1>6, <1>7, <1>8, BothMeans, BothMeansNext

LEMMA BankHandlerKeepsBoth ==
    ASSUME MoneyInv, BankInv, BothOrNeither, BankHandler(BankNow)
    PROVE  BothOrNeither'
<1>n. BankNow.matches = matches /\ BankNow.rows = rows
  BY DEF BankNow
<1>t. matches \in [MatchIds -> Match] /\ \A m \in MatchIds : MatchOK(matches[m])
  BY DEF BankInv, MatchesOK
<1>1. ASSUME NEW b \in BankRows, NEW m \in MatchIds,
             generate_match(BankNow, b, m) \/ manual_match(BankNow, b, m)
      PROVE  BothOrNeither'
  <2>1. PICK status \in {"pending", "approved"} :
            /\ matches[m] = NoMatch /\ matches' = [matches EXCEPT ![m] = NewMatch(b, status)]
            /\ UNCHANGED <<deposits, payments>>
    BY <1>1 DEF generate_match, manual_match, moneyVars
  <2>2. matches[m].status # "executed"
    BY <2>1 DEF NoMatch
  <2>3. NewMatch(b, status).status = status
    BY DEF NewMatch
  <2> QED BY <2>1, <2>2, <2>3, ReviewKeepsBoth
<1>2. ASSUME NEW m \in MatchIds, approve_match(BankNow, m) PROVE BothOrNeither'
  <2>1. /\ matches[m].status = "pending" /\ UNCHANGED <<deposits, payments>>
        /\ matches' = [matches EXCEPT ![m] = [matches[m] EXCEPT !.status = "approved"]]
    BY <1>2, <1>n DEF approve_match, Reviewed, moneyVars
  <2>2. [matches[m] EXCEPT !.status = "approved"].status = "approved"
    BY <1>t DEF Match
  <2> QED BY <2>1, <2>2, ReviewKeepsBoth
<1>3. ASSUME NEW m \in MatchIds, reject_match(BankNow, m) PROVE BothOrNeither'
  <2>1. /\ matches[m].status = "pending" /\ UNCHANGED <<deposits, payments>>
        /\ matches' = [matches EXCEPT ![m] = [matches[m] EXCEPT !.status = "rejected"]]
    BY <1>3, <1>n DEF reject_match, Reviewed, moneyVars
  <2> DEFINE x == [matches[m] EXCEPT !.status = "rejected"]
  <2>2. x.status = "rejected" /\ x.payment = NoPayment
    BY <2>1, <1>t DEF Match, MatchOK
  <2>3. \A p \in payments : p.id # NoPayment
    BY BankAssumption DEF MoneyInv, PaymentsOK, Payment
  <2> HIDE DEF x
  <2> QED BY <2>1, <2>2, <2>3, ReviewKeepsBoth DEF x
<1> QED BY <1>1, <1>2, <1>3, UndoKeepsBoth, ExecuteKeepsBoth
        DEF BankHandler, execute_match, approve_and_execute_match

BothKept == (req' = req /\ BothOrNeither) => BothOrNeither'

LEMMA BothStep ==
    ASSUME BankMoneyInv, BankNext
    PROVE  BothKept
<1> SUFFICES ASSUME req' = req, BothOrNeither PROVE BothOrNeither'
  BY DEF BothKept
<1>1. CASE Next /\ KeepsIds /\ UNCHANGED bankVars
  BY <1>1, OthersKeepBoth DEF bankVars
<1>2. UNCHANGED <<matches, deposits, payments>> => BothOrNeither'
  BY BothMeans, BothMeansNext
<1>3. ASSUME NEW statement, import_bank_statement(statement) PROVE BothOrNeither'
  BY <1>2, <1>3 DEF import_bank_statement, moneyVars
<1>4. ASSUME NEW r \in Requests, BeginBank(r) PROVE BothOrNeither'
  BY <1>2, <1>4 DEF BeginBank, moneyVars, bankVars
<1>5. ASSUME NEW r \in Requests, req[r].op = "bank", req' = [req EXCEPT ![r] = Idle]
      PROVE  FALSE
  <2>1. req'[r] = Idle
    BY <1>5 DEF BankMoneyInv, MoneyInv
  <2> QED BY <1>5, <2>1 DEF Idle
<1> QED BY <1>1, <1>3, <1>4, <1>5, BankHandlerKeepsBoth DEF BankNext, BankMoneyInv

\* A request that nothing overlaps keeps both bookings of a match together: undone,
\* neither its payment nor its deposit is left (undo_match).
THEOREM UndoneTogether == BankSpec => UndoTakesBoth
<1>1. BankMoneyInv /\ [BankNext]_allVars => [BothKept]_<<matches, deposits, payments>>
  BY BothStep DEF allVars, bankVars, vars, moneyVars
<1> QED BY <1>1, BankInvariant, PTL DEF BankSpec, UndoTakesBoth, BothKept

-----------------------------------------------------------------------------
(* One request at a time: the case row, its totals, its installments.      *)

CaseOK(c) == c \in CaseRow /\ (c.date_closed <=> Closed(c))

Inst ==
    [amount : Nat, paid : Nat, due : Int,
     status : {"pending", "partial", "overdue", "paid", "waived", "missed"}]

InstOK(i) ==
    /\ i \in Inst
    /\ i.status = "paid" => i.paid >= i.amount
    /\ i.status = "partial" => i.paid \in 1..(i.amount - 1)
    /\ i.status = "pending" => i.paid = 0

ArrOK(arr) ==
    /\ arr = [status |-> arr.status, inst |-> arr.inst]
    /\ (\E n \in Nat : DOMAIN arr.inst = 1..n) /\ arr.inst = [k \in DOMAIN arr.inst |-> arr.inst[k]]
    /\ \A k \in DOMAIN arr.inst : InstOK(arr.inst[k])

ArrsOK(table) == table = [x \in ArrIds |-> table[x]] /\ \A x \in ArrIds : ArrOK(table[x])

SerialInv == MoneyInv /\ CaseOK(case) /\ CacheAgrees /\ ArrsOK(arrs)

\* A request that nobody overlaps writes what it makes of the row.
LEMMA FlushSelf ==
    ASSUME NEW row, NEW changed, row = [f \in DOMAIN row |-> row[f]],
           changed = [f \in DOMAIN row |-> changed[f]]
    PROVE  Flush(row, row, changed) = changed
BY DEF Flush

LEMMA FlushCase ==
    ASSUME CaseOK(case), NEW c \in CaseRow
    PROVE  Flush(case, case, c) = c
<1>1. /\ case = [f \in DOMAIN case |-> case[f]]
      /\ c = [f \in DOMAIN case |-> c[f]]
  BY DEF CaseOK, CaseRow
<1> QED BY <1>1, FlushSelf

\* A finite set of payments that is not empty has a last day.
LEMMA LastDay ==
    ASSUME NEW ps, IsFiniteSet(ps), ps # {}, \A p \in ps : p.day \in Nat
    PROVE  \E p \in ps : \A q \in ps : q.day <= p.day
<1> DEFINE After(p) == {q \in ps : q.day > p.day}
           T == {After(p) : p \in ps}
<1>1. T \subseteq FiniteSubsetsOf(ps) /\ T # {}
  <2>1. T \subseteq SUBSET ps /\ T # {}
    OBVIOUS
  <2> HIDE DEF T
  <2> QED BY <2>1, FS_FiniteSubsetsOfFinite
<1>2. IsWellFoundedOn(StrictSubsetOrdering(ps), FiniteSubsetsOf(ps))
  BY FS_StrictSubsetOrderingWellFounded
<1>3. \E U \in T : \A V \in T : <<V, U>> \notin StrictSubsetOrdering(ps)
  <2> HIDE DEF T
  <2> QED BY <1>1, <1>2, WFMin
<1>4. PICK p \in ps : \A V \in T : <<V, After(p)>> \notin StrictSubsetOrdering(ps)
  BY <1>3
<1>5. ASSUME NEW q \in ps, q.day > p.day PROVE FALSE
  <2>1. After(q) \subseteq After(p) /\ q \in After(p) /\ q \notin After(q)
    BY <1>5
  <2>2. <<After(q), After(p)>> \in StrictSubsetOrdering(ps)
    BY <2>1 DEF StrictSubsetOrdering
  <2> QED BY <1>4, <2>2
<1>6. \A q \in ps : q.day <= p.day
  BY <1>5
<1> QED BY <1>6

LEMMA LastPaidType ==
    ASSUME today \in Days, NEW ps, IsFiniteSet(ps), PaymentsOK(ps)
    PROVE  LastPaid(ps) \in Days
<1>1. CASE ps = {}
  BY <1>1 DEF LastPaid
<1>2. CASE ps # {}
  <2>1. \A p \in ps : p.day \in Days /\ p.day \in Nat
    BY DayType DEF PaymentsOK, Payment
  <2>2. \E d \in Days : (\E p \in ps : p.day = d) /\ \A p \in ps : p.day <= d
    BY <1>2, <2>1, LastDay
  <2> DEFINE d == LastPaid(ps)
  <2>3. d \in Days /\ (\E p \in ps : p.day = d) /\ \A p \in ps : p.day <= d
    BY <1>2, <2>2 DEF LastPaid
  <2> QED BY <2>3
<1> QED BY <1>1, <1>2

-----------------------------------------------------------------------------
(* The case row.                                                           *)

LEMMA CaseWrites ==
    ASSUME NEW c, CaseOK(c)
    PROVE  /\ CaseOK(Reopened(c))
           /\ \A status \in Statuses \ TERMINAL_STATUSES : CaseOK(ReopenedByHand(c, status))
           /\ \A status \in TERMINAL_STATUSES, freeze \in Days : CaseOK(ClosedWith(c, status, freeze))
           /\ \A s \in Steps : CaseOK(Moved(c, s))
<1>c. c \in CaseRow /\ (c.date_closed <=> Closed(c))
  BY DEF CaseOK
<1>1. CaseOK(Reopened(c))
  BY <1>c DEF CaseOK, CaseRow, Reopened, Closed, Statuses, TERMINAL_STATUSES
<1>2. ASSUME NEW status \in Statuses \ TERMINAL_STATUSES PROVE CaseOK(ReopenedByHand(c, status))
  BY <1>c DEF CaseOK, CaseRow, ReopenedByHand, Closed
<1>3. ASSUME NEW status \in TERMINAL_STATUSES, NEW freeze \in Days
      PROVE  CaseOK(ClosedWith(c, status, freeze))
  BY <1>c DEF CaseOK, CaseRow, ClosedWith, Closed, Statuses
<1>4. ASSUME NEW s \in Steps PROVE CaseOK(Moved(c, s))
  <2>1. /\ status_for_step(s) \in Statuses
        /\ status_for_step(s) \in TERMINAL_STATUSES <=> IsTerminal(s)
    <3>1. CASE s = PaidStep
      BY <3>1, StepsAssumption DEF status_for_step, Statuses, TERMINAL_STATUSES, IsTerminal
    <3>2. CASE s = ClosedStep
      BY <3>2, StepsAssumption DEF status_for_step, Statuses, TERMINAL_STATUSES, IsTerminal
    <3>3. CASE s \notin {PaidStep, ClosedStep}
      BY <3>3 DEF status_for_step, Statuses, TERMINAL_STATUSES, IsTerminal
    <3> QED BY <3>1, <3>2, <3>3
  <2>2. IsTerminal(s) \in BOOLEAN
    BY DEF IsTerminal
  <2>3. Moved(c, s) = [c EXCEPT !.step = s, !.status = status_for_step(s), !.date_closed = IsTerminal(s)]
    BY DEF Moved
  <2>4. Moved(c, s) \in CaseRow
    BY <1>c, <2>1, <2>2, <2>3 DEF CaseRow
  <2>5. Moved(c, s).date_closed = IsTerminal(s) /\ Moved(c, s).status = status_for_step(s)
    BY <1>c, <2>3 DEF CaseRow
  <2> QED BY <2>1, <2>2, <2>4, <2>5 DEF CaseOK, Closed
<1> QED BY <1>1, <1>2, <1>3, <1>4

\* A booking leaves a good case row.
LEMMA HookedCaseOK ==
    ASSUME CaseOK(case), NEW c, c = HookedCase(case, payments'), today \in Days,
           IsFiniteSet(payments'), PaymentsOK(payments'), today' = today
    PROVE  CaseOK(c) /\ Flush(case, case, c) = c
<1>1. today' \in Days
  OBVIOUS
<1>2. LastPaid(payments') \in Days
  BY <1>1, LastPaidType
<1>3. CaseOK(c)
  BY <1>2, CaseWrites DEF HookedCase, TERMINAL_STATUSES
<1> QED BY <1>3, FlushCase DEF CaseOK

LEMMA NowIs ==
    /\ Now.case = case /\ Now.claims = claims /\ Now.payments = payments /\ Now.arrs = arrs
    /\ Views(Now) = {<<claims, payments>>}
BY DEF Now, Views

LEMMA BookSerial ==
    ASSUME MoneyInv, MoneyInv', CaseOK(case), today' = today, claims' = claims,
           NEW via, NEW a, NEW p, Book(Now, via, a, p)
    PROVE  /\ case' = HookedCase(case, payments') /\ CaseOK(case')
           /\ cached' = Totals(claims', payments')
<1>1. /\ today \in Days /\ IsFiniteSet(payments') /\ PaymentsOK(payments')
  BY DEF MoneyInv
<1>2. case' = Flush(case, case, HookedCase(case, payments'))
  BY NowIs DEF Book
<1>3. case' = HookedCase(case, payments') /\ CaseOK(case')
  BY <1>1, <1>2, HookedCaseOK
<1> QED BY <1>3 DEF Book

\* Payments taken back or corrected.
LEMMA TakenBackSerial ==
    ASSUME CaseOK(case), TakenBack(Now, payments')
    PROVE  /\ case' = IF StillPaid(case, payments') THEN case ELSE Reopened(case)
           /\ CaseOK(case')
<1> DEFINE c == IF StillPaid(case, payments') THEN case ELSE Reopened(case)
<1>1. CaseOK(c)
  BY CaseWrites
<1>2. case' = Flush(case, case, c)
  BY NowIs DEF TakenBack
<1> HIDE DEF c
<1>3. case' = c
  BY <1>1, <1>2, FlushCase DEF CaseOK
<1> QED BY <1>1, <1>3 DEF c

LEMMA ClaimSerial ==
    ASSUME SerialInv, MoneyInv', ClaimHandler(Now)
    PROVE  CaseOK(case') /\ CacheAgrees' /\ arrs' = arrs
<1>c. CaseOK(case)
  BY DEF SerialInv
<1>1. ASSUME NEW id \in ClaimIds, NEW a \in Amounts, create_claim(Now, id, a)
      PROVE  CaseOK(case') /\ CacheAgrees' /\ arrs' = arrs
  <2>1. CaseOK(ReopenOnDebt(case))
    BY <1>c, CaseWrites DEF ReopenOnDebt
  <2>2. case' = Flush(case, case, ReopenOnDebt(case))
    BY <1>1, NowIs DEF create_claim
  <2>3. case' = ReopenOnDebt(case)
    BY <1>c, <2>1, <2>2, FlushCase DEF CaseOK
  <2> QED BY <1>1, <2>1, <2>3, NowIs DEF create_claim, CacheAgrees
<1>2. ASSUME NEW id \in ClaimIds, NEW a \in Amounts, update_claim(Now, id, a)
      PROVE  CaseOK(case') /\ CacheAgrees' /\ arrs' = arrs
  BY <1>2, <1>c, NowIs DEF update_claim, CacheAgrees, caseVars
<1>3. ASSUME NEW id \in ClaimIds, delete_claim(Now, id)
      PROVE  CaseOK(case') /\ CacheAgrees' /\ arrs' = arrs
  BY <1>3, <1>c, NowIs DEF delete_claim, CacheAgrees, caseVars
<1> QED BY <1>1, <1>2, <1>3 DEF ClaimHandler

-----------------------------------------------------------------------------
(* Installments.                                                           *)

LEMMA PaidInstOK ==
    ASSUME NEW i, InstOK(i), NEW a \in Nat \ {0}
    PROVE  InstOK(PaidInst(i, a))
<1>1. i \in Inst /\ i.paid + a \in Nat /\ i.paid + a >= 1 /\ i.amount \in Nat
  BY DEF InstOK, Inst
<1> DEFINE n == i.paid + a
           j == PaidInst(i, a)
<1>2. CASE n >= i.amount
  <2>1. j = [i EXCEPT !.paid = n, !.status = "paid"]
    BY <1>2 DEF PaidInst
  <2>2. j \in Inst /\ j.paid = n /\ j.status = "paid" /\ j.amount = i.amount
    BY <1>1, <2>1 DEF Inst
  <2> QED BY <1>2, <2>2 DEF InstOK
<1>3. CASE ~(n >= i.amount)
  <2>1. j = [i EXCEPT !.paid = n, !.status = "partial"]
    BY <1>3 DEF PaidInst
  <2>2. j \in Inst /\ j.paid = n /\ j.status = "partial" /\ j.amount = i.amount
    BY <1>1, <2>1 DEF Inst
  <2>3. n \in 1..(i.amount - 1)
    BY <1>1, <1>3
  <2> QED BY <2>2, <2>3 DEF InstOK
<1> QED BY <1>2, <1>3

\* An installment that is closed without money, or found overdue.
LEMMA EndedInstOK ==
    ASSUME NEW i, InstOK(i), NEW status \in {"waived", "missed", "overdue"}
    PROVE  InstOK([i EXCEPT !.status = status])
BY DEF InstOK, Inst

LEMMA CascadeOK ==
    ASSUME NEW insts, DOMAIN insts \subseteq Nat, \A k \in DOMAIN insts : InstOK(insts[k]),
           NEW a \in Nat
    PROVE  /\ Cascade(insts, a) = [k \in DOMAIN insts |-> Cascade(insts, a)[k]]
           /\ \A k \in DOMAIN insts : InstOK(Cascade(insts, a)[k])
<1>1. Cascade(insts, a) = [k \in DOMAIN insts |-> Cascade(insts, a)[k]]
  BY DEF Cascade
<1>2. ASSUME NEW k \in DOMAIN insts PROVE InstOK(Cascade(insts, a)[k])
  <2> DEFINE gap == [j \in 1..(k - 1) |-> Gap(insts[j])]
             before == SumOf(1..(k - 1), gap)
             share == Least(AtLeastZero(a - before), Gap(insts[k]))
  <2>1. k \in Nat /\ InstOK(insts[k])
    OBVIOUS
  <2>2. IsFiniteSet(1..(k - 1))
    BY <2>1, FS_Interval
  <2>3. before \in Nat
    <3> HIDE DEF gap
    <3> QED BY <2>2, SumType
  <2>4. Gap(insts[k]) \in Nat
    <3>1. insts[k].amount \in Nat /\ insts[k].paid \in Nat
      BY <2>1 DEF InstOK, Inst
    <3> QED BY <3>1 DEF Gap, AtLeastZero
  <2>5. Cascade(insts, a)[k] = IF share > 0 THEN PaidInst(insts[k], share) ELSE insts[k]
    BY DEF Cascade
  <2> HIDE DEF before
  <2>6. share \in Nat
    BY <2>3, <2>4 DEF Least, AtLeastZero
  <2> HIDE DEF share
  <2> QED BY <2>1, <2>5, <2>6, PaidInstOK
<1> QED BY <1>1, <1>2

LEMMA CheckedOK ==
    ASSUME NEW arr, ArrOK(arr)
    PROVE  ArrOK(Checked(arr))
<1>1. /\ Checked(arr) = [status |-> Checked(arr).status, inst |-> Checked(arr).inst]
      /\ Checked(arr).inst = arr.inst
  BY DEF Checked, ArrOK
<1> QED BY <1>1 DEF ArrOK

\* One arrangement of the table is rewritten.
LEMMA ArrWritten ==
    ASSUME ArrsOK(arrs), NEW x \in ArrIds, NEW arr, ArrOK(arr), arrs' = [arrs EXCEPT ![x] = arr]
    PROVE  ArrsOK(arrs')
<1>1. arrs = [y \in ArrIds |-> arrs[y]]
  BY DEF ArrsOK
<1>2. arrs' = [y \in ArrIds |-> arrs'[y]] /\ arrs'[x] = arr
      /\ \A y \in ArrIds \ {x} : arrs'[y] = arrs[y]
  BY <1>1
<1> QED BY <1>2 DEF ArrsOK

\* The installments of an arrangement are replaced.
LEMMA InstsReplaced ==
    ASSUME NEW arr, ArrOK(arr), NEW insts, insts = [k \in DOMAIN arr.inst |-> insts[k]],
           \A k \in DOMAIN arr.inst : InstOK(insts[k])
    PROVE  ArrOK([arr EXCEPT !.inst = insts])
<1>1. arr = [status |-> arr.status, inst |-> arr.inst]
  BY DEF ArrOK
<1>2. [arr EXCEPT !.inst = insts] = [status |-> arr.status, inst |-> insts]
  BY <1>1
<1>3. DOMAIN insts = DOMAIN arr.inst
  OBVIOUS
<1> QED BY <1>2, <1>3 DEF ArrOK

LEMMA InstReplaced ==
    ASSUME NEW arr, ArrOK(arr), NEW k \in DOMAIN arr.inst, NEW i, InstOK(i)
    PROVE  ArrOK([arr EXCEPT !.inst[k] = i])
<1> DEFINE insts == [arr.inst EXCEPT ![k] = i]
<1>1. [arr EXCEPT !.inst[k] = i] = [arr EXCEPT !.inst = insts]
  BY DEF ArrOK
<1>2. insts = [j \in DOMAIN arr.inst |-> insts[j]] /\ \A j \in DOMAIN arr.inst : InstOK(insts[j])
  BY DEF ArrOK
<1> HIDE DEF insts
<1> QED BY <1>1, <1>2, InstsReplaced

-----------------------------------------------------------------------------
(* Payments, one at a time.                                                *)

SerialEffect == CaseOK(case') /\ CacheAgrees' /\ ArrsOK(arrs')

LEMMA LinkedSerial ==
    ASSUME ArrsOK(arrs), NEW amount \in Nat, Linked(Now, amount)
    PROVE  ArrsOK(arrs')
<1>1. ASSUME NEW x \in ArrIds,
             arrs' = [arrs EXCEPT ![x] = Checked([arrs[x] EXCEPT !.inst = Cascade(@, amount)])]
      PROVE  ArrsOK(arrs')
  <2>1. ArrOK(arrs[x])
    BY DEF ArrsOK
  <2> DEFINE arr == arrs[x]
             insts == Cascade(arr.inst, amount)
  <2>2. /\ insts = [k \in DOMAIN arr.inst |-> insts[k]]
        /\ \A k \in DOMAIN arr.inst : InstOK(insts[k])
    <3> HIDE DEF arr
    <3>1. DOMAIN arr.inst \subseteq Nat /\ \A k \in DOMAIN arr.inst : InstOK(arr.inst[k])
      BY <2>1 DEF ArrOK, arr
    <3> QED BY <3>1, CascadeOK
  <2>3. [arrs[x] EXCEPT !.inst = Cascade(@, amount)] = [arrs[x] EXCEPT !.inst = insts]
    BY <2>1 DEF ArrOK
  <2> HIDE DEF insts
  <2>4. ArrOK([arrs[x] EXCEPT !.inst = insts])
    BY <2>1, <2>2, InstsReplaced
  <2> QED BY <1>1, <2>3, <2>4, CheckedOK, ArrWritten
<1>2. CASE arrs' = arrs
  BY <1>2
<1>3. Active(arrs) \subseteq ArrIds
  BY DEF Active
<1> QED BY <1>1, <1>2, <1>3 DEF Linked

LEMMA PaymentSerial ==
    ASSUME SerialInv, MoneyInv', today' = today, PaymentHandler(Now)
    PROVE  SerialEffect
<1>c. MoneyInv /\ CaseOK(case) /\ ArrsOK(arrs)
  BY DEF SerialInv
<1>1. ASSUME NEW id \in PaymentIds, NEW a \in Amounts, NEW d \in Days,
             create_payment(Now, id, a, d)
      PROVE  SerialEffect
  <2>1. /\ Book(Now, "direct", a, NewPayment(Now, id, a, d))
        /\ Linked(Now, a) /\ claims' = claims
    BY <1>1 DEF create_payment
  <2>2. a \in Nat
    BY DEF Amounts
  <2>3. CaseOK(case') /\ cached' = Totals(claims', payments')
    BY <1>c, <2>1, BookSerial
  <2>4. ArrsOK(arrs')
    BY <1>c, <2>1, <2>2, LinkedSerial
  <2> QED BY <2>3, <2>4 DEF SerialEffect, CacheAgrees
<1>2. ASSUME NEW x \in ArrIds, NEW k \in DOMAIN arrs[x].inst, NEW id \in PaymentIds,
             NEW a \in Amounts, NEW d \in Days, record_installment_payment(Now, x, k, id, a, d)
      PROVE  SerialEffect
  <2> DEFINE i == arrs[x].inst[k]
             paid == PaidInst(i, a)
  <2>1. ArrOK(arrs[x]) /\ InstOK(i)
    BY <1>c DEF ArrsOK, ArrOK
  <2>2. a \in Nat \ {0}
    BY DEF Amounts
  <2>3. InstOK(paid)
    BY <2>1, <2>2, PaidInstOK
  <2>4. Flush(i, i, paid) = paid
    <3>1. /\ i = [f \in DOMAIN i |-> i[f]]
          /\ paid = [f \in DOMAIN i |-> paid[f]]
      BY <2>1, <2>3 DEF InstOK, Inst
    <3> HIDE DEF i, paid
    <3> QED BY <3>1, FlushSelf
  <2>5. /\ Book(Now, "installment", a, NewPayment(Now, id, a, d)) /\ claims' = claims
        /\ arrs' = [arrs EXCEPT ![x] = Checked([arrs[x] EXCEPT !.inst[k] = Flush(i, i, paid)])]
    BY <1>2, NowIs DEF record_installment_payment
  <2> HIDE DEF paid
  <2>6. ArrOK(Checked([arrs[x] EXCEPT !.inst[k] = paid]))
    BY <2>1, <2>3, InstReplaced, CheckedOK
  <2>7. ArrsOK(arrs')
    BY <1>c, <2>4, <2>5, <2>6, ArrWritten
  <2>8. CaseOK(case') /\ cached' = Totals(claims', payments')
    BY <1>c, <2>5, BookSerial
  <2> QED BY <2>7, <2>8 DEF SerialEffect, CacheAgrees
<1>3. ASSUME NEW p, delete_payment(Now, p) PROVE SerialEffect
  <2>1. CaseOK(case')
    BY <1>3, <1>c, TakenBackSerial DEF delete_payment
  <2>2. PICK v \in Views(Now) : cached' = Totals(v[1], Remaining(v[2], p))
    BY <1>3 DEF delete_payment
  <2>3. v = <<claims, payments>>
    BY NowIs
  <2>4. payments' = Remaining(payments, p) /\ claims' = claims /\ arrs' = arrs
    BY <1>3 DEF delete_payment, Remaining
  <2>5. cached' = Totals(claims', payments')
    BY <2>2, <2>3, <2>4
  <2> QED BY <1>c, <2>1, <2>4, <2>5 DEF SerialEffect, CacheAgrees
<1>4. ASSUME NEW p, NEW a, NEW d, update_payment(Now, p, a, d) PROVE SerialEffect
  <2>1. CaseOK(case')
    BY <1>4, <1>c, TakenBackSerial DEF update_payment
  <2>2. cached' = Totals(claims', payments')
    BY <1>4, NowIs DEF update_payment
  <2> QED BY <1>4, <1>c, <2>1, <2>2 DEF update_payment, SerialEffect, CacheAgrees
<1> QED BY <1>1, <1>2, <1>3, <1>4, NowIs DEF PaymentHandler

LEMMA TrustSerial ==
    ASSUME SerialInv, MoneyInv', today' = today, TrustHandler(Now)
    PROVE  SerialEffect
<1>c. MoneyInv /\ CaseOK(case) /\ ArrsOK(arrs)
  BY DEF SerialInv
<1>1. PICK id \in PaymentIds, a \in Amounts, d \in Days : BookTrust(Now, "trust", id, a, d)
  BY DEF TrustHandler, record_trust_debtor_payment
<1> DEFINE p == NewPayment(Now, id, a, d)
<1>2. Book(Now, "trust", a, p) /\ Linked(Now, p.amount) /\ claims' = claims
  BY <1>1 DEF BookTrust
<1>3. p.amount \in Nat
  <2>1. p \in Payment
    BY <1>c, NewPaymentFollowsTheLaw DEF MoneyInv
  <2> HIDE DEF p
  <2> QED BY <2>1, MaxAmountAssumption DEF Payment
<1> HIDE DEF p
<1>4. CaseOK(case') /\ cached' = Totals(claims', payments')
  BY <1>c, <1>2, BookSerial
<1>5. ArrsOK(arrs')
  BY <1>c, <1>2, <1>3, LinkedSerial
<1> QED BY <1>4, <1>5 DEF SerialEffect, CacheAgrees

-----------------------------------------------------------------------------
(* Arrangements and the case itself, one request at a time.                *)

LEMMA EndStatusIs ==
    ASSUME NEW arr, ArrOK(arr), NEW status, NEW closed
    PROVE  EndStatus(arr, status, closed) =
              [status |-> status,
               inst |-> [k \in DOMAIN arr.inst |->
                           IF OpenInst(arr.inst[k]) THEN [arr.inst[k] EXCEPT !.status = closed]
                           ELSE arr.inst[k]]]
<1> DEFINE insts == [k \in DOMAIN arr.inst |->
                       IF OpenInst(arr.inst[k]) THEN [arr.inst[k] EXCEPT !.status = closed]
                       ELSE arr.inst[k]]
<1>1. arr = [status |-> arr.status, inst |-> arr.inst]
  BY DEF ArrOK
<1>2. EndStatus(arr, status, closed) = [[arr EXCEPT !.status = status] EXCEPT !.inst = insts]
  BY <1>1 DEF EndStatus
<1> HIDE DEF insts
<1>3. EndStatus(arr, status, closed) = [status |-> status, inst |-> insts]
  BY <1>1, <1>2
<1> QED BY <1>3 DEF insts

LEMMA EndSerial ==
    ASSUME ArrsOK(arrs), NEW x \in ArrIds, NEW status, NEW closed \in {"missed", "waived"},
           End(Now, x, status, closed)
    PROVE  ArrsOK(arrs')
<1> DEFINE arr == arrs[x]
           ended == EndStatus(arr, status, closed)
           insts == [k \in DOMAIN arr.inst |->
                       IF OpenInst(arr.inst[k]) THEN [arr.inst[k] EXCEPT !.status = closed]
                       ELSE arr.inst[k]]
           mixed == [k \in DOMAIN arr.inst |-> Flush(arr.inst[k], arr.inst[k], insts[k])]
<1>1. ArrOK(arr)
  BY DEF ArrsOK
<1>2. ended = [status |-> status, inst |-> insts]
  <2> HIDE DEF arr
  <2> QED BY <1>1, EndStatusIs
<1>3. \A k \in DOMAIN arr.inst : InstOK(insts[k]) /\ InstOK(arr.inst[k])
  BY <1>1, EndedInstOK DEF ArrOK
<1>4. ASSUME NEW k \in DOMAIN arr.inst PROVE Flush(arr.inst[k], arr.inst[k], insts[k]) = insts[k]
  <2> DEFINE i == arr.inst[k]
             j == insts[k]
  <2>1. InstOK(i) /\ InstOK(j)
    BY <1>3
  <2> HIDE DEF i, j
  <2>2. i = [f \in DOMAIN i |-> i[f]] /\ j = [f \in DOMAIN i |-> j[f]]
    BY <2>1 DEF InstOK, Inst
  <2>3. Flush(i, i, j) = j
    BY <2>2, FlushSelf
  <2> QED BY <2>3 DEF i, j
<1>5. mixed = insts
  BY <1>4
<1>6. Flush(arr, arr, ended) = ended
  <2>1. arr = [f \in DOMAIN arr |-> arr[f]] /\ ended = [f \in DOMAIN arr |-> ended[f]]
    BY <1>1, <1>2 DEF ArrOK
  <2> HIDE DEF ended, arr
  <2> QED BY <2>1, FlushSelf
<1>7. FlushArr(arr, arr, ended) = ended
  <2>1. ended.inst = insts
    BY <1>2
  <2>2. FlushArr(arr, arr, ended) = [ended EXCEPT !.inst = mixed]
    <3> HIDE DEF ended, arr
    <3>1. \A k \in DOMAIN arr.inst : ended.inst[k] = insts[k]
      BY <2>1
    <3> QED BY <1>6, <3>1 DEF FlushArr
  <2> HIDE DEF insts, ended, arr, mixed
  <2>3. [ended EXCEPT !.inst = insts] = ended
    BY <1>2
  <2> QED BY <1>5, <2>2, <2>3
<1>8. arrs' = [arrs EXCEPT ![x] = ended]
  BY <1>7, NowIs DEF End
<1>9. ArrOK(ended)
  <2>1. ended.inst = insts /\ ended.status = status /\ DOMAIN insts = DOMAIN arr.inst
    BY <1>2
  <2>2. insts = [k \in DOMAIN insts |-> insts[k]]
    OBVIOUS
  <2> HIDE DEF insts, ended, arr
  <2> QED BY <1>1, <1>2, <1>3, <2>1, <2>2 DEF ArrOK
<1> HIDE DEF ended
<1> QED BY <1>8, <1>9, ArrWritten

LEMMA AgreedOK ==
    ASSUME NEW plan \in Plans
    PROVE  ArrOK(Agreed(plan))
<1> DEFINE Fresh(k) == [amount |-> plan[k], paid |-> 0, due |-> k - 1, status |-> "pending"]
           insts == [k \in DOMAIN plan |-> Fresh(k)]
<1>1. plan \in Seq(Nat)
  BY PlansAssumption
<1>2. (\E n \in Nat : DOMAIN plan = 1..n) /\ \A k \in DOMAIN plan : k \in Nat /\ plan[k] \in Nat
  BY <1>1
<1>3. ASSUME NEW k \in DOMAIN plan PROVE InstOK(Fresh(k))
  BY <1>2 DEF InstOK, Inst
<1>4. Agreed(plan) = [status |-> "active", inst |-> insts]
  BY DEF Agreed
<1>5. DOMAIN insts = DOMAIN plan /\ \A k \in DOMAIN plan : InstOK(insts[k])
  BY <1>3
<1>6. insts = [k \in DOMAIN insts |-> insts[k]]
  OBVIOUS
<1> HIDE DEF insts
<1> QED BY <1>2, <1>4, <1>5, <1>6 DEF ArrOK

LEMMA ArrangementSerial ==
    ASSUME SerialInv, ArrangementHandler(Now)
    PROVE  CaseOK(case') /\ ArrsOK(arrs') /\ UNCHANGED <<cached, claims, payments>>
<1>c. CaseOK(case) /\ ArrsOK(arrs) /\ \A x \in ArrIds : ArrOK(arrs[x])
  BY DEF SerialInv, ArrsOK
<1>u. UNCHANGED <<cached, claims, payments>>
  BY DEF ArrangementHandler, create_arrangement, default_arrangement, cancel_arrangement,
         update_arrangement, waive_installment, End, caseVars
<1>1. ASSUME NEW x \in ArrIds, NEW plan \in Plans, create_arrangement(Now, x, plan)
      PROVE  CaseOK(case') /\ ArrsOK(arrs')
  <2>1. CaseOK(Moved(case, RegelingStep))
    BY <1>c, CaseWrites, RegelingAssumption, StepsAssumption
  <2>2. Flush(case, case, Moved(case, RegelingStep)) = Moved(case, RegelingStep)
    BY <1>c, <2>1, FlushCase DEF CaseOK
  <2>3. CaseOK(case')
    BY <1>1, <1>c, <2>1, <2>2, NowIs DEF create_arrangement
  <2> QED BY <1>1, <1>c, <2>3, AgreedOK, ArrWritten DEF create_arrangement
<1>2. ASSUME NEW x \in ArrIds, NEW status, NEW closed \in {"missed", "waived"},
             End(Now, x, status, closed)
      PROVE  CaseOK(case') /\ ArrsOK(arrs')
  BY <1>2, <1>c, EndSerial DEF End
<1>3. ASSUME NEW x \in ArrIds, UNCHANGED case, NEW status,
             arrs' = [arrs EXCEPT ![x].status = status]
      PROVE  CaseOK(case') /\ ArrsOK(arrs')
  <2>1. ArrOK([arrs[x] EXCEPT !.status = status])
    <3>1. arrs[x] = [status |-> arrs[x].status, inst |-> arrs[x].inst]
      BY <1>c DEF ArrOK
    <3>2. [arrs[x] EXCEPT !.status = status] = [status |-> status, inst |-> arrs[x].inst]
      BY <3>1
    <3> QED BY <1>c, <3>2 DEF ArrOK
  <2>2. arrs' = [arrs EXCEPT ![x] = [arrs[x] EXCEPT !.status = status]]
    BY <1>3
  <2> QED BY <1>3, <1>c, <2>1, <2>2, ArrWritten
<1>4. ASSUME NEW x \in ArrIds, NEW k \in DOMAIN arrs[x].inst, waive_installment(Now, x, k)
      PROVE  CaseOK(case') /\ ArrsOK(arrs')
  <2> DEFINE old == arrs[x].inst[k]
             i == [old EXCEPT !.status = "waived"]
  <2>1. InstOK(old) /\ InstOK(i)
    BY <1>c, EndedInstOK DEF ArrOK
  <2>2. Flush(old, old, i) = i
    <3>1. /\ old = [f \in DOMAIN old |-> old[f]]
          /\ i = [f \in DOMAIN old |-> i[f]]
      BY <2>1 DEF InstOK, Inst
    <3> HIDE DEF old, i
    <3> QED BY <3>1, FlushSelf
  <2>3. /\ arrs' = [arrs EXCEPT ![x] = Checked([arrs[x] EXCEPT !.inst[k] = Flush(old, old, i)])]
        /\ case' = case
    BY <1>4, NowIs DEF waive_installment
  <2> HIDE DEF i
  <2>4. ArrOK(Checked([arrs[x] EXCEPT !.inst[k] = i]))
    BY <1>c, <2>1, InstReplaced, CheckedOK
  <2> QED BY <1>c, <2>2, <2>3, <2>4, ArrWritten
<1>5. ASSUME NEW x \in ArrIds, NEW status, update_arrangement(Now, x, status)
      PROVE  CaseOK(case') /\ ArrsOK(arrs')
  <2>1. CASE status = "active"
    <3> DEFINE s == IF arrs[x].status = status THEN arrs[x].status ELSE status
    <3>1. arrs' = [arrs EXCEPT ![x].status = s] /\ case' = case
      BY <1>5, <2>1, NowIs DEF update_arrangement, caseVars
    <3> HIDE DEF s
    <3> QED BY <1>3, <3>1
  <2>2. CASE status # "active"
    BY <1>5, <1>2, <2>2 DEF update_arrangement
  <2> QED BY <2>1, <2>2
<1> QED BY <1>u, <1>1, <1>2, <1>4, <1>5, NowIs
        DEF ArrangementHandler, default_arrangement, cancel_arrangement

\* Where interest stops for a case that is paid off by the payments ps.
FrozenAt(ps) == IF case.freeze = Never THEN LastPaid(ps) ELSE case.freeze

\* A status or a step that makes the case paid asks first what it owes.
AskedFirst ==
    /\ Owed(claims, payments, case.freeze) <= 0
    /\ case'.freeze \in {case.freeze, FrozenAt(payments)}

\* Another interest date changes nothing else.
Frozen == case'.freeze # case.freeze /\ case' = [case EXCEPT !.freeze = case'.freeze]

LEMMA CaseSerial ==
    ASSUME SerialInv, CaseHandler(Now)
    PROVE  /\ CaseOK(case') /\ UNCHANGED <<arrs, cached, claims, payments>>
           /\ case'.status = "betaald" => AskedFirst \/ Frozen
<1>c. CaseOK(case) /\ today \in Days /\ IsFiniteSet(payments) /\ PaymentsOK(payments)
  BY DEF SerialInv, MoneyInv
<1>1. ASSUME NEW status \in Statuses, update_case_status(Now, status)
      PROVE  /\ CaseOK(case') /\ UNCHANGED <<arrs, cached, claims, payments>>
             /\ case'.status = "betaald" => AskedFirst \/ Frozen
  <2> DEFINE c == WithStatus(case, status, LastPaid(payments))
  <2>1. LastPaid(payments) \in Days
    BY <1>c, LastPaidType
  <2>2. /\ CaseOK(c) /\ c.status = status
        /\ status = "betaald" => c.freeze = FrozenAt(payments)
    <3>1. CASE status \in TERMINAL_STATUSES
      <4>1. c = ClosedWith(case, status, LastPaid(payments))
        BY <3>1 DEF WithStatus
      <4>2. CaseOK(c)
        <5> HIDE DEF c
        <5> QED BY <1>c, <2>1, <3>1, <4>1, CaseWrites
      <4>3. /\ ClosedWith(case, status, LastPaid(payments)).status = status
            /\ ClosedWith(case, status, LastPaid(payments)).freeze = FrozenAt(payments)
        BY <1>c DEF ClosedWith, CaseOK, CaseRow, FrozenAt
      <4> QED BY <4>1, <4>2, <4>3
    <3>2. CASE status \notin TERMINAL_STATUSES
      <4>1. c = ReopenedByHand(case, status)
        BY <3>2 DEF WithStatus
      <4>2. CaseOK(c)
        <5> HIDE DEF c
        <5> QED BY <1>c, <3>2, <4>1, CaseWrites
      <4>3. ReopenedByHand(case, status).status = status
        BY <1>c DEF ReopenedByHand, CaseOK, CaseRow
      <4> QED BY <3>2, <4>1, <4>2, <4>3 DEF TERMINAL_STATUSES
    <3> QED BY <3>1, <3>2
  <2>3. case' = Flush(case, case, c)
    BY <1>1, NowIs DEF update_case_status
  <2> HIDE DEF c
  <2>4. case' = c
    BY <1>c, <2>2, <2>3, FlushCase DEF CaseOK
  <2>5. status = "betaald" => Owed(claims, payments, case.freeze) <= 0
    BY <1>1, NowIs DEF update_case_status, MayTake
  <2> QED BY <1>1, <2>2, <2>4, <2>5 DEF update_case_status, moneyVars, AskedFirst
<1>2. ASSUME NEW s \in Steps, update_case_step(Now, s)
      PROVE  /\ CaseOK(case') /\ UNCHANGED <<arrs, cached, claims, payments>>
             /\ case'.status = "betaald" => AskedFirst \/ Frozen
  <2> DEFINE c == Moved(case, s)
  <2>1. CaseOK(c)
    BY <1>c, CaseWrites
  <2>2. c.status = status_for_step(s) /\ c.freeze = case.freeze
    BY <1>c DEF Moved, CaseOK, CaseRow
  <2>3. c.status = "betaald" => s = PaidStep
    <3>1. CASE s = ClosedStep
      BY <2>2, <3>1, StepsAssumption DEF status_for_step
    <3>2. CASE s \notin {PaidStep, ClosedStep}
      BY <2>2, <3>2 DEF status_for_step
    <3> QED BY <3>1, <3>2
  <2>4. case' = Flush(case, case, c)
    BY <1>2, NowIs DEF update_case_step
  <2> HIDE DEF c
  <2>5. case' = c
    BY <1>c, <2>1, <2>4, FlushCase DEF CaseOK
  <2>6. s = PaidStep => Owed(claims, payments, case.freeze) <= 0
    BY <1>2 DEF update_case_step, MayEnter
  <2> QED BY <1>2, <2>1, <2>2, <2>3, <2>5, <2>6 DEF update_case_step, moneyVars, AskedFirst
<1>3. ASSUME NEW d \in FreezeDates, update_case_freeze(Now, d)
      PROVE  /\ CaseOK(case') /\ UNCHANGED <<arrs, cached, claims, payments>>
             /\ case'.status = "betaald" => AskedFirst \/ Frozen
  <2> DEFINE c == [case EXCEPT !.freeze = d]
  <2>1. CaseOK(c) /\ c.freeze = d
    BY <1>c, FreezeDatesAssumption DEF CaseOK, CaseRow, Closed
  <2>2. case' = Flush(case, case, c) /\ d # case.freeze
    BY <1>3, NowIs DEF update_case_freeze
  <2>3. case' = c
    <3> HIDE DEF c
    <3> QED BY <1>c, <2>1, <2>2, FlushCase DEF CaseOK
  <2> QED BY <1>3, <2>1, <2>2, <2>3 DEF update_case_freeze, moneyVars, Frozen
<1> QED BY <1>1, <1>2, <1>3 DEF CaseHandler

LEMMA BackgroundSerial ==
    ASSUME SerialInv, Background
    PROVE  /\ UNCHANGED <<case, cached, claims, payments>> /\ ArrsOK(arrs')
<1>u. UNCHANGED <<case, cached, claims, payments>>
  BY DEF Background, mark_overdue_installments, ensure_task, complete_task, PayOut,
         SecondsPass, NextDay, moneyVars, caseVars
<1>c. ArrsOK(arrs) /\ \A x \in ArrIds : ArrOK(arrs[x])
  BY DEF SerialInv, ArrsOK
<1>1. CASE mark_overdue_installments
  <2> DEFINE late(x) == [k \in DOMAIN arrs[x].inst |->
                            IF OverdueNow(arrs[x].inst[k])
                            THEN [arrs[x].inst[k] EXCEPT !.status = "overdue"]
                            ELSE arrs[x].inst[k]]
  <2>1. ASSUME NEW x \in ArrIds PROVE ArrOK([arrs[x] EXCEPT !.inst = late(x)])
    <3>1. /\ late(x) = [k \in DOMAIN arrs[x].inst |-> late(x)[k]]
          /\ \A k \in DOMAIN arrs[x].inst : InstOK(late(x)[k])
      BY <1>c, EndedInstOK DEF ArrOK
    <3> HIDE DEF late
    <3> QED BY <1>c, <3>1, InstsReplaced
  <2>2. arrs' = [x \in ArrIds |-> IF arrs[x].status # "active" THEN arrs[x]
                                  ELSE [arrs[x] EXCEPT !.inst = late(x)]]
    <3>1. \A x \in ArrIds :
              [arrs[x] EXCEPT !.inst = [k \in DOMAIN @ |->
                            IF OverdueNow(@[k]) THEN [@[k] EXCEPT !.status = "overdue"]
                            ELSE @[k]]]
              = [arrs[x] EXCEPT !.inst = late(x)]
      BY <1>c DEF ArrOK
    <3> HIDE DEF late
    <3> QED BY <1>1, <3>1 DEF mark_overdue_installments
  <2> HIDE DEF late
  <2> QED BY <1>u, <1>c, <2>1, <2>2 DEF ArrsOK
<1>2. CASE ~mark_overdue_installments
  <2>1. arrs' = arrs
    BY <1>2 DEF Background, ensure_task, complete_task, PayOut, SecondsPass, NextDay, moneyVars
  <2> QED BY <1>u, <1>c, <2>1
<1> QED BY <1>u, <1>1, <1>2

LEMMA HandlerSerial ==
    ASSUME SerialInv, MoneyInv', today' = today, Handler(Now)
    PROVE  SerialEffect
<1>1. ClaimHandler(Now) => SerialEffect
  BY ClaimSerial DEF SerialEffect, SerialInv
<1>2. PaymentHandler(Now) => SerialEffect
  BY PaymentSerial
<1>3. ArrangementHandler(Now) => SerialEffect
  BY ArrangementSerial DEF SerialEffect, SerialInv, CacheAgrees
<1>4. CaseHandler(Now) => SerialEffect
  BY CaseSerial DEF SerialEffect, SerialInv, CacheAgrees
<1>5. TrustHandler(Now) => SerialEffect
  BY TrustSerial
<1> QED BY <1>1, <1>2, <1>3, <1>4, <1>5 DEF Handler

LEMMA SerialStep ==
    ASSUME Requests = {}, SerialInv, [Next]_vars
    PROVE  SerialInv'
<1>1. MoneyInv'
  BY NextOK, StutterOK, StepMoney DEF SerialInv
<1>2. CASE Handler(Now)
  <2>1. today' = today
    BY <1>2, HandlerEffect DEF SerialInv, MoneyInv, MoneyEffect
  <2> QED BY <1>1, <1>2, <2>1, HandlerSerial DEF SerialInv, SerialEffect
<1>3. CASE Background
  BY <1>1, <1>3, BackgroundSerial DEF SerialInv, CacheAgrees
<1>4. CASE UNCHANGED vars
  BY <1>1, <1>4 DEF SerialInv, CacheAgrees, vars, moneyVars, caseVars
<1> QED BY <1>2, <1>3, <1>4 DEF Next

LEMMA SerialInit == Init => SerialInv
<1> SUFFICES ASSUME Init PROVE SerialInv
  OBVIOUS
<1>1. MoneyInv
  BY InitMoney
<1>2. CaseOK(case)
  <2>1. PICK s \in FirstSteps : case = NewCase(s)
    BY DEF Init
  <2>2. s \in Steps \cup {NoStep}
    BY FirstStepsAssumption
  <2> QED BY <2>1, <2>2 DEF NewCase, CaseOK, CaseRow, Closed, Statuses, TERMINAL_STATUSES
<1>3. CacheAgrees
  <2>1. claims = {} /\ payments = {} /\ cached = [principal |-> 0, paid |-> 0]
    BY DEF Init
  <2>2. SumOf({}, [c \in {} |-> c.amount]) = 0
    BY SumEmpty
  <2> QED BY <2>1, <2>2 DEF CacheAgrees, Totals, Principal, Paid
<1>4. ArrsOK(arrs)
  <2>1. ArrOK(NoArrangement)
    BY DEF NoArrangement, ArrOK
  <2> QED BY <2>1 DEF Init, ArrsOK
<1> QED BY <1>1, <1>2, <1>3, <1>4 DEF SerialInv

LEMMA SerialInvariant ==
    ASSUME Requests = {}
    PROVE  Spec => []SerialInv
BY SerialInit, SerialStep, PTL DEF Spec

\* The totals cached on the case row are those of its claims and payments, as long
\* as no two requests overlap (_refresh_case_financials).
THEOREM CacheFollows ==
    ASSUME Requests = {}
    PROVE  Spec => []CacheAgrees
<1>1. SerialInv => CacheAgrees
  BY DEF SerialInv
<1> QED BY <1>1, SerialInvariant, PTL

\* The closing date is set exactly while the case is closed, along every route that
\* closes, reopens or moves it.
THEOREM ClosedIsDated ==
    ASSUME Requests = {}
    PROVE  Spec => []ClosedDateAgrees
<1>1. SerialInv => ClosedDateAgrees
  BY DEF SerialInv, CaseOK, ClosedDateAgrees
<1> QED BY <1>1, SerialInvariant, PTL

\* What an installment says of itself agrees with what was paid on it.
THEOREM InstallmentsTellTheTruth ==
    ASSUME Requests = {}
    PROVE  Spec => []InstallmentsHonest
<1>1. SerialInv => InstallmentsHonest
  BY DEF SerialInv, ArrsOK, ArrOK, InstOK, InstallmentsHonest
<1> QED BY <1>1, SerialInvariant, PTL

-----------------------------------------------------------------------------
(* What is owed, and the closing and reopening that follow from it.        *)

LEMMA OwedType ==
    ASSUME MoneyInv, NEW ps, IsFiniteSet(ps), NEW freeze \in Days \cup {Never}
    PROVE  Owed(claims, ps, freeze) \in Int
<1> DEFINE d == IF freeze = Never THEN today ELSE freeze
<1>1. d \in Nat
  BY DayType DEF MoneyInv
<1> HIDE DEF d
<1>2. Interest(claims, ps, d) \in Nat
  BY <1>1, InterestType
<1>3. Bik[Principal(claims)] \in Nat /\ Principal(claims) \in Nat
  BY CostsType DEF MoneyInv
<1>4. Paid(ps) \in Nat
  BY SumType DEF Paid
<1>5. Owed(claims, ps, freeze) = Principal(claims) + Interest(claims, ps, d) + Bik[Principal(claims)] - Paid(ps)
  BY DEF Owed, d
<1> QED BY <1>2, <1>3, <1>4, <1>5

\* Interest does not shrink from day to day.
LEMMA InterestGrows ==
    ASSUME NEW cl, NEW ps, NEW d \in Nat, NEW e \in Nat, d <= e
    PROVE  Interest(cl, ps, d) <= Interest(cl, ps, e)
<1> DEFINE S(n) == {k \in 1..n : Principal(cl) > Allocated({p \in ps : p.day < k}, "principal")}
<1>1. IsFiniteSet(1..e) /\ S(e) \subseteq 1..e /\ S(d) \subseteq S(e)
  BY FS_Interval
<1> HIDE DEF S
<1>2. Cardinality(S(d)) <= Cardinality(S(e))
  BY <1>1, FS_Subset
<1> QED BY <1>2 DEF Interest, S

\* More payments leave less principal open on every day, and no more interest.
LEMMA InterestOnLess ==
    ASSUME NEW cl, NEW ps, NEW qs, IsFiniteSet(qs), ps \subseteq qs, NEW d \in Nat,
           Principal(cl) \in Nat
    PROVE  Interest(cl, qs, d) <= Interest(cl, ps, d)
<1> DEFINE S(xs) == {k \in 1..d : Principal(cl) > Allocated({p \in xs : p.day < k}, "principal")}
<1>1. ASSUME NEW k \in 1..d
      PROVE  Allocated({p \in ps : p.day < k}, "principal") <= Allocated({p \in qs : p.day < k}, "principal")
  <2> DEFINE A == {p \in ps : p.day < k}
             B == {p \in qs : p.day < k}
             f == [p \in A |-> p.to["principal"]]
             g == [p \in B |-> p.to["principal"]]
  <2>1. A \subseteq B /\ B \subseteq qs /\ \A x \in A : f[x] = g[x]
    OBVIOUS
  <2> HIDE DEF A, B, f, g
  <2>2. IsFiniteSet(B)
    BY <2>1, FS_Subset
  <2>3. SumOf(A, f) <= SumOf(B, g)
    BY <2>1, <2>2, SumMonotone
  <2> QED BY <2>3 DEF Allocated, A, B, f, g
<1>2. \A k \in 1..d : /\ Allocated({p \in ps : p.day < k}, "principal") \in Nat
                      /\ Allocated({p \in qs : p.day < k}, "principal") \in Nat
  <2> SUFFICES ASSUME NEW k \in 1..d
               PROVE  /\ Allocated({p \in ps : p.day < k}, "principal") \in Nat
                      /\ Allocated({p \in qs : p.day < k}, "principal") \in Nat
    OBVIOUS
  <2> DEFINE A == {p \in ps : p.day < k}
             B == {p \in qs : p.day < k}
  <2>1. A \subseteq qs /\ B \subseteq qs
    OBVIOUS
  <2> HIDE DEF A, B
  <2>2. Allocated(A, "principal") \in Nat /\ Allocated(B, "principal") \in Nat
    BY <2>1, FS_Subset, AllocatedType
  <2> QED BY <2>2 DEF A, B
<1>3. S(qs) \subseteq S(ps) /\ S(ps) \subseteq 1..d
  <2>1. ASSUME NEW k \in 1..d,
               Principal(cl) > Allocated({p \in qs : p.day < k}, "principal")
        PROVE  Principal(cl) > Allocated({p \in ps : p.day < k}, "principal")
    <3> DEFINE m == Allocated({p \in ps : p.day < k}, "principal")
               n == Allocated({p \in qs : p.day < k}, "principal")
    <3>1. m \in Nat /\ n \in Nat /\ m <= n /\ Principal(cl) > n
      BY <1>1, <1>2, <2>1
    <3> HIDE DEF m, n
    <3>2. Principal(cl) > m
      BY <3>1
    <3> QED BY <3>2 DEF m
  <2> QED BY <2>1, Zenon
<1>5. IsFiniteSet(1..d)
  BY FS_Interval
<1> HIDE DEF S
<1>4. IsFiniteSet(S(ps)) /\ Cardinality(S(qs)) <= Cardinality(S(ps))
  BY <1>3, <1>5, FS_Subset
<1> QED BY <1>4 DEF Interest, S

\* A booking never makes the case owe more.
LEMMA OwedShrinks ==
    ASSUME MoneyInv, NEW qs, IsFiniteSet(qs), payments \subseteq qs,
           NEW freeze \in Days \cup {Never}
    PROVE  Owed(claims, qs, freeze) <= Owed(claims, payments, freeze)
<1> DEFINE d == IF freeze = Never THEN today ELSE freeze
           f == [p \in payments |-> p.amount]
           g == [p \in qs |-> p.amount]
<1>1. d \in Nat
  BY DayType DEF MoneyInv
<1>2. \A x \in payments : f[x] = g[x]
  OBVIOUS
<1>3. Owed(claims, qs, freeze) = Principal(claims) + Interest(claims, qs, d) + Bik[Principal(claims)] - SumOf(qs, g)
  BY DEF Owed, Paid
<1>4. Owed(claims, payments, freeze)
        = Principal(claims) + Interest(claims, payments, d) + Bik[Principal(claims)] - SumOf(payments, f)
  BY DEF Owed, Paid
<1> HIDE DEF d, f, g
<1>5. Bik[Principal(claims)] \in Nat /\ Principal(claims) \in Nat /\ IsFiniteSet(payments)
  BY CostsType DEF MoneyInv
<1>6. Interest(claims, qs, d) <= Interest(claims, payments, d)
  BY <1>1, <1>5, InterestOnLess
<1>7. SumOf(payments, f) <= SumOf(qs, g)
  BY <1>2, SumMonotone
<1>8. /\ Interest(claims, qs, d) \in Nat /\ Interest(claims, payments, d) \in Nat
      /\ SumOf(payments, f) \in Nat /\ SumOf(qs, g) \in Nat
  BY <1>1, <1>5, InterestType, SumType
<1> QED BY <1>3, <1>4, <1>5, <1>6, <1>7, <1>8

\* Freezing the interest on the last payment never makes the case owe more, unless
\* that payment is dated ahead.
LEMMA OwedFrozen ==
    ASSUME MoneyInv, CaseOK(case), NEW ps, IsFiniteSet(ps), PaymentsOK(ps),
           Owed(claims, ps, case.freeze) <= 0,
           NEW freeze \in {case.freeze, FrozenAt(ps)},
           ~(freeze # case.freeze /\ freeze > today)
    PROVE  Owed(claims, ps, freeze) <= 0
<1>1. CASE freeze = case.freeze
  BY <1>1
<1>2. CASE freeze # case.freeze
  <2>1. case.freeze = Never /\ freeze = LastPaid(ps)
    BY <1>2 DEF FrozenAt
  <2>2. today \in Days /\ LastPaid(ps) \in Days
    BY LastPaidType DEF MoneyInv
  <2>3. /\ LastPaid(ps) \in Nat /\ today \in Nat /\ LastPaid(ps) # Never
        /\ LastPaid(ps) <= today
    BY <1>2, <2>1, <2>2, DayType DEF Never
  <2>4. Interest(claims, ps, LastPaid(ps)) <= Interest(claims, ps, today)
    BY <2>3, InterestGrows
  <2>5. Interest(claims, ps, LastPaid(ps)) \in Nat /\ Interest(claims, ps, today) \in Nat
    BY <2>3, InterestType
  <2>6. Bik[Principal(claims)] \in Nat /\ Principal(claims) \in Nat
    BY CostsType DEF MoneyInv
  <2>7. Paid(ps) \in Nat
    BY SumType DEF Paid
  <2>8. /\ Owed(claims, ps, case.freeze)
             = Principal(claims) + Interest(claims, ps, today) + Bik[Principal(claims)] - Paid(ps)
        /\ Owed(claims, ps, freeze)
             = Principal(claims) + Interest(claims, ps, LastPaid(ps)) + Bik[Principal(claims)] - Paid(ps)
    BY <2>1, <2>3 DEF Owed
  <2> QED BY <2>4, <2>5, <2>6, <2>7, <2>8
<1> QED BY <1>1, <1>2

\* A correction brings no payment with a new id.
LEMMA CorrectedBooksNothing ==
    ASSUME MoneyInv, NEW seen, NEW p \in payments, NEW a \in Amounts, NEW d \in Days,
           update_payment(seen, p, a, d)
    PROVE  \A q \in payments' : ~Booked(q)
<1>1. payments' = {IF q.id = p.id THEN Flush(q, p, [p EXCEPT !.amount = a, !.day = d])
                   ELSE q : q \in payments}
  BY DEF update_payment
<1>2. \A q \in payments : Flush(q, p, [p EXCEPT !.amount = a, !.day = d]).id = q.id
  BY CorrectedRow DEF MoneyInv, PaymentsOK
<1> QED BY <1>1, <1>2 DEF Booked

\* What a request that nobody overlaps does to payments and case: it books, it
\* takes back or corrects, or it leaves the payments alone.
Paying ==
    \/ /\ \E via, a, p : Book(Now, via, a, p)
    \/ /\ \A q \in payments' : ~Booked(q)
       /\ TakenBack(Now, payments')

LEMMA PaymentMoves ==
    ASSUME SerialInv, PaymentHandler(Now) \/ TrustHandler(Now)
    PROVE  Paying /\ UNCHANGED <<claims, today>>
<1>1. ASSUME NEW id, NEW a, NEW d, create_payment(Now, id, a, d)
      PROVE  Paying /\ UNCHANGED <<claims, today>>
  BY <1>1 DEF create_payment, Paying
<1>2. ASSUME NEW x, NEW k, NEW id, NEW a, NEW d, record_installment_payment(Now, x, k, id, a, d)
      PROVE  Paying /\ UNCHANGED <<claims, today>>
  BY <1>2 DEF record_installment_payment, Paying
<1>3. ASSUME NEW p, delete_payment(Now, p)
      PROVE  Paying /\ UNCHANGED <<claims, today>>
  <2>1. \A q \in payments' : ~Booked(q)
    BY <1>3 DEF delete_payment, Booked
  <2> QED BY <1>3, <2>1 DEF delete_payment, Paying
<1>4. ASSUME NEW p \in payments, NEW a \in Amounts, NEW d \in Days, update_payment(Now, p, a, d)
      PROVE  Paying /\ UNCHANGED <<claims, today>>
  <2>1. \A q \in payments' : ~Booked(q)
    BY <1>4, CorrectedBooksNothing DEF SerialInv
  <2> QED BY <1>4, <2>1 DEF update_payment, Paying
<1>5. CASE PaymentHandler(Now)
  BY <1>1, <1>2, <1>3, <1>4, <1>5, NowIs DEF PaymentHandler
<1>6. CASE TrustHandler(Now)
  BY <1>6 DEF TrustHandler, record_trust_debtor_payment, BookTrust, Paying
<1> QED BY <1>5, <1>6

PaidCloses ==
    \A p \in payments' : (Booked(p) /\ claims # {}) => (OwedNow' > 0 \/ Closed(case'))

StaysPaid ==
    (claims' = claims /\ today' = today /\ case'.status = "betaald" /\ OwedNow' > 0)
        => \/ case.status = "betaald" /\ OwedNow > 0
           \/ /\ case'.freeze # case.freeze
              /\ case'.freeze > today \/ case' = [case EXCEPT !.freeze = case'.freeze]

\* The two hold of a booking: it asks what is owed once the payment is there.
LEMMA BookingCloses ==
    ASSUME SerialInv, MoneyInv', UNCHANGED <<claims, today>>, NEW via, NEW a, NEW p,
           Book(Now, via, a, p)
    PROVE  PaidCloses /\ StaysPaid
<1>c. MoneyInv /\ CaseOK(case)
  BY DEF SerialInv
<1>1. case' = HookedCase(case, payments') /\ payments' = payments \cup {p}
  BY <1>c, BookSerial DEF Book
<1>2. IsFiniteSet(payments') /\ PaymentsOK(payments')
  BY DEF MoneyInv
<1>3. case \in CaseRow /\ case.freeze \in Days \cup {Never}
  BY <1>c DEF CaseOK, CaseRow
<1> DEFINE owed == Owed(claims, payments', case.freeze)
<1>4. owed \in Int /\ OwedNow \in Int
  BY <1>c, <1>2, <1>3, OwedType DEF OwedNow, MoneyInv
<1>5. OwedNow' = Owed(claims, payments', case'.freeze)
  BY DEF OwedNow, Owed
<1>6. owed <= OwedNow
  BY <1>1, <1>2, <1>3, <1>c, OwedShrinks DEF OwedNow
<1>7. CASE PaidOff(case, payments')
  <2>1. case' = ClosedWith(case, "betaald", LastPaid(payments'))
    BY <1>1, <1>7 DEF HookedCase
  <2>2. case'.status = "betaald" /\ case'.freeze = FrozenAt(payments')
    BY <1>3, <2>1 DEF ClosedWith, CaseRow, FrozenAt
  <2>3. Closed(case')
    BY <2>2 DEF Closed, TERMINAL_STATUSES
  <2>4. owed <= 0
    BY <1>7 DEF PaidOff
  <2>5. CASE case'.freeze # case.freeze /\ case'.freeze > today
    BY <2>3, <2>5 DEF PaidCloses, StaysPaid
  <2>6. CASE ~(case'.freeze # case.freeze /\ case'.freeze > today)
    <3>1. Owed(claims, payments', case'.freeze) <= 0
      BY <1>2, <1>c, <2>2, <2>4, <2>6, OwedFrozen
    <3>2. LastPaid(payments') \in Days
      BY <1>2, <1>c, LastPaidType DEF MoneyInv
    <3>3. case'.freeze \in Days \cup {Never}
      BY <1>3, <2>2, <3>2 DEF FrozenAt
    <3>4. OwedNow' \in Int
      BY <1>2, <1>5, <1>c, <3>3, OwedType
    <3>5. ~(OwedNow' > 0)
      BY <1>5, <3>1, <3>4
    <3> QED BY <2>3, <3>5 DEF PaidCloses, StaysPaid
  <2> QED BY <2>5, <2>6
<1>8. CASE ~PaidOff(case, payments')
  <2>1. case' = case
    BY <1>1, <1>8 DEF HookedCase
  <2>2. OwedNow' = owed
    BY <1>5, <2>1
  <2>3. Closed(case') \/ ~(owed <= 0)
    BY <1>8, <2>1 DEF PaidOff
  <2> HIDE DEF owed
  <2> QED BY <1>4, <1>6, <2>1, <2>2, <2>3 DEF PaidCloses, StaysPaid
<1> QED BY <1>7, <1>8

\* A case that is still called paid after a payment was taken back owes nothing.
LEMMA TakingBackReopens ==
    ASSUME SerialInv, MoneyInv', UNCHANGED <<claims, today>>, TakenBack(Now, payments')
    PROVE  StaysPaid
<1> SUFFICES ASSUME case'.status = "betaald", OwedNow' > 0
             PROVE  FALSE
  BY DEF StaysPaid
<1>c. MoneyInv /\ CaseOK(case) /\ IsFiniteSet(payments')
  BY DEF SerialInv, MoneyInv
<1>1. case' = IF StillPaid(case, payments') THEN case ELSE Reopened(case)
  BY <1>c, TakenBackSerial
<1>2. Reopened(case).status = "in_behandeling"
  BY <1>c DEF Reopened, CaseOK, CaseRow
<1>3. case' = case /\ StillPaid(case, payments')
  BY <1>1, <1>2
<1>4. OwedNow' = Owed(claims, payments', case.freeze)
  BY <1>3 DEF OwedNow, Owed
<1>5. OwedNow' <= 0
  BY <1>3, <1>4 DEF StillPaid
<1>6. OwedNow' \in Int
  BY <1>4, <1>c, OwedType DEF CaseOK, CaseRow
<1> QED BY <1>5, <1>6

\* Every other handler leaves the payments alone; where it leaves or makes the case
\* paid, it asked first, or changed nothing.
LEMMA OthersStayPaid ==
    ASSUME SerialInv, MoneyInv',
           ClaimHandler(Now) \/ ArrangementHandler(Now) \/ CaseHandler(Now) \/ Background
    PROVE  PaidCloses /\ StaysPaid
<1>c. MoneyInv /\ CaseOK(case) /\ case \in CaseRow
  BY DEF SerialInv, CaseOK
<1>p. UNCHANGED payments
  BY CaseSerial, ArrangementSerial, BackgroundSerial
     DEF ClaimHandler, create_claim, update_claim, delete_claim
<1>q. PaidCloses
  BY <1>p DEF PaidCloses, Booked
<1>s. (UNCHANGED case \/ case'.status # "betaald") => StaysPaid
  BY <1>p DEF StaysPaid, OwedNow, Owed
<1>1. CASE ClaimHandler(Now)
  <2>1. ASSUME NEW id, NEW a, create_claim(Now, id, a)
        PROVE  UNCHANGED case \/ case'.status # "betaald"
    <3>1. case' = Flush(case, case, ReopenOnDebt(case)) /\ CaseOK(ReopenOnDebt(case))
      BY <1>c, <2>1, CaseWrites, NowIs DEF create_claim, ReopenOnDebt
    <3>2. case' = ReopenOnDebt(case)
      BY <1>c, <3>1, FlushCase DEF CaseOK
    <3>3. Reopened(case).status = "in_behandeling"
      BY <1>c DEF Reopened, CaseRow
    <3> QED BY <3>2, <3>3 DEF ReopenOnDebt
  <2>2. UNCHANGED case \/ case'.status # "betaald"
    BY <1>1, <2>1 DEF ClaimHandler, update_claim, delete_claim, caseVars
  <2> QED BY <1>q, <1>s, <2>2
<1>2. CASE ArrangementHandler(Now)
  <2>1. ASSUME NEW x, NEW plan, create_arrangement(Now, x, plan)
        PROVE  UNCHANGED case \/ case'.status # "betaald"
    <3>1. RegelingStep \in Steps /\ RegelingStep \notin {PaidStep, ClosedStep}
      BY RegelingAssumption, StepsAssumption
    <3>2. CaseOK(Moved(case, RegelingStep)) /\ Moved(case, RegelingStep).status = "in_behandeling"
      BY <1>c, <3>1, CaseWrites DEF Moved, status_for_step, CaseRow
    <3>3. case' \in {case, Flush(case, case, Moved(case, RegelingStep))}
      BY <2>1, NowIs DEF create_arrangement
    <3> QED BY <1>c, <3>2, <3>3, FlushCase DEF CaseOK
  <2>2. UNCHANGED case \/ case'.status # "betaald"
    BY <1>2, <2>1 DEF ArrangementHandler, default_arrangement, cancel_arrangement,
                      update_arrangement, waive_installment, End, caseVars
  <2> QED BY <1>q, <1>s, <2>2
<1>3. CASE CaseHandler(Now)
  <2> SUFFICES ASSUME case'.status = "betaald", OwedNow' > 0, ~Frozen,
                      ~(case'.freeze # case.freeze /\ case'.freeze > today)
               PROVE  FALSE
    BY <1>q DEF StaysPaid, Frozen
  <2>1. AskedFirst /\ CaseOK(case') /\ UNCHANGED claims
    BY <1>3, CaseSerial
  <2>2. IsFiniteSet(payments) /\ PaymentsOK(payments) /\ today \in Days
    BY <1>c DEF MoneyInv
  <2>3. Owed(claims, payments, case'.freeze) <= 0
    BY <1>c, <2>1, <2>2, OwedFrozen DEF AskedFirst
  <2>4. OwedNow' = Owed(claims, payments, case'.freeze)
    <3>1. today' = today
      BY <1>3 DEF CaseHandler, update_case_status, update_case_step, update_case_freeze
    <3> QED BY <1>p, <2>1, <3>1 DEF OwedNow, Owed
  <2>5. case'.freeze \in Days \cup {Never}
    BY <2>1 DEF CaseOK, CaseRow
  <2>6. OwedNow' \in Int
    BY <1>c, <2>2, <2>4, <2>5, OwedType
  <2> QED BY <2>3, <2>4, <2>6
<1>4. CASE Background
  BY <1>4, <1>q, <1>s, BackgroundSerial
<1> QED BY <1>1, <1>2, <1>3, <1>4

LEMMA ClosingStep ==
    ASSUME Requests = {}, SerialInv, MoneyInv', Next
    PROVE  PaidCloses /\ StaysPaid
<1>1. CASE PaymentHandler(Now) \/ TrustHandler(Now)
  <2>1. Paying /\ UNCHANGED <<claims, today>>
    BY <1>1, PaymentMoves
  <2>2. CASE \E via, a, p : Book(Now, via, a, p)
    BY <2>1, <2>2, BookingCloses
  <2>3. CASE TakenBack(Now, payments') /\ \A q \in payments' : ~Booked(q)
    BY <2>1, <2>3, TakingBackReopens DEF PaidCloses
  <2> QED BY <2>1, <2>2, <2>3 DEF Paying
<1>2. CASE ClaimHandler(Now) \/ ArrangementHandler(Now) \/ CaseHandler(Now) \/ Background
  BY <1>2, OthersStayPaid
<1> QED BY <1>1, <1>2 DEF Next, Handler

\* The last payment closes the case: no booking leaves an open case that owes
\* nothing (on_payment_received).
THEOREM LastPaymentClosesCase ==
    ASSUME Requests = {}
    PROVE  Spec => LastPaymentCloses
<1>1. SerialInv /\ MoneyInv' /\ [Next]_vars => [PaidCloses]_vars
  BY ClosingStep
<1>2. SerialInv => MoneyInv
  BY DEF SerialInv
<1> QED BY <1>1, <1>2, SerialInvariant, PTL DEF Spec, LastPaymentCloses, PaidCloses

\* A payment taken back, corrected or added, a step or a status given by hand never
\* leaves the case "betaald" with money open (_reopen_case_if_no_longer_paid), unless
\* the last payment is dated ahead and interest stops on that day, or the interest date
\* is set by hand.
THEOREM PaidIsPaid ==
    ASSUME Requests = {}
    PROVE  Spec => PaidMeansPaid
<1>1. SerialInv /\ MoneyInv' /\ [Next]_vars => [StaysPaid]_vars
  BY ClosingStep
<1>2. SerialInv => MoneyInv
  BY DEF SerialInv
<1> QED BY <1>1, <1>2, SerialInvariant, PTL DEF Spec, PaidMeansPaid, StaysPaid

-----------------------------------------------------------------------------
(* Coins of a payment reach the installments that need them.               *)

\* Filling n gaps in order with a coins fills them as far as the coins go.
LEMMA GapsFill ==
    ASSUME NEW n \in Nat, NEW gap, \A k \in 1..n : gap[k] \in Nat, NEW a \in 0..MaxAmount,
           NEW share,
           \A k \in 1..n : share[k] = Least(AtLeastZero(a - SumOf(1..(k - 1), gap)), gap[k])
    PROVE  SumOf(1..n, share) = Least(a, SumOf(1..n, gap))
<1> DEFINE S == {k \in Nat : k <= n => SumOf(1..k, share) = Least(a, SumOf(1..k, gap))}
<1>a. a \in Nat /\ a <= MaxAmount /\ MaxAmount \in Nat
  BY MaxAmountAssumption
<1>1. 0 \in S
  <2>1. 1..0 = {}
    OBVIOUS
  <2>2. SumOf({}, share) = 0 /\ SumOf({}, gap) = 0
    BY SumEmpty
  <2> QED BY <1>a, <2>1, <2>2 DEF Least
<1>2. ASSUME NEW k \in Nat, k \in S PROVE k + 1 \in S
  <2>1. SUFFICES ASSUME k + 1 <= n
                 PROVE  SumOf(1..(k + 1), share) = Least(a, SumOf(1..(k + 1), gap))
    OBVIOUS
  <2> DEFINE filled == SumOf(1..k, share)
             before == SumOf(1..k, gap)
             g == gap[k + 1]
             s == share[k + 1]
  <2>2. filled = Least(a, before)
    BY <1>2, <2>1
  <2>3. k + 1 \in 1..n /\ (k + 1) - 1 = k /\ 1..(k + 1) = 1..k \cup {k + 1} /\ k + 1 \notin 1..k
    BY <2>1
  <2>4. IsFiniteSet(1..k)
    BY FS_Interval
  <2>5. before \in Nat /\ g \in Nat
    BY <2>3, <2>4, SumType
  <2>6. s = Least(AtLeastZero(a - before), g)
    BY <2>3
  <2>7. s \in Nat /\ s <= MaxAmount
    BY <1>a, <2>5, <2>6 DEF Least, AtLeastZero
  <2>8. SumOf(1..(k + 1), gap) = before + (IF g <= MaxAmount THEN g ELSE MaxAmount)
    <3>1. SumOf(1..k \cup {k + 1}, gap) = before + (IF g <= MaxAmount THEN g ELSE MaxAmount)
      <4>1. gap[k + 1] \in Nat
        BY <2>5
      <4> QED BY <2>3, <2>4, <4>1, SumAddAny
    <3>2. 1..(k + 1) = 1..k \cup {k + 1}
      BY <2>3
    <3> HIDE DEF before, g
    <3> QED BY <3>1, <3>2
  <2>9. SumOf(1..(k + 1), share) = filled + s
    <3>1. SumOf(1..k \cup {k + 1}, share) = filled + (IF s <= MaxAmount THEN s ELSE MaxAmount)
      <4>1. share[k + 1] \in Nat
        BY <2>7
      <4> QED BY <2>3, <2>4, <4>1, SumAddAny
    <3>2. 1..(k + 1) = 1..k \cup {k + 1}
      BY <2>3
    <3> HIDE DEF filled, s
    <3> QED BY <2>7, <3>1, <3>2
  <2> HIDE DEF filled, before, g, s
  <2> QED BY <1>a, <2>2, <2>5, <2>6, <2>8, <2>9 DEF Least, AtLeastZero
<1> HIDE DEF S
<1>3. n \in S
  BY <1>1, <1>2, NatSetInduction
<1> QED BY <1>3 DEF S

\* What a payment of a coins adds to installment k.
LEMMA CascadeShares ==
    ASSUME NEW insts, NEW n \in Nat, DOMAIN insts = 1..n, \A k \in 1..n : InstOK(insts[k]),
           NEW a \in 0..MaxAmount
    PROVE  /\ \A k \in 1..n : Cascade(insts, a)[k].paid >= insts[k].paid
           /\ SumOf(1..n, [k \in 1..n |-> Cascade(insts, a)[k].paid - insts[k].paid])
                 = Least(a, SumOf(1..n, [k \in 1..n |-> Gap(insts[k])]))
<1> DEFINE gap == [k \in 1..n |-> Gap(insts[k])]
           share == [k \in 1..n |-> Cascade(insts, a)[k].paid - insts[k].paid]
<1>1. ASSUME NEW k \in 1..n
      PROVE  /\ gap[k] \in Nat
             /\ share[k] = Least(AtLeastZero(a - SumOf(1..(k - 1), gap)), gap[k])
             /\ Cascade(insts, a)[k].paid >= insts[k].paid
  <2> DEFINE own == [j \in 1..(k - 1) |-> Gap(insts[j])]
             before == SumOf(1..(k - 1), own)
             coins == Least(AtLeastZero(a - before), Gap(insts[k]))
  <2>1. insts[k].amount \in Nat /\ insts[k].paid \in Nat /\ insts[k] \in Inst
    BY DEF InstOK, Inst
  <2>2. Gap(insts[k]) \in Nat
    BY <2>1 DEF Gap, AtLeastZero
  <2>3. before = SumOf(1..(k - 1), gap) /\ before \in Nat
    <3>1. \A j \in 1..(k - 1) : own[j] = gap[j]
      OBVIOUS
    <3>2. IsFiniteSet(1..(k - 1))
      BY FS_Interval
    <3> HIDE DEF own, gap
    <3> QED BY <3>1, <3>2, SumCongruent, SumType
  <2>4. Cascade(insts, a)[k] = IF coins > 0 THEN PaidInst(insts[k], coins) ELSE insts[k]
    BY DEF Cascade
  <2>5. gap[k] = Gap(insts[k])
    OBVIOUS
  <2> HIDE DEF before, gap
  <2>6. coins \in Nat
    BY <2>2, <2>3 DEF Least, AtLeastZero
  <2>7. coins = Least(AtLeastZero(a - SumOf(1..(k - 1), gap)), gap[k])
    BY <2>3, <2>5
  <2> HIDE DEF coins
  <2>8. PaidInst(insts[k], coins).paid = insts[k].paid + coins
    BY <2>1 DEF PaidInst, Inst
  <2>9. Cascade(insts, a)[k].paid = insts[k].paid + coins
    BY <2>1, <2>4, <2>6, <2>8
  <2> QED BY <2>1, <2>2, <2>5, <2>6, <2>7, <2>9
<1> HIDE DEF gap, share
<1>2. SumOf(1..n, share) = Least(a, SumOf(1..n, gap))
  BY <1>1, GapsFill
<1> QED BY <1>1, <1>2 DEF gap, share

CoinsLand(amount) ==
    /\ \A y \in Active(arrs) : \E x \in ArrIds : Landed(x) >= Least(amount, Needed(y))
    /\ \A x \in ArrIds : \A k \in DOMAIN arrs[x].inst :
          arrs'[x].inst[k].paid >= arrs[x].inst[k].paid

\* A payment that is linked lands on the arrangement that runs.
LEMMA LinkedLands ==
    ASSUME ArrsOK(arrs), NEW a \in 0..MaxAmount, Linked(Now, a)
    PROVE  CoinsLand(a)
<1>1. /\ arrs = [x \in ArrIds |-> arrs[x]]
      /\ \A x \in ArrIds : ArrOK(arrs[x]) /\ \A k \in DOMAIN arrs[x].inst : arrs[x].inst[k].paid \in Nat
  BY DEF ArrsOK, ArrOK, InstOK, Inst
<1> DEFINE fillable == {x \in Active(arrs) : \E k \in DOMAIN arrs[x].inst : OpenInst(arrs[x].inst[k])}
<1>2. CASE fillable = {}
  <2>1. arrs' = arrs
    BY <1>2 DEF Linked
  <2>2. ASSUME NEW y \in Active(arrs) PROVE y \in ArrIds /\ Landed(y) >= Least(a, Needed(y))
    <3>1. y \in ArrIds /\ \A k \in DOMAIN arrs[y].inst : Gap(arrs[y].inst[k]) = 0
      BY <1>2 DEF Active, Gap
    <3>2. [k \in DOMAIN arrs[y].inst |-> arrs'[y].inst[k].paid - arrs[y].inst[k].paid]
            = [k \in DOMAIN arrs[y].inst |-> Gap(arrs[y].inst[k])]
      BY <1>1, <2>1, <3>1
    <3>3. Landed(y) = Needed(y)
      BY <3>2, Zenon DEF Landed, Needed
    <3>4. Needed(y) \in Nat
      <4>1. PICK n \in Nat : DOMAIN arrs[y].inst = 1..n
        BY <1>1, <3>1 DEF ArrOK
      <4>2. IsFiniteSet(DOMAIN arrs[y].inst)
        BY <4>1, FS_Interval
      <4>3. [k \in DOMAIN arrs[y].inst |-> Gap(arrs[y].inst[k])] \in [DOMAIN arrs[y].inst -> Nat]
        BY <3>1
      <4> QED BY <4>2, <4>3, SumType DEF Needed
    <3> QED BY <3>1, <3>3, <3>4, MaxAmountAssumption DEF Least
  <2> QED BY <1>1, <2>1, <2>2 DEF CoinsLand
<1>3. CASE fillable # {}
  <2>1. PICK x \in Active(arrs) :
           arrs' = [arrs EXCEPT ![x] = Checked([arrs[x] EXCEPT !.inst = Cascade(@, a)])]
    BY <1>3 DEF Linked
  <2>2. x \in ArrIds
    BY DEF Active
  <2>3. \A y \in Active(arrs) : y = x
    <3>1. IsFiniteSet(Active(arrs)) /\ Cardinality(Active(arrs)) \in Nat
      BY PlansAssumption, FS_Subset, FS_CardinalityType DEF Active
    <3>2. Cardinality(Active(arrs)) = 1
      BY <2>1, <3>1, FS_EmptySet DEF Linked
    <3> QED BY <3>1, <3>2, FS_Singleton
  <2> DEFINE insts == arrs[x].inst
  <2>4. PICK n \in Nat : DOMAIN insts = 1..n
    BY <1>1, <2>2 DEF ArrOK
  <2>5. \A k \in 1..n : InstOK(insts[k])
    BY <1>1, <2>2, <2>4 DEF ArrOK
  <2>6. arrs'[x].inst = Cascade(insts, a) /\ \A y \in ArrIds \ {x} : arrs'[y] = arrs[y]
    <3>1. ArrOK(arrs[x])
      BY <1>1, <2>2
    <3>2. [arrs[x] EXCEPT !.inst = Cascade(@, a)].inst = Cascade(insts, a)
      BY <3>1 DEF ArrOK
    <3>3. \A arr : Checked(arr).inst = arr.inst
      BY DEF Checked
    <3>4. arrs'[x] = Checked([arrs[x] EXCEPT !.inst = Cascade(@, a)])
          /\ \A y \in ArrIds \ {x} : arrs'[y] = arrs[y]
      BY <1>1, <2>1, <2>2
    <3> QED BY <3>2, <3>3, <3>4
  <2> HIDE DEF insts
  <2>7. /\ \A k \in 1..n : Cascade(insts, a)[k].paid >= insts[k].paid
        /\ SumOf(1..n, [k \in 1..n |-> Cascade(insts, a)[k].paid - insts[k].paid])
              = Least(a, SumOf(1..n, [k \in 1..n |-> Gap(insts[k])]))
    BY <2>4, <2>5, CascadeShares
  <2>8. Landed(x) = Least(a, Needed(x)) /\ Needed(x) \in Nat
    <3>1. Landed(x) = SumOf(1..n, [k \in 1..n |-> Cascade(insts, a)[k].paid - insts[k].paid])
      BY <2>4, <2>6 DEF Landed, insts
    <3>2. Needed(x) = SumOf(1..n, [k \in 1..n |-> Gap(insts[k])])
      BY <2>4 DEF Needed, insts
    <3>3. IsFiniteSet(1..n)
      BY FS_Interval
    <3> QED BY <2>7, <3>1, <3>2, <3>3, SumType
  <2>9. Landed(x) >= Least(a, Needed(x))
    BY <2>8 DEF Least
  <2>10. \A y \in ArrIds : \A k \in DOMAIN arrs[y].inst :
            arrs'[y].inst[k].paid >= arrs[y].inst[k].paid
    <3> TAKE y \in ArrIds
    <3> TAKE k \in DOMAIN arrs[y].inst
    <3>1. CASE y = x
      BY <2>4, <2>6, <2>7, <3>1 DEF insts
    <3>2. CASE y # x
      BY <1>1, <2>6, <3>2
    <3> QED BY <3>1, <3>2
  <2> QED BY <2>2, <2>3, <2>9, <2>10 DEF CoinsLand
<1> QED BY <1>2, <1>3

\* A payment on one installment lands on that one whole.
LEMMA InstallmentLands ==
    ASSUME ArrsOK(arrs), NEW x \in ArrIds, NEW k \in DOMAIN arrs[x].inst, NEW a \in Amounts,
           NEW id, NEW d, record_installment_payment(Now, x, k, id, a, d)
    PROVE  CoinsLand(a)
<1> DEFINE i == arrs[x].inst[k]
           paid == PaidInst(i, a)
           insts == arrs[x].inst
           delta == [j \in DOMAIN insts |-> arrs'[x].inst[j].paid - arrs[x].inst[j].paid]
<1>1. /\ arrs = [y \in ArrIds |-> arrs[y]]
      /\ \A y \in ArrIds : ArrOK(arrs[y]) /\ \A j \in DOMAIN arrs[y].inst : arrs[y].inst[j].paid \in Nat
  BY DEF ArrsOK, ArrOK, InstOK, Inst
<1>2. ArrOK(arrs[x]) /\ InstOK(i) /\ a \in Nat \ {0} /\ a <= MaxAmount
  BY <1>1, MaxAmountAssumption DEF ArrOK, Amounts
<1>3. InstOK(paid) /\ paid.paid = i.paid + a
  <2>1. paid.paid = i.paid + a
    BY <1>2 DEF PaidInst, InstOK, Inst
  <2> QED BY <1>2, <2>1, PaidInstOK
<1>4. Flush(i, i, paid) = paid
  <2>1. /\ i = [f \in DOMAIN i |-> i[f]]
        /\ paid = [f \in DOMAIN i |-> paid[f]]
    BY <1>2, <1>3 DEF InstOK, Inst
  <2> HIDE DEF i, paid
  <2> QED BY <2>1, FlushSelf
<1>5. arrs' = [arrs EXCEPT ![x] = Checked([arrs[x] EXCEPT !.inst[k] = Flush(i, i, paid)])]
  BY NowIs DEF record_installment_payment
<1> HIDE DEF paid
<1>6. arrs'[x].inst = [insts EXCEPT ![k] = paid] /\ \A y \in ArrIds \ {x} : arrs'[y] = arrs[y]
  <2>1. [arrs[x] EXCEPT !.inst[k] = paid].inst = [insts EXCEPT ![k] = paid]
    BY <1>2 DEF ArrOK
  <2>2. \A arr : Checked(arr).inst = arr.inst
    BY DEF Checked
  <2>3. arrs'[x] = Checked([arrs[x] EXCEPT !.inst[k] = paid])
        /\ \A y \in ArrIds \ {x} : arrs'[y] = arrs[y]
    BY <1>1, <1>4, <1>5
  <2> QED BY <2>1, <2>2, <2>3
<1>7. PICK n \in Nat : DOMAIN insts = 1..n
  BY <1>2 DEF ArrOK
<1>8. arrs'[x].inst[k] = paid /\ \A j \in DOMAIN insts \ {k} : arrs'[x].inst[j] = insts[j]
  BY <1>2, <1>6 DEF ArrOK
<1>9. delta[k] = a
  BY <1>1, <1>2, <1>3, <1>8
<1>10. Landed(x) = SumOf(DOMAIN insts, delta)
  BY DEF Landed
<1> HIDE DEF delta
<1>11. SumOf(DOMAIN insts, delta) >= a
  <2> DEFINE R == DOMAIN insts \ {k}
  <2>1. DOMAIN insts = R \cup {k} /\ k \notin R
    OBVIOUS
  <2>2. IsFiniteSet(R)
    <3>1. IsFiniteSet(1..n)
      BY FS_Interval
    <3>2. R \subseteq 1..n
      BY <1>7
    <3> QED BY <3>1, <3>2, FS_Subset
  <2> HIDE DEF R
  <2>3. SumOf(DOMAIN insts, delta) = SumOf(R, delta) + a
    BY <1>2, <1>9, <2>1, <2>2, SumAddAny
  <2>4. SumOf(R, delta) \in Nat
    BY <2>2, SumType
  <2> QED BY <1>2, <2>3, <2>4
<1>12. \A y \in ArrIds : Landed(x) >= Least(a, Needed(y))
  <2> TAKE y \in ArrIds
  <2>1. Needed(y) \in Nat
    <3>1. \E m \in Nat : DOMAIN arrs[y].inst = 1..m
      BY <1>1 DEF ArrOK
    <3>2. IsFiniteSet(DOMAIN arrs[y].inst)
      BY <3>1, FS_Interval
    <3> QED BY <3>2, SumType DEF Needed
  <2>2. Landed(x) \in Nat
    BY <1>7, <1>10, FS_Interval, SumType
  <2> QED BY <1>2, <1>10, <1>11, <2>1, <2>2 DEF Least
<1>13. \A y \in ArrIds : \A j \in DOMAIN arrs[y].inst :
          arrs'[y].inst[j].paid >= arrs[y].inst[j].paid
  <2> TAKE y \in ArrIds
  <2> TAKE j \in DOMAIN arrs[y].inst
  <2>1. CASE y # x
    BY <1>1, <1>6, <2>1
  <2>2. CASE y = x /\ j # k
    BY <1>1, <1>8, <2>2
  <2>3. CASE y = x /\ j = k
    BY <1>1, <1>2, <1>3, <1>8, <2>3
  <2> QED BY <2>1, <2>2, <2>3
<1> QED BY <1>12, <1>13 DEF CoinsLand, Active

BookedLands == \A p \in payments' : Booked(p) => CoinsLand(p.amount)

\* Each of the three routes by which a payment comes.
LEMMA PaymentLands ==
    ASSUME SerialInv, PaymentHandler(Now) \/ TrustHandler(Now)
    PROVE  BookedLands
<1>c. MoneyInv /\ ArrsOK(arrs) /\ today \in Days /\ ClaimsOK(claims) /\ IsFiniteSet(payments)
  BY DEF SerialInv, MoneyInv
<1>1. ASSUME NEW p, Booked(p), p \in payments', NEW q, payments' = payments \cup {q} PROVE p = q
  BY <1>1 DEF Booked
<1>2. ASSUME NEW id \in PaymentIds, NEW a \in Amounts, NEW d \in Days
      PROVE  /\ NewPayment(Now, id, a, d).amount \in 0..MaxAmount
             /\ a <= Total(Room(claims, payments, d)) => NewPayment(Now, id, a, d).amount = a
  <2> DEFINE p == NewPayment(Now, id, a, d)
             room == Room(claims, payments, d)
  <2>1. p \in Payment /\ p.amount = Least(a, Total(room))
    BY <1>c, NewPaymentFollowsTheLaw
  <2>2. p.amount \in 0..MaxAmount
    BY <2>1 DEF Payment
  <2>3. Total(room) \in Nat /\ a \in Nat
    BY <1>c, DayType, RoomType DEF Amounts
  <2> HIDE DEF p, room
  <2>4. a <= Total(room) => p.amount = a
    BY <2>1, <2>3 DEF Least
  <2> QED BY <2>2, <2>4 DEF p, room
<1>3. ASSUME NEW id \in PaymentIds, NEW a \in Amounts, NEW d \in Days,
             create_payment(Now, id, a, d)
      PROVE  BookedLands
  <2>1. /\ payments' = payments \cup {NewPayment(Now, id, a, d)} /\ Linked(Now, a)
        /\ a <= Total(Room(claims, payments, d))
    BY <1>3 DEF create_payment, Book, Reads
  <2>2. NewPayment(Now, id, a, d).amount = a /\ a \in 0..MaxAmount
    BY <1>2, <2>1
  <2>3. CoinsLand(a)
    BY <1>c, <2>1, <2>2, LinkedLands
  <2> QED BY <1>1, <2>1, <2>2, <2>3 DEF BookedLands
<1>4. ASSUME NEW x \in ArrIds, NEW k \in DOMAIN arrs[x].inst, NEW id \in PaymentIds,
             NEW a \in Amounts, NEW d \in Days, record_installment_payment(Now, x, k, id, a, d)
      PROVE  BookedLands
  <2>2. /\ payments' = payments \cup {NewPayment(Now, id, a, d)}
        /\ a <= Total(Room(claims, payments, d))
    BY <1>4 DEF record_installment_payment, Book, Reads
  <2>3. NewPayment(Now, id, a, d).amount = a
    BY <1>2, <2>2
  <2>4. CoinsLand(a)
    BY <1>c, <1>4, InstallmentLands
  <2> QED BY <1>1, <2>2, <2>3, <2>4 DEF BookedLands
<1>5. ASSUME NEW p, delete_payment(Now, p) PROVE BookedLands
  BY <1>5 DEF delete_payment, Booked, BookedLands
<1>6. ASSUME NEW p \in payments, NEW a \in Amounts, NEW d \in Days, update_payment(Now, p, a, d)
      PROVE  BookedLands
  BY <1>6, <1>c, CorrectedBooksNothing DEF BookedLands
<1>7. ASSUME NEW id \in PaymentIds, NEW a \in Amounts, NEW d \in Days,
             BookTrust(Now, "trust", id, a, d)
      PROVE  BookedLands
  <2> DEFINE q == NewPayment(Now, id, a, d)
  <2>1. payments' = payments \cup {q} /\ Linked(Now, q.amount) /\ q.amount \in 0..MaxAmount
    BY <1>2, <1>7 DEF BookTrust, Book
  <2> HIDE DEF q
  <2>2. CoinsLand(q.amount)
    BY <1>c, <2>1, LinkedLands
  <2> QED BY <1>1, <2>1, <2>2 DEF BookedLands
<1>8. PaymentHandler(Now) => BookedLands
  BY <1>3, <1>4, <1>5, <1>6, NowIs DEF PaymentHandler
<1>9. TrustHandler(Now) => BookedLands
  BY <1>7 DEF TrustHandler, record_trust_debtor_payment
<1> QED BY <1>8, <1>9

\* Every coin booked while an arrangement runs lands on an installment that still
\* needs it, as far as there are such, however many installments it has, and none
\* is taken off another (_auto_link_payment_to_installments).
THEOREM CoinsGoWhereNeeded ==
    ASSUME Requests = {}
    PROVE  Spec => CoinsReachInstallments
<1>1. ASSUME SerialInv, MoneyInv', Next PROVE BookedLands
  <2>1. CASE PaymentHandler(Now) \/ TrustHandler(Now)
    BY <1>1, <2>1, PaymentLands
  <2>2. CASE ClaimHandler(Now) \/ ArrangementHandler(Now) \/ CaseHandler(Now) \/ Background
    <3>1. UNCHANGED payments
      BY <1>1, <2>2, CaseSerial, ArrangementSerial, BackgroundSerial
         DEF ClaimHandler, create_claim, update_claim, delete_claim, SerialInv, CaseOK
    <3> QED BY <3>1 DEF BookedLands, Booked
  <2> QED BY <1>1, <2>1, <2>2 DEF Next, Handler
<1>2. SerialInv /\ MoneyInv' /\ [Next]_vars => [BookedLands]_vars
  BY <1>1
<1>3. SerialInv => MoneyInv
  BY DEF SerialInv
<1> QED BY <1>2, <1>3, SerialInvariant, PTL
        DEF Spec, CoinsReachInstallments, BookedLands, CoinsLand

-----------------------------------------------------------------------------
(* Types, whatever overlaps.                                               *)

ArrStatuses == {"none", "active", "completed", "cancelled", "defaulted"}

ArrRow(arr) == {"status", "inst"} \subseteq DOMAIN arr /\ arr.status \in ArrStatuses

ArrTable(table) == DOMAIN table = ArrIds /\ \A x \in ArrIds : ArrRow(table[x])

\* The rows of the file and of the trust account, as they are and as some
\* request has loaded them.
FileInv ==
    /\ MoneyInv /\ case \in CaseRow /\ held \in Nat /\ ArrTable(arrs)
    /\ \A r \in Requests : req[r] # Idle => req[r].case \in CaseRow /\ ArrTable(req[r].arrs)

FileRows == case' \in CaseRow /\ held' \in Nat /\ ArrTable(arrs')

LEMMA FlushedRow ==
    ASSUME NEW row \in CaseRow, NEW loaded \in CaseRow, NEW changed \in CaseRow
    PROVE  Flush(row, loaded, changed) \in CaseRow
BY DEF Flush, CaseRow

\* What closing, reopening and moving make of a row.
LEMMA RowWrites ==
    ASSUME NEW c \in CaseRow
    PROVE  /\ Reopened(c) \in CaseRow
           /\ \A status \in Statuses, freeze \in Days : WithStatus(c, status, freeze) \in CaseRow
           /\ \A status \in TERMINAL_STATUSES, freeze \in Days : ClosedWith(c, status, freeze) \in CaseRow
           /\ \A s \in Steps : Moved(c, s) \in CaseRow
<1>1. Reopened(c) \in CaseRow
  BY DEF CaseRow, Reopened, Statuses
<1>2. ASSUME NEW status \in Statuses, NEW freeze \in Days
      PROVE  ClosedWith(c, status, freeze) \in CaseRow /\ ReopenedByHand(c, status) \in CaseRow
  BY DEF CaseRow, ClosedWith, ReopenedByHand
<1>3. TERMINAL_STATUSES \subseteq Statuses
  BY DEF Statuses
<1>4. ASSUME NEW s \in Steps PROVE Moved(c, s) \in CaseRow
  <2>1. status_for_step(s) \in Statuses
    <3>1. status_for_step(s) \in {"betaald", "afgesloten", "in_behandeling"}
      BY DEF status_for_step
    <3> QED BY <3>1 DEF Statuses, TERMINAL_STATUSES
  <2>2. IsTerminal(s) \in BOOLEAN
    BY DEF IsTerminal
  <2> QED BY <2>1, <2>2 DEF CaseRow, Moved
<1> QED BY <1>1, <1>2, <1>3, <1>4 DEF WithStatus

\* An arrangement keeps its columns when its installments are checked, and when
\* one row of the table is replaced.
LEMMA ArrWrites ==
    ASSUME NEW table, ArrTable(table), NEW x \in ArrIds
    PROVE  /\ \A inst : ArrRow(Checked([table[x] EXCEPT !.inst = inst]))
           /\ \A arr : ArrRow(arr) => ArrTable([table EXCEPT ![x] = arr])
<1>1. ASSUME NEW inst PROVE ArrRow(Checked([table[x] EXCEPT !.inst = inst]))
  <2> DEFINE arr == [table[x] EXCEPT !.inst = inst]
  <2>1. ArrRow(arr)
    BY DEF ArrTable, ArrRow
  <2> HIDE DEF arr
  <2>2. ArrRow([arr EXCEPT !.status = "completed"])
    BY <2>1 DEF ArrRow, ArrStatuses
  <2>3. ArrRow(Checked(arr))
    BY <2>1, <2>2 DEF Checked
  <2> QED BY <2>3 DEF arr
<1> QED BY <1>1 DEF ArrTable

LEMMA BookedRows ==
    ASSUME FileInv, MoneyInv', NEW seen, seen.case \in CaseRow, NEW via, NEW a, NEW p,
           Book(seen, via, a, p), UNCHANGED today
    PROVE  case' \in CaseRow
<1>1. IsFiniteSet(payments') /\ PaymentsOK(payments') /\ today \in Days
  BY DEF FileInv, MoneyInv
<1>2. LastPaid(payments') \in Days
  BY <1>1, LastPaidType
<1>3. HookedCase(seen.case, payments') \in CaseRow
  BY <1>2, RowWrites DEF HookedCase, TERMINAL_STATUSES
<1> QED BY <1>3, FlushedRow DEF Book, FileInv

LEMMA LinkedRows ==
    ASSUME FileInv, NEW seen, NEW a, Linked(seen, a)
    PROVE  ArrTable(arrs')
<1> DEFINE fillable == {x \in Active(arrs) : \E k \in DOMAIN arrs[x].inst : OpenInst(arrs[x].inst[k])}
<1>1. CASE fillable = {}
  BY <1>1 DEF Linked, FileInv
<1>2. CASE fillable # {}
  <2>1. PICK x \in Active(arrs) :
           arrs' = [arrs EXCEPT ![x] = Checked([arrs[x] EXCEPT !.inst = Cascade(@, a)])]
    BY <1>2 DEF Linked
  <2>2. x \in ArrIds
    BY DEF Active
  <2>3. ArrRow(Checked([arrs[x] EXCEPT !.inst = Cascade(@, a)]))
    BY <2>2, ArrWrites DEF FileInv
  <2> QED BY <2>1, <2>2, <2>3, ArrWrites DEF FileInv
<1> QED BY <1>1, <1>2

LEMMA PaymentRows ==
    ASSUME FileInv, MoneyInv', NEW seen, seen.case \in CaseRow, PaymentHandler(seen) \/ TrustHandler(seen)
    PROVE  FileRows
<1>c. case \in CaseRow /\ held \in Nat /\ ArrTable(arrs)
  BY DEF FileInv
<1>1. ASSUME NEW id, NEW a, NEW d, create_payment(seen, id, a, d) PROVE FileRows
  <2>1. case' \in CaseRow
    BY <1>1, BookedRows DEF create_payment
  <2>2. ArrTable(arrs')
    BY <1>1, LinkedRows DEF create_payment
  <2> QED BY <1>1, <1>c, <2>1, <2>2 DEF create_payment, FileRows
<1>2. ASSUME NEW x \in ArrIds, NEW k, NEW id, NEW a, NEW d,
             record_installment_payment(seen, x, k, id, a, d)
      PROVE  FileRows
  <2>1. case' \in CaseRow
    BY <1>2, BookedRows DEF record_installment_payment
  <2>2. \E i : arrs' = [arrs EXCEPT ![x] = Checked([arrs[x] EXCEPT !.inst[k] = i])]
    BY <1>2 DEF record_installment_payment
  <2>3. PICK inst : arrs' = [arrs EXCEPT ![x] = Checked([arrs[x] EXCEPT !.inst = inst])]
    BY <2>2
  <2>4. ArrTable(arrs')
    BY <1>c, <2>3, ArrWrites
  <2> QED BY <1>2, <1>c, <2>1, <2>4 DEF record_installment_payment, FileRows
<1>3. ASSUME NEW ps, TakenBack(seen, ps) PROVE case' \in CaseRow
  BY <1>3, <1>c, FlushedRow, RowWrites DEF TakenBack
<1>4. ASSUME NEW p, delete_payment(seen, p) PROVE FileRows
  BY <1>3, <1>4, <1>c DEF delete_payment, FileRows
<1>5. ASSUME NEW p, NEW a, NEW d, update_payment(seen, p, a, d) PROVE FileRows
  BY <1>3, <1>5, <1>c DEF update_payment, FileRows
<1>6. ASSUME NEW via, NEW id, NEW a \in Amounts, NEW d, BookTrust(seen, via, id, a, d)
      PROVE  FileRows
  <2> DEFINE p == NewPayment(seen, id, a, d)
  <2>1. Book(seen, via, a, p) /\ Linked(seen, p.amount) /\ held' = held + a /\ today' = today
    BY <1>6 DEF BookTrust
  <2> HIDE DEF p
  <2>2. case' \in CaseRow
    BY <2>1, BookedRows
  <2>3. ArrTable(arrs')
    BY <2>1, LinkedRows
  <2> QED BY <1>c, <2>1, <2>2, <2>3 DEF FileRows, Amounts
<1>7. PaymentHandler(seen) => FileRows
  BY <1>1, <1>2, <1>4, <1>5 DEF PaymentHandler
<1>8. TrustHandler(seen) => FileRows
  BY <1>6 DEF TrustHandler, record_trust_debtor_payment
<1> QED BY <1>7, <1>8

LEMMA ArrangementRows ==
    ASSUME FileInv, NEW seen, seen.case \in CaseRow, ArrTable(seen.arrs), ArrangementHandler(seen)
    PROVE  FileRows
<1>c. case \in CaseRow /\ held \in Nat /\ ArrTable(arrs)
  BY DEF FileInv
<1>1. ASSUME NEW x \in ArrIds, NEW plan, create_arrangement(seen, x, plan) PROVE FileRows
  <2>1. RegelingStep \in Steps
    BY RegelingAssumption, StepsAssumption
  <2>2. case' \in CaseRow
    BY <1>1, <1>c, <2>1, FlushedRow, RowWrites DEF create_arrangement
  <2>3. ArrRow(Agreed(plan))
    BY DEF ArrRow, Agreed, ArrStatuses
  <2>4. ArrTable(arrs')
    BY <1>1, <1>c, <2>3, ArrWrites DEF create_arrangement
  <2> QED BY <1>1, <1>c, <2>2, <2>4 DEF create_arrangement, FileRows
<1>2. ASSUME NEW x \in ArrIds, NEW status \in ArrStatuses, NEW closed, End(seen, x, status, closed)
      PROVE  FileRows
  <2> DEFINE changed == EndStatus(seen.arrs[x], status, closed)
             row == Flush(arrs[x], seen.arrs[x], changed)
  <2>1. changed.status = status
    BY DEF EndStatus, ArrTable, ArrRow
  <2> HIDE DEF changed
  <2>2. DOMAIN row = DOMAIN arrs[x] /\ row.status \in ArrStatuses
    BY <1>c, <2>1 DEF Flush, ArrTable, ArrRow
  <2> HIDE DEF row
  <2>3. ArrRow(FlushArr(arrs[x], seen.arrs[x], changed))
    BY <1>c, <2>2 DEF FlushArr, ArrTable, ArrRow, row
  <2>4. arrs' = [arrs EXCEPT ![x] = FlushArr(arrs[x], seen.arrs[x], changed)]
    BY <1>2 DEF End, changed
  <2>5. ArrTable(arrs')
    BY <1>c, <2>3, <2>4, ArrWrites
  <2> QED BY <1>2, <1>c, <2>5 DEF End, FileRows
<1>3. ASSUME NEW x \in ArrIds, NEW s \in {"active", "completed", "cancelled", "defaulted"},
             update_arrangement(seen, x, s)
      PROVE  FileRows
  <2>1. CASE s = "active" /\ UNCHANGED <<held, case>>
             /\ arrs' = [arrs EXCEPT ![x].status = IF seen.arrs[x].status = s THEN @ ELSE s]
    <3>1. ArrRow([arrs[x] EXCEPT !.status = IF seen.arrs[x].status = s THEN @ ELSE s])
      BY <1>c DEF ArrTable, ArrRow, ArrStatuses
    <3>2. ArrTable(arrs')
      BY <1>c, <2>1, <3>1 DEF ArrTable
    <3> QED BY <1>c, <2>1, <3>2 DEF FileRows
  <2>2. CASE \E closed : End(seen, x, s, closed)
    BY <1>2, <2>2 DEF ArrStatuses
  <2> QED BY <1>3, <2>1, <2>2 DEF update_arrangement, caseVars
<1>4. ASSUME NEW x \in ArrIds, NEW k, waive_installment(seen, x, k) PROVE FileRows
  <2>1. \E i : arrs' = [arrs EXCEPT ![x] = Checked([arrs[x] EXCEPT !.inst[k] = i])]
    BY <1>4 DEF waive_installment
  <2>2. PICK inst : arrs' = [arrs EXCEPT ![x] = Checked([arrs[x] EXCEPT !.inst = inst])]
    BY <2>1
  <2>3. ArrTable(arrs')
    BY <1>c, <2>2, ArrWrites
  <2> QED BY <1>4, <1>c, <2>3 DEF waive_installment, FileRows
<1>5. ASSUME NEW x \in ArrIds, default_arrangement(seen, x) \/ cancel_arrangement(seen, x)
      PROVE  FileRows
  BY <1>2, <1>5 DEF default_arrangement, cancel_arrangement, ArrStatuses
<1> QED BY <1>1, <1>3, <1>4, <1>5 DEF ArrangementHandler

LEMMA HandlerRows ==
    ASSUME FileInv, MoneyInv', NEW seen, seen.case \in CaseRow, ArrTable(seen.arrs), Handler(seen)
    PROVE  FileRows
<1>c. case \in CaseRow /\ held \in Nat /\ ArrTable(arrs)
  BY DEF FileInv
<1>1. CASE PaymentHandler(seen) \/ TrustHandler(seen)
  BY <1>1, PaymentRows
<1>2. CASE ArrangementHandler(seen)
  BY <1>2, ArrangementRows
<1>3. CASE ClaimHandler(seen)
  <2>1. ReopenOnDebt(seen.case) \in CaseRow
    BY RowWrites DEF ReopenOnDebt
  <2>2. Flush(case, seen.case, ReopenOnDebt(seen.case)) \in CaseRow
    BY <1>c, <2>1, FlushedRow
  <2> QED BY <1>3, <1>c, <2>2
          DEF ClaimHandler, create_claim, update_claim, delete_claim, caseVars, FileRows
<1>4. CASE CaseHandler(seen)
  <2>1. LastPaid(payments) \in Days
    BY LastPaidType DEF FileInv, MoneyInv
  <2>2. ASSUME NEW s \in Statuses, update_case_status(seen, s) PROVE FileRows
    BY <1>c, <2>1, <2>2, FlushedRow, RowWrites DEF update_case_status, moneyVars, FileRows
  <2>3. ASSUME NEW s \in Steps, update_case_step(seen, s) PROVE FileRows
    BY <1>c, <2>3, FlushedRow, RowWrites DEF update_case_step, moneyVars, FileRows
  <2>4. ASSUME NEW d \in FreezeDates, update_case_freeze(seen, d) PROVE FileRows
    <3>1. [seen.case EXCEPT !.freeze = d] \in CaseRow
      BY FreezeDatesAssumption DEF CaseRow
    <3> QED BY <1>c, <2>4, <3>1, FlushedRow DEF update_case_freeze, moneyVars, FileRows
  <2> QED BY <1>4, <2>2, <2>3, <2>4 DEF CaseHandler
<1> QED BY <1>1, <1>2, <1>3, <1>4 DEF Handler

LEMMA BackgroundRows ==
    ASSUME FileInv, Background
    PROVE  FileRows
<1>c. case \in CaseRow /\ held \in Nat /\ ArrTable(arrs)
  BY DEF FileInv
<1>1. CASE mark_overdue_installments
  <2>1. ASSUME NEW x \in ArrIds PROVE ArrRow(arrs'[x])
    BY <1>1, <1>c DEF mark_overdue_installments, ArrTable, ArrRow
  <2>2. DOMAIN arrs' = ArrIds
    BY <1>1 DEF mark_overdue_installments
  <2> QED BY <1>1, <1>c, <2>1, <2>2 DEF mark_overdue_installments, caseVars, ArrTable, FileRows
<1>2. CASE UNCHANGED <<case, arrs>> /\ held' \in {held, 0}
  BY <1>2, <1>c DEF FileRows
<1> QED BY <1>1, <1>2
        DEF Background, ensure_task, complete_task, PayOut, SecondsPass, NextDay, moneyVars, caseVars

LEMMA FileStep ==
    ASSUME FileInv, MoneyInv', [Next]_vars
    PROVE  FileInv'
<1> DEFINE SlotOK(s) == s # Idle => s.case \in CaseRow /\ ArrTable(s.arrs)
<1>c. case \in CaseRow /\ held \in Nat /\ ArrTable(arrs) /\ \A r \in Requests : SlotOK(req[r])
  BY DEF FileInv
<1>r. req = [r \in Requests |-> req[r]]
  BY DEF FileInv, MoneyInv
<1>n. SlotOK(Now)
  BY <1>c DEF Now
<1>i. SlotOK(Idle)
  OBVIOUS
<1>q. ASSUME FileRows, \A r \in Requests : SlotOK(req'[r]) PROVE FileInv'
  BY <1>q DEF FileInv, FileRows, ArrTable, ArrRow
<1>1. CASE Handler(Now) /\ UNCHANGED req
  <2>1. Now.case \in CaseRow /\ ArrTable(Now.arrs)
    BY <1>c DEF Now
  <2> QED BY <1>1, <1>c, <1>q, <2>1, HandlerRows
<1>2. CASE Background /\ UNCHANGED req
  BY <1>2, <1>c, <1>q, BackgroundRows
<1>3. ASSUME NEW r \in Requests, Begin(r) \/ BeginTrust(r) \/ Abandon(r) PROVE FileInv'
  <2>1. FileRows
    BY <1>3, <1>c DEF Begin, BeginTrust, Abandon, moneyVars, caseVars, FileRows
  <2>2. PICK s : req' = [req EXCEPT ![r] = s] /\ SlotOK(s)
    <3>1. CASE Begin(r)
      BY <1>n, <3>1 DEF Begin
    <3>2. CASE BeginTrust(r)
      <4>1. req[r] # Idle
        BY <3>2 DEF BeginTrust, Idle
      <4>2. SlotOK([req[r] EXCEPT !.op = "trust"])
        BY <1>c, <4>1
      <4>3. req' = [req EXCEPT ![r] = [req[r] EXCEPT !.op = "trust"]]
        BY <3>2 DEF BeginTrust
      <4> QED BY <4>2, <4>3
    <3>3. CASE Abandon(r)
      BY <1>i, <3>3 DEF Abandon
    <3> QED BY <1>3, <3>1, <3>2, <3>3
  <2> HIDE DEF SlotOK
  <2>3. \A x \in Requests : SlotOK(req'[x])
    BY <1>c, <1>r, <2>2
  <2> QED BY <1>q, <2>1, <2>3
<1>4. ASSUME NEW r \in Requests, req[r] # Idle, Handler(req[r]), req' = [req EXCEPT ![r] = Idle]
      PROVE  FileInv'
  <2>1. FileRows
    BY <1>4, <1>c, HandlerRows
  <2>2. \A x \in Requests : SlotOK(req'[x])
    BY <1>4, <1>c, <1>i, <1>r
  <2> QED BY <1>q, <2>1, <2>2
<1>5. CASE UNCHANGED vars
  BY <1>5, <1>c, <1>q DEF vars, moneyVars, caseVars, FileRows
<1> QED BY <1>1, <1>2, <1>3, <1>4, <1>5 DEF Next

\* With any number of requests on rows they loaded before, every column keeps a
\* value its schema allows, an id is that of one payment, and a submission of the
\* last seconds is that of a payment (the handlers of collections/service.py).
THEOREM CollectionsTypeCorrect == Spec => []TypeOK
<1>1. Init => FileInv
  <2> SUFFICES ASSUME Init PROVE FileInv
    OBVIOUS
  <2>1. MoneyInv
    BY InitMoney
  <2>2. PICK s \in FirstSteps : case = NewCase(s)
    BY DEF Init
  <2>3. case \in CaseRow
    BY <2>2, FirstStepsAssumption DEF NewCase, CaseRow, Statuses
  <2>4. ArrTable(arrs)
    BY DEF Init, NoArrangement, ArrTable, ArrRow, ArrStatuses
  <2>5. \A r \in Requests : req[r] = Idle
    BY DEF Init
  <2> QED BY <2>1, <2>3, <2>4, <2>5 DEF FileInv, Init
<1>2. FileInv /\ MoneyInv' /\ [Next]_vars => FileInv'
  BY FileStep
<1>3. ASSUME FileInv PROVE TypeOK
  <2>1. \A c \in claims : c.id \in ClaimIds /\ c.amount \in Amounts
    BY <1>3 DEF FileInv, MoneyInv, ClaimsOK, ClaimRow
  <2>2. /\ \A p \in payments : p.id \in PaymentIds /\ p.amount \in 0..MaxAmount /\ p.day \in Days
        /\ \A p, q \in payments : p.id = q.id => p = q
    BY <1>3 DEF FileInv, MoneyInv, PaymentsOK, Payment, KeyedById
  <2>3. \A s \in recent : \E p \in payments : p.id = s.id
    BY <1>3 DEF FileInv, MoneyInv, SubmissionOK
  <2>4. case \in CaseRow /\ today \in Days /\ held \in Nat
        /\ \A x \in ArrIds : arrs[x].status \in ArrStatuses
    BY <1>3 DEF FileInv, MoneyInv, ArrTable, ArrRow
  <2> QED BY <2>1, <2>2, <2>3, <2>4 DEF TypeOK, ArrStatuses
<1>4. FileInv => TypeOK
  BY <1>3
<1> QED BY <1>1, <1>2, <1>4, MoneyInvariant, PTL DEF Spec
=============================================================================
