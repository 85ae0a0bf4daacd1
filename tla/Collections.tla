------------------------------ MODULE Collections ------------------------------
(***************************************************************************)
(* The money side of one case (app/collections/service.py): its claims,    *)
(* the payments of the debtor and how they are divided over costs,         *)
(* interest and principal (art. 6:44 BW), payment arrangements with their  *)
(* installments, and the closing and reopening of the case that follows.   *)
(*                                                                         *)
(* Every handler takes the rows its request has loaded, `seen'.  A request *)
(* that nobody overlaps runs on the database of the moment (Now); one that *)
(* sits in a slot runs on the rows it loaded when it began (Begin), and    *)
(* writes back what it changed of them.  What a handler queries is read at *)
(* its commit.  create_payment locks the case row before it reads, so a    *)
(* booking is one step on the claims and payments of the moment, whatever  *)
(* its request had loaded; the totals that the other handlers cache may    *)
(* have been read before a booking that committed first.                   *)
(*                                                                         *)
(* Money is counted in coins, the two-cent tolerance included; interest is *)
(* a coin a day while principal is open; costs are a function of the       *)
(* principal (module Costs has the real ones).  The trust account appears  *)
(* as the balance it holds for the case (module TrustLedger has the rest). *)
(***************************************************************************)
EXTENDS Money, Costs, CaseFile, Sequences

CONSTANTS
    Requests,     \* slots for requests that overlap others
    ClaimIds,     \* bound: the claims that may exist at one time
    PaymentIds,   \* bound: the payments that may exist at one time
    ArrIds,       \* bound: the arrangements ever made
    MaxHeld,      \* bound: what the trust account may hold for the case
    OpenWork,     \* the open work a case may carry when its money is looked at
    Plans,        \* the installment schedules that may be agreed
    Bik,          \* Bik[p]: the collection costs on a principal of p coins
    Hasty,        \* whether submissions may follow each other within ten seconds
    FirstSteps,   \* where a case may stand when its first claim is filed
    MailTasks,    \* the tasks that mails of the debtor bring
    ByHand,       \* the statuses and steps the staff may give the case by hand
    FreezeDates,  \* the interest dates the staff may give the case by hand
    RegelingStep  \* the hold step "Bijhouden regeling"

ASSUME RegelingAssumption == RegelingStep \in HoldSteps
ASSUME FreezeDatesAssumption == FreezeDates \subseteq Days \cup {Never}
ASSUME FirstStepsAssumption == FirstSteps \subseteq Steps \cup {NoStep}
ASSUME PlansAssumption == IsFiniteSet(ArrIds) /\ \A plan \in Plans : plan \in Seq(Nat)
ASSUME BikAssumption ==
    /\ IsFiniteSet(ClaimIds)
    /\ \A p \in 0 .. MaxAmount * Cardinality(ClaimIds) : Bik[p] \in Nat

VARIABLES
    claims,      \* the active claims: [id, amount]
    payments,    \* the active payments: [id, amount, to, day]
    recent,      \* what was submitted in the last ten seconds
    arrs,        \* arrs[a]: the arrangement a with its installments
    cached,      \* total_principal and total_paid on the case row
    held,        \* what the trust account holds for the case
    req          \* req[r]: what the request in slot r has loaded

moneyVars == <<claims, payments, recent, arrs, cached, held>>
caseVars == <<case, work, today>>
vars == <<moneyVars, caseVars, req>>

Idle == [op |-> "idle"]

Now == [op |-> "open", case |-> case, claims |-> claims, payments |-> payments, arrs |-> arrs]

-----------------------------------------------------------------------------
(* What is owed.                                                           *)

Principal(cl) == SumOf(cl, [c \in cl |-> c.amount])

Paid(ps) == SumOf(ps, [p \in ps |-> p.amount])

Allocated(ps, part) == SumOf(ps, [p \in ps |-> p.to[part]])

\* calculate_case_interest: interest up to day d, on the principal that
\* earlier payments have left open.
Interest(cl, ps, d) ==
    Cardinality({e \in 1..d : Principal(cl) > Allocated({p \in ps : p.day < e}, "principal")})

\* get_case_outstanding: the total owed today, or on the day interest froze.
Owed(cl, ps, freeze) ==
    LET d == IF freeze = Never THEN today ELSE freeze
    IN  Principal(cl) + Interest(cl, ps, d) + Bik[Principal(cl)] - Paid(ps)

\* What is open of each part on day d, as create_payment computes it.
Room(cl, ps, d) ==
    [costs     |-> AtLeastZero(Bik[Principal(cl)] - Allocated(ps, "costs")),
     interest  |-> AtLeastZero(Interest(cl, ps, d) - Allocated(ps, "interest")),
     principal |-> AtLeastZero(Principal(cl) - Allocated(ps, "principal"))]

Total(room) == room.costs + room.interest + room.principal

\* _refresh_case_financials, on the claims and payments it read.
Totals(cl, ps) == [principal |-> Principal(cl), paid |-> Paid(ps)]

LastPaid(ps) ==
    IF ps = {} THEN today
    ELSE CHOOSE d \in Days : (\E p \in ps : p.day = d) /\ \A p \in ps : p.day <= d

-----------------------------------------------------------------------------
(* Installments.                                                           *)

OpenInst(i) == i.status \in {"pending", "partial", "overdue"}

Gap(i) == IF OpenInst(i) THEN AtLeastZero(i.amount - i.paid) ELSE 0

Active(as) == {a \in ArrIds : as[a].status = "active"}

\* Mutant of PaidInst: an installment is paid only once it is overpaid.
PaidInstStrict(i, a) ==
    [i EXCEPT !.paid = @ + a,
              !.status = IF i.paid + a > i.amount THEN "paid" ELSE "partial"]

\* An installment to which `a' coins are added.
PaidInst(i, a) ==
    [i EXCEPT !.paid = @ + a,
              !.status = IF i.paid + a >= i.amount THEN "paid" ELSE "partial"]

\* Mutant of Cascade: what an installment does not need is lost.
CascadeFirstOnly(insts, a) ==
    LET first == CHOOSE k \in DOMAIN insts :
                     Gap(insts[k]) > 0 \/ \A j \in DOMAIN insts : Gap(insts[j]) = 0
    IN  [k \in DOMAIN insts |->
            IF k = first /\ Gap(insts[k]) > 0 /\ a > 0
            THEN PaidInst(insts[k], Least(a, Gap(insts[k]))) ELSE insts[k]]

\* A payment of a coins fills the open installments in order of due date.
Cascade(insts, a) ==
    [k \in DOMAIN insts |->
        LET before == SumOf(1..(k - 1), [j \in 1..(k - 1) |-> Gap(insts[j])])
            share == Least(AtLeastZero(a - before), Gap(insts[k]))
        IN  IF share > 0 THEN PaidInst(insts[k], share) ELSE insts[k]]

Resolved(arr) == \A k \in DOMAIN arr.inst : arr.inst[k].status \in {"paid", "waived"}

\* _check_arrangement_completion.
Checked(arr) ==
    IF arr.status = "active" /\ Resolved(arr) THEN [arr EXCEPT !.status = "completed"] ELSE arr

\* The task that follows when an arrangement completes on a case still open.
WorkAfterCheck(w, before, after, c) ==
    IF before.status # "completed" /\ after.status = "completed" /\ ~Closed(c)
    THEN w \cup {Task("arrangement_completed")} ELSE w

-----------------------------------------------------------------------------
(* Requests.                                                               *)

Begin(r) ==
    /\ req[r] = Idle
    /\ req' = [req EXCEPT ![r] = Now]
    /\ UNCHANGED <<moneyVars, caseVars>>

\* record_trust_debtor_payment has inserted its deposit, and holds a share
\* lock on the case row until it commits.
BeginTrust(r) ==
    /\ req[r].op = "open"
    /\ req' = [req EXCEPT ![r].op = "trust"]
    /\ UNCHANGED <<moneyVars, caseVars>>

Abandon(r) ==
    /\ req[r] # Idle
    /\ req' = [req EXCEPT ![r] = Idle]
    /\ UNCHANGED <<moneyVars, caseVars>>

\* SELECT ... FOR UPDATE on the case row waits for every other share lock.
CaseRowFree(seen) == \A r \in Requests : req[r].op = "trust" => req[r] = seen

\* A row id that no row has and no request still holds.
Unused(id, rows, table) ==
    /\ \A x \in rows : x.id # id
    /\ \A r \in Requests : req[r] # Idle => \A x \in req[r][table] : x.id # id

\* What a handler that takes no lock may have read for the cached totals.
Views(seen) == {<<claims, payments>>, <<seen.claims, seen.payments>>}

-----------------------------------------------------------------------------
(* Claims.                                                                 *)

WithClaim(cl, id, a) == {c \in cl : c.id # id} \cup {[id |-> id, amount |-> a]}

ReopenOnDebt(c) == IF Closed(c) THEN Reopened(c) ELSE c

create_claim(seen, id, a) ==
    /\ Unused(id, claims, "claims")
    /\ claims' = WithClaim(claims, id, a)
    /\ \E v \in Views(seen) : cached' = Totals(WithClaim(v[1], id, a), v[2])
    /\ case' = Flush(case, seen.case, ReopenOnDebt(seen.case))
    /\ UNCHANGED <<payments, recent, arrs, held, work, today>>

\* An existing claim is corrected; nothing reopens.
update_claim(seen, id, a) ==
    /\ \E c \in claims : c.id = id /\ c.amount # a
    /\ claims' = WithClaim(claims, id, a)
    /\ \E v \in Views(seen) : cached' = Totals(WithClaim(v[1], id, a), v[2])
    /\ UNCHANGED <<payments, recent, arrs, held, caseVars>>

delete_claim(seen, id) ==
    /\ \E c \in claims : c.id = id
    /\ claims' = {c \in claims : c.id # id}
    /\ \E v \in Views(seen) : cached' = Totals({c \in v[1] : c.id # id}, v[2])
    /\ UNCHANGED <<payments, recent, arrs, held, caseVars>>

-----------------------------------------------------------------------------
(* Payments.                                                               *)

\* Mutant of Reads: the lock on the case row is dropped, and a booking works
\* on what its request had loaded.
ReadsUnlocked(seen) == <<seen.claims, seen.payments>>

\* The claims and payments a booking reads behind the lock on the case row.
Reads(seen) == <<claims, payments>>

\* A payment submitted twice within seconds is refused: the amount asked is
\* compared with the amounts that were booked.
Duplicate(seen, via, a, d) ==
    \E s \in recent, p \in Reads(seen)[2] :
        p.id = s.id /\ s.via = via /\ p.amount = a /\ p.day = d

\* The payment row of a coins paid on day d, after capping.  Nothing checks the day: it
\* may be one that is still to come.
NewPayment(seen, id, a, d) ==
    LET room == Room(Reads(seen)[1], Reads(seen)[2], d)
        b == Least(a, Total(room))
    IN  [id |-> id, amount |-> b, day |-> d, to |-> distribute_payment(b, room)]

\* Mutant of PaidOff: the case closes only when it is overpaid.
PaidOffStrict(c, ps) == ~Closed(c) /\ Owed(claims, ps, case.freeze) < 0

\* on_payment_received: the case as loaded is open, and nothing is owed.
PaidOff(c, ps) == ~Closed(c) /\ Owed(claims, ps, case.freeze) <= 0

HookedCase(c, ps) ==
    IF PaidOff(c, ps) THEN ClosedWith(c, "betaald", LastPaid(ps)) ELSE c

\* create_payment from the lock to the payment hook; the handlers below add
\* what happens to the arrangement.
Book(seen, via, asked, p) ==
    /\ CaseRowFree(seen)
    /\ Unused(p.id, payments, "payments")
    /\ payments' = payments \cup {p}
    /\ recent' = IF ~Hasty THEN {} ELSE recent \cup {[id |-> p.id, via |-> via, asked |-> asked,
                             booked |-> p.amount, day |-> p.day]}
    /\ cached' = Totals(claims, payments')
    /\ case' = Flush(case, seen.case, HookedCase(seen.case, payments'))

WorkHooked(seen) == IF PaidOff(seen.case, payments') THEN ClosedWork(work) ELSE work

\* _auto_link_payment_to_installments; a second active arrangement makes the
\* query raise, and the whole booking is rolled back.  One without an open
\* installment is left as it is.
Linked(seen, amount) ==
    LET fillable == {a \in Active(arrs) :
                       \E k \in DOMAIN arrs[a].inst : OpenInst(arrs[a].inst[k])} IN
    /\ Cardinality(Active(arrs)) <= 1
    /\ IF fillable = {}
       THEN arrs' = arrs /\ work' = WorkHooked(seen)
       ELSE \E a \in fillable :
            LET after == Checked([arrs[a] EXCEPT !.inst = Cascade(@, amount)]) IN
            /\ arrs' = [arrs EXCEPT ![a] = after]
            /\ work' = WorkAfterCheck(WorkHooked(seen), arrs[a], after, case')

create_payment(seen, id, a, d) ==
    /\ ~Duplicate(seen, "direct", a, d)
    /\ a <= Total(Room(Reads(seen)[1], Reads(seen)[2], d))
    /\ Book(seen, "direct", a, NewPayment(seen, id, a, d))
    /\ Linked(seen, a)
    /\ UNCHANGED <<claims, held, today>>

\* The debtor paid on the trust account: the deposit is booked whole, the
\* payment up to what is open.
BookTrust(seen, via, id, a, d) ==
    LET p == NewPayment(seen, id, a, d) IN
    /\ Book(seen, via, a, p)
    /\ Linked(seen, p.amount)
    /\ held + a <= MaxHeld
    /\ held' = held + a
    /\ UNCHANGED <<claims, today>>

record_trust_debtor_payment(seen, id, a, d) ==
    ~Duplicate(seen, "trust", a, d) /\ BookTrust(seen, "trust", id, a, d)

record_installment_payment(seen, x, k, id, a, d) ==
    LET loaded == seen.arrs[x].inst[k]
        inst == Flush(arrs[x].inst[k], loaded, PaidInst(loaded, a))
        after == Checked([arrs[x] EXCEPT !.inst[k] = inst])
    IN
    /\ loaded.status \notin {"paid", "waived"}
    /\ ~Duplicate(seen, "installment", a, d)
    /\ a <= Total(Room(Reads(seen)[1], Reads(seen)[2], d))
    /\ Book(seen, "installment", a, NewPayment(seen, id, a, d))
    /\ arrs' = [arrs EXCEPT ![x] = after]
    /\ work' = WorkAfterCheck(WorkHooked(seen), arrs[x], after, case')
    /\ UNCHANGED <<claims, held, today>>

\* _reopen_case_if_no_longer_paid, on the payments that remain.
StillPaid(c, ps) == c.status # "betaald" \/ Owed(claims, ps, case.freeze) <= 0

\* Mutant of TakenBack: a payment that is taken back reopens nothing.
TakenBackQuietly(seen, ps) == UNCHANGED case

TakenBack(seen, ps) ==
    case' = Flush(case, seen.case,
                  IF StillPaid(seen.case, ps) THEN seen.case ELSE Reopened(seen.case))

\* The amount and the day are corrected: the division over the parts stays.
update_payment(seen, p, a, d) ==
    LET Corrected(ps) ==
          {IF q.id = p.id THEN Flush(q, p, [p EXCEPT !.amount = a, !.day = d]) ELSE q : q \in ps}
    IN
    /\ p.amount # a \/ p.day # d
    /\ payments' = Corrected(payments)
    /\ \E v \in Views(seen) : cached' = Totals(v[1], Corrected(v[2]))
    /\ TakenBack(seen, payments')
    /\ UNCHANGED <<claims, recent, arrs, held, work, today>>

\* Mutant of Remaining: the payment is hidden but still counted.
RemainingAll(ps, p) == ps

Remaining(ps, p) == {q \in ps : q.id # p.id}

delete_payment(seen, p) ==
    /\ payments' = {q \in payments : q.id # p.id}
    /\ recent' = {s \in recent : s.id # p.id}
    /\ \E v \in Views(seen) : cached' = Totals(v[1], Remaining(v[2], p))
    /\ TakenBack(seen, payments')
    /\ UNCHANGED <<claims, arrs, held, work, today>>

-----------------------------------------------------------------------------
(* Arrangements.                                                           *)

Agreed(plan) ==
    [status |-> "active",
     inst |-> [k \in DOMAIN plan |->
                  [amount |-> plan[k], paid |-> 0, due |-> k - 1, status |-> "pending"]]]

NoArrangement == [status |-> "none", inst |-> <<>>]

\* create_arrangement looks for an active one; two of them make it raise.
MayAgree(seen) == Active(arrs) = {}

\* _move_case_to_regeling_step.
ToRegeling(c) == ~Closed(c) /\ ~c.verweer /\ c.step # RegelingStep

create_arrangement(seen, x, plan) ==
    LET moves == ToRegeling(seen.case) IN
    /\ arrs[x].status = "none"
    /\ MayAgree(seen)
    /\ arrs' = [arrs EXCEPT ![x] = Agreed(plan)]
    /\ case' = IF moves THEN Flush(case, seen.case, Moved(seen.case, RegelingStep)) ELSE case
    /\ work' = close_payment_promise_tasks(
                   IF moves THEN WorkAfterMove(work, RegelingStep) ELSE work)
    /\ UNCHANGED <<claims, payments, recent, cached, held, today>>

\* An arrangement that ends takes its open installments along.
EndStatus(arr, status, closed) ==
    [arr EXCEPT !.status = status,
                !.inst = [k \in DOMAIN @ |->
                            IF OpenInst(@[k]) THEN [@[k] EXCEPT !.status = closed] ELSE @[k]]]

FlushArr(row, loaded, changed) ==
    [Flush(row, loaded, changed) EXCEPT
        !.inst = [k \in DOMAIN row.inst |->
                     Flush(row.inst[k], loaded.inst[k], changed.inst[k])]]

End(seen, x, status, closed) ==
    /\ arrs' = [arrs EXCEPT ![x] = FlushArr(arrs[x], seen.arrs[x],
                                            EndStatus(seen.arrs[x], status, closed))]
    /\ work' = IF status = "defaulted"
               THEN work \cup {Task("arrangement_defaulted")} ELSE work
    /\ UNCHANGED <<claims, payments, recent, cached, held, case, today>>

default_arrangement(seen, x) ==
    seen.arrs[x].status = "active" /\ End(seen, x, "defaulted", "missed")

cancel_arrangement(seen, x) ==
    seen.arrs[x].status = "active" /\ End(seen, x, "cancelled", "waived")

\* The general route sets any status, from any status.
update_arrangement(seen, x, status) ==
    /\ seen.arrs[x].status # "none"
    /\ \/ status = "active"
          /\ arrs' = [arrs EXCEPT ![x].status = IF seen.arrs[x].status = status
                                                THEN @ ELSE status]
          /\ UNCHANGED <<claims, payments, recent, cached, held, caseVars>>
       \/ status = "defaulted" /\ End(seen, x, status, "missed")
       \/ status \in {"cancelled", "completed"} /\ End(seen, x, status, "waived")

waive_installment(seen, x, k) ==
    LET loaded == seen.arrs[x].inst[k]
        inst == Flush(arrs[x].inst[k], loaded, [loaded EXCEPT !.status = "waived"])
        after == Checked([arrs[x] EXCEPT !.inst[k] = inst])
    IN
    /\ loaded.status # "paid"
    /\ arrs' = [arrs EXCEPT ![x] = after]
    /\ work' = WorkAfterCheck(work, arrs[x], after, seen.case)
    /\ UNCHANGED <<claims, payments, recent, cached, held, case, today>>

OverdueNow(i) == i.status \in {"pending", "partial"} /\ i.due < today

\* The daily job; installments of active arrangements only.
mark_overdue_installments ==
    /\ arrs' = [a \in ArrIds |->
                  IF arrs[a].status # "active" THEN arrs[a]
                  ELSE [arrs[a] EXCEPT !.inst = [k \in DOMAIN @ |->
                            IF OverdueNow(@[k]) THEN [@[k] EXCEPT !.status = "overdue"]
                            ELSE @[k]]]]
    /\ UNCHANGED <<claims, payments, recent, cached, held, caseVars>>

-----------------------------------------------------------------------------
(* The case itself, and the tasks its mails bring.                         *)

Settled == held = 0

update_case_status(seen, status) ==
    /\ MayTake(seen.case, status, Owed(claims, payments, case.freeze), Settled)
    /\ case' = Flush(case, seen.case, WithStatus(seen.case, status, LastPaid(payments)))
    /\ work' = WorkWithStatus(work, status)
    /\ UNCHANGED <<moneyVars, today>>

\* update_case with another step, from the board or the case page.
update_case_step(seen, s) ==
    /\ s # seen.case.step
    /\ MayEnter(s, "manual", Owed(claims, payments, case.freeze), Settled)
    /\ case' = Flush(case, seen.case, Moved(seen.case, s))
    /\ work' = WorkAfterMove(work, s)
    /\ UNCHANGED <<moneyVars, today>>

\* update_case with another interest date, or none: open or closed, nothing is looked at.
update_case_freeze(seen, d) ==
    /\ d # seen.case.freeze
    /\ case' = Flush(case, seen.case, [seen.case EXCEPT !.freeze = d])
    /\ UNCHANGED <<moneyVars, work, today>>

\* A mail that asks for an arrangement, or promises a payment.
ensure_task(source) ==
    /\ ~Closed(case)
    /\ Active(arrs) = {}
    /\ work' = work \cup {Task(source)}
    /\ UNCHANGED <<moneyVars, case, today>>

complete_task(x) ==
    /\ x.kind = "task"
    /\ work' = work \ {x}
    /\ UNCHANGED <<moneyVars, case, today>>

\* The trust ledger pays out or offsets what it holds.
PayOut ==
    /\ held > 0
    /\ held' = 0
    /\ UNCHANGED <<claims, payments, recent, arrs, cached, caseVars>>

SecondsPass ==
    /\ recent # {}
    /\ recent' = {}
    /\ UNCHANGED <<claims, payments, arrs, cached, held, caseVars>>

NextDay ==
    /\ today < MaxDay
    /\ today' = today + 1
    /\ recent' = {}
    /\ UNCHANGED <<claims, payments, arrs, cached, held, case, work>>

-----------------------------------------------------------------------------
(* The machine.                                                            *)

ClaimHandler(seen) ==
    \/ \E id \in ClaimIds, a \in Amounts : create_claim(seen, id, a) \/ update_claim(seen, id, a)
    \/ \E id \in ClaimIds : delete_claim(seen, id)

PaymentHandler(seen) ==
    \/ \E id \in PaymentIds, a \in Amounts, d \in Days :
          \/ create_payment(seen, id, a, d)
          \/ \E x \in ArrIds : \E k \in DOMAIN seen.arrs[x].inst :
                record_installment_payment(seen, x, k, id, a, d)
    \/ \E p \in seen.payments :
          /\ \E q \in payments : q.id = p.id
          /\ delete_payment(seen, p) \/ \E a \in Amounts, d \in Days : update_payment(seen, p, a, d)

ArrangementHandler(seen) ==
    \/ \E x \in ArrIds, plan \in Plans : create_arrangement(seen, x, plan)
    \/ \E x \in ArrIds :
          \/ default_arrangement(seen, x)
          \/ cancel_arrangement(seen, x)
          \/ \E s \in {"active", "completed", "cancelled", "defaulted"} :
                update_arrangement(seen, x, s)
          \/ \E k \in DOMAIN seen.arrs[x].inst : waive_installment(seen, x, k)

CaseHandler(seen) ==
    \/ \E s \in Statuses \cap ByHand : update_case_status(seen, s)
    \/ \E s \in Steps \cap ByHand : update_case_step(seen, s)
    \/ \E d \in FreezeDates : update_case_freeze(seen, d)

TrustHandler(seen) ==
    \E id \in PaymentIds, a \in Amounts, d \in Days :
        record_trust_debtor_payment(seen, id, a, d)

Handler(seen) ==
    \/ seen.op = "open" /\ ClaimHandler(seen)
    \/ seen.op = "open" /\ PaymentHandler(seen)
    \/ seen.op = "open" /\ ArrangementHandler(seen)
    \/ seen.op = "open" /\ CaseHandler(seen)
    \/ seen.op \in {"open", "trust"} /\ TrustHandler(seen)

Background ==
    \/ mark_overdue_installments
    \/ \E source \in MailTasks : ensure_task(source)
    \/ \E x \in work : complete_task(x)
    \/ PayOut \/ SecondsPass \/ NextDay

Init ==
    /\ claims = {} /\ payments = {} /\ recent = {} /\ held = 0
    /\ arrs = [x \in ArrIds |-> NoArrangement]
    /\ cached = [principal |-> 0, paid |-> 0]
    /\ \E s \in FirstSteps : case = NewCase(s)
    /\ work \in OpenWork /\ today = 0
    /\ req = [r \in Requests |-> Idle]

Next ==
    \/ Handler(Now) /\ UNCHANGED req
    \/ \E r \in Requests :
          \/ Begin(r) \/ BeginTrust(r) \/ Abandon(r)
          \/ req[r] # Idle /\ Handler(req[r]) /\ req' = [req EXCEPT ![r] = Idle]
    \/ Background /\ UNCHANGED req

Spec == Init /\ [][Next]_vars

-----------------------------------------------------------------------------
(* Properties.                                                             *)

\* Every column keeps a value its schema allows.
TypeOK ==
    /\ case \in CaseRow /\ today \in Days /\ held \in Nat
    /\ \A c \in claims : c.id \in ClaimIds /\ c.amount \in Amounts
    /\ \A p \in payments : p.id \in PaymentIds /\ p.amount \in 0..MaxAmount /\ p.day \in Days
    /\ \A p, q \in payments : p.id = q.id => p = q
    /\ \A x \in ArrIds :
          arrs[x].status \in {"none", "active", "completed", "cancelled", "defaulted"}
    /\ \A s \in recent : \E p \in payments : p.id = s.id

OwedNow == Owed(claims, payments, case.freeze)

Booked(p) == \A q \in payments : q.id # p.id

\* The totals cached on the case row are those of its claims and payments,
\* as long as no two requests overlap: every handler that changes either one
\* refreshes them (_refresh_case_financials).
CacheAgrees == cached = Totals(claims, payments)

\* What an installment says of itself agrees with what was paid on it, along
\* every route that pays, waives, ends or ages it.
InstallmentsHonest ==
    \A x \in ArrIds : \A k \in DOMAIN arrs[x].inst :
        LET i == arrs[x].inst[k] IN
        /\ i.status = "paid" => i.paid >= i.amount
        /\ i.status = "partial" => i.paid \in 1..(i.amount - 1)
        /\ i.status = "pending" => i.paid = 0

\* The closing date is set exactly while the case is closed.
ClosedDateAgrees == case.date_closed <=> Closed(case)

\* Art. 6:44 BW, and never beyond what is due: a booking fills costs before
\* interest and interest before principal, gives no part more than was open
\* on the day of the payment, and divides its whole amount.
BookedInOrder ==
    [][\A p \in payments' : Booked(p) =>
        LET room == Room(claims, payments, p.day) IN
        /\ p.amount = p.to.costs + p.to.interest + p.to.principal
        /\ \A part \in DOMAIN p.to : p.to[part] <= room[part]
        /\ p.to.interest > 0 => p.to.costs = room.costs
        /\ p.to.principal > 0 => p.to.interest = room.interest /\ p.to.costs = room.costs]_vars

\* The last payment closes the case and stops its interest: no booking leaves
\* an open case that owes nothing.
LastPaymentCloses ==
    [][\A p \in payments' : (Booked(p) /\ claims # {}) => (OwedNow' > 0 \/ Closed(case'))]_vars

\* A payment taken back, corrected or added, a status or a step never leaves the case
\* "betaald" with money open, with one exception: when the last payment is dated ahead,
\* the case closes on what is owed today, and its interest stops on a day still to come.
\* Apart from that, only a claim changed afterwards, a day of interest, or an interest
\* date set by hand leaves money open on a case that is "betaald".
PaidMeansPaid ==
    [][(claims' = claims /\ today' = today /\ case'.status = "betaald" /\ OwedNow' > 0)
           => \/ case.status = "betaald" /\ OwedNow > 0
              \/ /\ case'.freeze # case.freeze
                 /\ case'.freeze > today \/ case' = [case EXCEPT !.freeze = case'.freeze]]_vars

\* What a step adds to the installments of x, and what they still need.
Landed(x) ==
    SumOf(DOMAIN arrs[x].inst,
          [k \in DOMAIN arrs[x].inst |-> arrs'[x].inst[k].paid - arrs[x].inst[k].paid])

Needed(x) == SumOf(DOMAIN arrs[x].inst, [k \in DOMAIN arrs[x].inst |-> Gap(arrs[x].inst[k])])

\* Every coin booked while an arrangement runs lands on an installment that
\* still needs it, as far as there are such, and none is taken off another.
CoinsReachInstallments ==
    [][\A p \in payments' : Booked(p) =>
          /\ \A y \in Active(arrs) : \E x \in ArrIds : Landed(x) >= Least(p.amount, Needed(y))
          /\ \A x \in ArrIds : \A k \in DOMAIN arrs[x].inst :
                arrs'[x].inst[k].paid >= arrs[x].inst[k].paid]_vars

\* The submission t is on the books as it was booked, and s is the same again.
SameAgain(s, t) ==
    /\ t.via = s.via /\ t.asked = s.asked /\ t.day = s.day
    /\ \E p \in payments : p.id = t.id /\ p.amount = t.booked /\ p.day = t.day

\* A direct payment or an installment submitted twice within seconds is booked
\* once, two tabs and two workers included.
SubmittedOnce ==
    [][\A s \in recent' \ recent, t \in recent :
          s.via \in {"direct", "installment"} => ~SameAgain(s, t)]_vars

\* The comment in create_payment promises the same of every route.
DoubleClickBooksOnce ==
    [][\A s \in recent' \ recent, t \in recent : s.via # "bank" => ~SameAgain(s, t)]_vars

\* What a case owes can be booked: the gate of create_payment and the
\* outstanding amount that reopens a case count alike.
OwedCanBePaid == OwedNow > 0 => Total(Room(claims, payments, today)) > 0

\* Interest is frozen exactly while the case is closed.
FreezeFollowsClosing == (case.freeze # Never) <=> Closed(case)

\* At most one arrangement runs on a case.
OneActiveArrangement == Cardinality(Active(arrs)) <= 1
=============================================================================
