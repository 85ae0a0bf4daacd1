---------------------------- MODULE PaymentMatching ----------------------------
(***************************************************************************)
(* Bank import and payment matching                                        *)
(* (app/ai_agent/payment_matching_service.py) on top of Collections: the   *)
(* credits of a bank statement, the matches that link one to the case, and *)
(* the two bookings an executed match makes, a trust deposit and a payment.*)
(*                                                                         *)
(* The other cases of the office are left out: a credit that belongs to    *)
(* one of them is never matched here.  Scoring is left out too: whether    *)
(* find_matches proposes the case for a credit is free.  Requests overlap  *)
(* as in Collections; a slot also holds the matches and credits it loaded. *)
(***************************************************************************)
EXTENDS Collections

CONSTANTS
    BankRows,    \* the credits that statements may bring
    AmountOf,    \* AmountOf[b]: the coins of the credit b
    MatchIds,    \* bound: the matches ever made
    NoRow,       \* the credit of a match that was never made
    NoPayment    \* the payment of a match that was not executed

ASSUME BankAssumption ==
    /\ AmountOf \in [BankRows -> Amounts] /\ NoRow \notin BankRows
    /\ IsFiniteSet(MatchIds) /\ NoPayment \notin PaymentIds

VARIABLES
    rows,       \* rows[b]: whether the credit b was imported, and is_matched
    matches,    \* matches[m]: the match m and what it booked
    deposits    \* deposits[b]: the standing trust deposits made for the credit b

bankVars == <<rows, matches, deposits>>

allVars == <<vars, bankVars>>

NoMatch == [row |-> NoRow, status |-> "none", payment |-> NoPayment]

BankNow ==
    [op |-> "bank", case |-> case, claims |-> claims, payments |-> payments,
     arrs |-> arrs, matches |-> matches, rows |-> rows]

BeginBank(r) ==
    /\ req[r] = Idle
    /\ req' = [req EXCEPT ![r] = BankNow]
    /\ UNCHANGED <<moneyVars, caseVars, bankVars>>

NewMatch(b, status) == [row |-> b, status |-> status, payment |-> NoPayment]

\* A payment a match has booked keeps its id.
KeepsIds == \A p \in payments' : Booked(p) => \A m \in MatchIds : matches[m].payment # p.id

Reviewed(m, status) == matches' = [matches EXCEPT ![m].status = status]

-----------------------------------------------------------------------------
(* Import and matching.                                                    *)

\* Statements may be uploaded again: credits already imported are skipped.
import_bank_statement(statement) ==
    /\ rows' = [b \in BankRows |->
                  IF b \in statement THEN [rows[b] EXCEPT !.imported = TRUE] ELSE rows[b]]
    /\ UNCHANGED <<matches, deposits, moneyVars, caseVars>>

\* The best proposal for a credit that is not matched yet; closed cases are
\* no candidates.
generate_match(seen, b, m) ==
    /\ seen.rows[b].imported /\ ~seen.rows[b].matched
    /\ ~Closed(case)
    /\ matches[m] = NoMatch
    /\ matches' = [matches EXCEPT ![m] = NewMatch(b, "pending")]
    /\ rows' = [rows EXCEPT ![b].matched = TRUE]
    /\ UNCHANGED <<deposits, moneyVars, caseVars>>

\* A manual link is approved at once; it is refused while a proposal waits.
manual_match(seen, b, m) ==
    /\ seen.rows[b].imported
    /\ \A n \in MatchIds : ~(matches[n].row = b /\ matches[n].status = "pending")
    /\ matches[m] = NoMatch
    /\ matches' = [matches EXCEPT ![m] = NewMatch(b, "approved")]
    /\ rows' = [rows EXCEPT ![b].matched = TRUE]
    /\ UNCHANGED <<deposits, moneyVars, caseVars>>

-----------------------------------------------------------------------------
(* Review, execution and undoing.                                          *)

approve_match(seen, m) ==
    /\ seen.matches[m].status = "pending"
    /\ Reviewed(m, "approved")
    /\ UNCHANGED <<rows, deposits, moneyVars, caseVars>>

\* Mutant of Unmatched: the credit stays marked as matched.
StillMatched(b) == rows

\* A credit whose match is rejected or undone can be matched again.
Unmatched(b) == [rows EXCEPT ![b].matched = FALSE]

reject_match(seen, m) ==
    /\ seen.matches[m].status = "pending"
    /\ Reviewed(m, "rejected")
    /\ rows' = Unmatched(seen.matches[m].row)
    /\ UNCHANGED <<deposits, moneyVars, caseVars>>

\* Both bookings of a match that was approved when it was loaded; one click
\* may approve and execute.
Execute(seen, m, id, status) ==
    LET b == seen.matches[m].row IN
    /\ seen.matches[m].status = status
    /\ BookTrust(seen, "bank", id, AmountOf[b], 0) /\ KeepsIds
    /\ matches' = [matches EXCEPT ![m].status = "executed", ![m].payment = id]
    /\ deposits' = [deposits EXCEPT ![b] = @ + 1]
    /\ UNCHANGED rows

execute_match(seen, m, id) == Execute(seen, m, id, "approved")

approve_and_execute_match(seen, m, id) == Execute(seen, m, id, "pending")

\* Mutant of PaymentTakenBack: undoing reverses the deposit only.
PaymentStays(seen, id) == UNCHANGED <<payments, recent, cached, case, claims, arrs, work, today>>

\* delete_payment, if the payment was not deleted by hand before.
PaymentTakenBack(seen, id) ==
    LET gone == [id |-> id] IN
    /\ payments' = Remaining(payments, gone)
    /\ recent' = {s \in recent : s.id # id}
    /\ \E v \in Views(seen) : cached' = Totals(v[1], Remaining(v[2], gone))
    /\ TakenBack(seen, payments')
    /\ UNCHANGED <<claims, arrs, work, today>>

\* The reversal of the deposit: it stands, and the account still holds it.
ReversalAllowed(b) == deposits[b] > 0 /\ held >= AmountOf[b]

undo_match(seen, m) ==
    LET b == seen.matches[m].row IN
    /\ seen.matches[m].status = "executed"
    /\ ReversalAllowed(b)
    /\ held' = held - AmountOf[b]
    /\ deposits' = [deposits EXCEPT ![b] = @ - 1]
    /\ PaymentTakenBack(seen, seen.matches[m].payment)
    /\ Reviewed(m, "rejected")
    /\ rows' = Unmatched(b)

-----------------------------------------------------------------------------
(* The machine.                                                            *)

BankHandler(seen) ==
    \/ \E b \in BankRows, m \in MatchIds : generate_match(seen, b, m) \/ manual_match(seen, b, m)
    \/ \E m \in MatchIds :
          \/ approve_match(seen, m) \/ reject_match(seen, m) \/ undo_match(seen, m)
          \/ \E id \in PaymentIds :
                execute_match(seen, m, id) \/ approve_and_execute_match(seen, m, id)

BankInit ==
    /\ Init
    /\ rows = [b \in BankRows |-> [imported |-> FALSE, matched |-> FALSE]]
    /\ matches = [m \in MatchIds |-> NoMatch]
    /\ deposits = [b \in BankRows |-> 0]

BankNext ==
    \/ Next /\ KeepsIds /\ UNCHANGED bankVars
    \/ \E statement \in SUBSET BankRows : import_bank_statement(statement) /\ UNCHANGED req
    \/ BankHandler(BankNow) /\ UNCHANGED req
    \/ \E r \in Requests :
          \/ BeginBank(r)
          \/ /\ req[r].op = "bank"
             /\ BankHandler(req[r])
             /\ req' = [req EXCEPT ![r] = Idle]

BankSpec == BankInit /\ [][BankNext]_allVars

-----------------------------------------------------------------------------
(* Properties.                                                             *)

\* Every column keeps a value its schema allows, those of Collections too.
BankTypeOK ==
    /\ TypeOK
    /\ \A m \in MatchIds :
          /\ matches[m].row \in BankRows \cup {NoRow}
          /\ matches[m].status \in {"none", "pending", "approved", "rejected", "executed"}
          /\ (matches[m].payment # NoPayment) => matches[m].status # "none"
    /\ deposits \in [BankRows -> Nat]

Live(m, b) ==
    matches[m].row = b /\ matches[m].status \in {"pending", "approved", "executed"}

\* A credit on the trust account is never lost from sight: marked as matched,
\* it has a match that waits for review or was booked.
NoCreditForgotten ==
    \A b \in BankRows : rows[b].matched => \E m \in MatchIds : Live(m, b)

\* Both bookings of every match stand, or neither does.
BothOrNeither ==
    \A b \in BankRows :
        /\ deposits[b] = Cardinality({m \in MatchIds :
                             matches[m].row = b /\ matches[m].status = "executed"})
        /\ \A m \in MatchIds : matches[m].status = "rejected" =>
              \A p \in payments : p.id # matches[m].payment

\* A request that nothing overlaps keeps both bookings of a match together:
\* undone, neither its payment nor its deposit is left.
UndoTakesBoth == [][(req' = req /\ BothOrNeither) => BothOrNeither']_<<matches, deposits, payments>>

\* One credit on the bank statement is booked once.
BankRowBookedOnce == \A b \in BankRows : deposits[b] <= 1
=============================================================================
