------------------------------ MODULE TrustLedger ------------------------------
(***************************************************************************)
(* Client money held by the Stichting Derdengelden                         *)
(* (app/trust_funds/service.py), composed with the invoice book that       *)
(* offsets are booked on.                                                  *)
(*                                                                         *)
(* A handler reads the transaction row it is asked about, validates what   *)
(* it read, and later flushes and commits.  Paths that lower a balance     *)
(* take the row lock of the case before they read the balance; the others  *)
(* take no lock.  The row read first is never read again: SQLAlchemy's     *)
(* identity map returns the object already loaded, so what a handler       *)
(* decides after waiting for the lock it decides on the stale copy kept in *)
(* req[r].                                                                 *)
(*                                                                         *)
(* A check-and-insert that runs wholly under the lock is one step, also    *)
(* where it first loads the case: nothing the check reads can move against *)
(* it while the lock is held (what others do without the lock only raises  *)
(* the balance).                                                           *)
(***************************************************************************)
EXTENDS InvoiceBook

CONSTANTS
    Cases,              \* the cases of one client, each with its own balance
    Users,              \* the active users of the office
    SelfApprovalFlag,   \* tenants.trust_allow_self_approval
    NoUser, NoInvoice, NoCase

ASSUME FlagAssumption == SelfApprovalFlag \in BOOLEAN
ASSUME TxsAssumption == IsFiniteSet(Txs)
ASSUME NullAssumption ==
    NoUser \notin Users /\ NoInvoice \notin Invoices /\ NoCase \notin Cases

VARIABLES
    ledger,      \* ledger[t]: row t of trust_transactions
    files,       \* files[t]: how many SEPA files handed out so far pay row t
    signers      \* history: who has recorded an approval of t, in any slot

trustVars == <<ledger, files, signers>>
vars == <<bookVars, req, trustVars>>

Debits == {"disbursement", "offset_to_invoice"}

NoRow ==
    [kind |-> "none", status |-> "none", amount |-> 0, case |-> NoCase,
     inv |-> NoInvoice, by |-> NoUser, app1 |-> NoUser, app2 |-> NoUser,
     reverses |-> NoTx, reversedBy |-> NoTx, exported |-> FALSE]

\* A new row of trust_transactions, with every other column at its default.
Row(kind, status, amount, case, user) ==
    [NoRow EXCEPT !.kind = kind, !.status = status, !.amount = amount,
                  !.case = case, !.by = user]

Free(t) == ledger[t] = NoRow

\* _self_approval_allowed: never with two or more active users.
SelfApprovalAllowed == Cardinality(Users) <= 1 /\ SelfApprovalFlag

-----------------------------------------------------------------------------
(* get_balance                                                             *)

LedgerAmount == [t \in Txs |-> ledger[t].amount]

Booked(t) == ledger[t].status = "approved" /\ ledger[t].reversedBy = NoTx

Deposited(c) == {t \in Txs : ledger[t].case = c /\ ledger[t].kind = "deposit" /\ Booked(t)}

Debited(c) == {t \in Txs : ledger[t].case = c /\ ledger[t].kind \in Debits /\ Booked(t)}

PendingDebits(c) ==
    {t \in Txs : /\ ledger[t].case = c
                 /\ ledger[t].kind \in Debits
                 /\ ledger[t].status = "pending_approval"}

TotalBalance(c) == SumOf(Deposited(c), LedgerAmount) - SumOf(Debited(c), LedgerAmount)

Available(c) == TotalBalance(c) - SumOf(PendingDebits(c), LedgerAmount)

\* _lock_case_for_balance can be granted: no handler holds the row of case c
\* between two of its steps.  Only the booking of an offset takes two steps
\* under the lock.
LockFree(c) == \A r \in Requests : req[r].op = "book" => ledger[req[r].tx].case # c

-----------------------------------------------------------------------------
(* create_transaction and create_offset_to_invoice                         *)

CreateDeposit(t, c, u, a) ==
    /\ Free(t)
    /\ ledger' = [ledger EXCEPT ![t] = Row("deposit", "approved", a, c, u)]
    /\ UNCHANGED <<bookVars, req, files, signers>>

\* Mutant of Reservable: debits waiting for approval are not reserved.
Unreserved(c, a) == TotalBalance(c) >= a

\* A new debit must fit in what is not yet booked or reserved.
Reservable(c, a) == Available(c) >= a

CreateDisbursement(t, c, u, a) ==
    /\ Free(t)
    /\ LockFree(c)
    /\ Reservable(c, a)
    /\ ledger' = [ledger EXCEPT ![t] = Row("disbursement", "pending_approval", a, c, u)]
    /\ UNCHANGED <<bookVars, req, files, signers>>

CreateOffset(t, c, u, a, i) ==
    /\ Free(t)
    /\ invoice[i].active
    /\ invoice[i].status \in Payable
    /\ LockFree(c)
    /\ Reservable(c, a)
    /\ Room(i, a)
    /\ ledger' = [ledger EXCEPT ![t] =
                    [Row("offset_to_invoice", "pending_approval", a, c, u) EXCEPT !.inv = i]]
    /\ UNCHANGED <<bookVars, req, files, signers>>

-----------------------------------------------------------------------------
(* approve_transaction                                                     *)

\* Mutant of MayApprove: the creator may sign.
CreatorMayApprove(u, t) == u \in Users /\ ledger[t].status = "pending_approval"

MayApprove(u, t) ==
    /\ ledger[t].status = "pending_approval"
    /\ SelfApprovalAllowed \/ u # ledger[t].by

BeginApprove(r, u, t) ==
    /\ MayApprove(u, t)
    /\ Load(r, [op |-> "approve", tx |-> t, user |-> u,
                app1 |-> ledger[t].app1, app2 |-> ledger[t].app2])
    /\ UNCHANGED <<bookVars, trustVars>>

FirstApproval(r) ==
    /\ req[r].op = "approve"
    /\ req[r].app1 = NoUser
    /\ ledger' = [ledger EXCEPT ![req[r].tx].app1 = req[r].user]
    /\ signers' = [signers EXCEPT ![req[r].tx] = @ \cup {req[r].user}]
    /\ Done(r)
    /\ UNCHANGED <<bookVars, files>>

\* Mutant of SecondSlot: the first approver may sign again.
SameSignerSlot(r) == req[r].op = "approve" /\ req[r].app1 # NoUser /\ req[r].app2 = NoUser

\* The second slot is open in the row as loaded, and in strict mode the second
\* approver is not the first.
SecondSlot(r) ==
    /\ req[r].op = "approve"
    /\ req[r].app1 # NoUser
    /\ req[r].app2 = NoUser
    /\ SelfApprovalAllowed \/ req[r].user # req[r].app1

\* Mutant of Covered: the balance is not read again at the second approval.
NotRechecked(t) == ledger[t].kind \in Debits

\* The booked balance covers debit t.
Covered(t) == TotalBalance(ledger[t].case) >= ledger[t].amount

\* The row t with its second approval by user u.
Approved(t, u) == [ledger[t] EXCEPT !.app2 = u, !.status = "approved"]

SecondApprovalOfDisbursement(r) ==
    LET t == req[r].tx
        u == req[r].user
        c == ledger[t].case
    IN  /\ SecondSlot(r)
        /\ ledger[t].kind = "disbursement"
        /\ LockFree(c)
        /\ Covered(t)
        /\ ledger' = [ledger EXCEPT ![t] = Approved(t, u)]
        /\ signers' = [signers EXCEPT ![t] = @ \cup {u}]
        /\ Done(r)
        /\ UNCHANGED <<bookVars, files>>

\* The case row is locked, and balance and invoice have room for offset t.
OffsetMayProceed(t) ==
    /\ LockFree(ledger[t].case)
    /\ Covered(t)
    /\ Room(ledger[t].inv, ledger[t].amount)

\* Second approval of an offset, first step: the case row is locked, the balance
\* covers the amount, and _book_offset_payment reads the invoice and what is paid
\* on it.  Nothing here looks at the status or is_active of the invoice.
CheckOffset(r) ==
    LET t == req[r].tx
        i == ledger[t].inv
    IN  /\ SecondSlot(r)
        /\ ledger[t].kind = "offset_to_invoice"
        /\ OffsetMayProceed(t)
        /\ Advance(r, [op |-> "book", tx |-> t, user |-> req[r].user,
                       status |-> invoice[i].status, paid |-> Paid(i)])
        /\ UNCHANGED <<bookVars, trustVars>>

\* Second step: approval, payment row and invoice status commit together.
BookOffset(r) ==
    /\ req[r].op = "book"
    /\ LET t == req[r].tx
           u == req[r].user
           i == ledger[t].inv
       IN  /\ ledger' = [ledger EXCEPT ![t] = Approved(t, u)]
           /\ signers' = [signers EXCEPT ![t] = @ \cup {u}]
           /\ \E id \in PaymentIds :
                 /\ FreshId(id)
                 /\ payments' = payments \cup
                       {[id |-> id, inv |-> i, amount |-> ledger[t].amount, ref |-> t]}
           /\ WriteStatus(i, req[r].status,
                          StatusAfter(i, req[r].status, req[r].paid + ledger[t].amount))
    /\ Done(r)
    /\ UNCHANGED files

\* Second approval of a reversal, first step: _finalize_reversal loads the
\* original.  No lock is taken on this path.
LoadOriginal(r) ==
    LET x == req[r].tx
    IN  /\ SecondSlot(r)
        /\ ledger[x].kind = "reversal"
        /\ ledger[ledger[x].reverses].reversedBy = NoTx
        /\ Advance(r, [op |-> "storno", tx |-> x, user |-> req[r].user])
        /\ UNCHANGED <<bookVars, trustVars>>

\* Mutant of Unbook: the payment stays on the invoice.
KeepBooking(t) == t \in Txs /\ UNCHANGED bookVars

\* _unbook_offset_payment: drop the payment the offset booked (the lookup raises
\* when it finds two) and recompute the invoice status.
Unbook(t) ==
    LET booking == {p \in PaymentsOn(ledger[t].inv) : p.ref = t}
        left == payments \ booking
        i == ledger[t].inv
        paid == SumOf({p \in left : p.inv = i}, RowAmount)
    IN  /\ Cardinality(booking) <= 1
        /\ payments' = left
        /\ WriteStatus(i, invoice[i].status, StatusAfter(i, invoice[i].status, paid))

\* Second step: the reversal takes effect.
FinalizeReversal(r) ==
    /\ req[r].op = "storno"
    /\ LET x == req[r].tx
           t == ledger[x].reverses
       IN  /\ ledger' = [ledger EXCEPT ![x] = Approved(x, req[r].user), ![t].reversedBy = x]
           /\ signers' = [signers EXCEPT ![x] = @ \cup {req[r].user}]
           /\ IF ledger[t].kind = "offset_to_invoice" THEN Unbook(t) ELSE UNCHANGED bookVars
    /\ Done(r)
    /\ UNCHANGED files

-----------------------------------------------------------------------------
(* reverse_transaction.  Deposits that came from a bank-import match are    *)
(* refused here and reversed by undoing the match; this module has none.    *)

LiveReversals(t) ==
    {x \in Txs : ledger[x].reverses = t /\ ledger[x].status \in {"pending_approval", "approved"}}

\* Mutant of MayReverse: a storno that is still pending is overlooked.
MayReverseAgain(t) == ledger[t].kind \in Debits \cup {"deposit"} /\ Booked(t)

MayReverse(t) ==
    /\ ledger[t].kind \in Debits \cup {"deposit"}
    /\ Booked(t)
    /\ LiveReversals(t) = {}

BeginReverse(r, u, t) ==
    /\ MayReverse(t)
    /\ Load(r, [op |-> "reverse", tx |-> t, user |-> u])
    /\ UNCHANGED <<bookVars, trustVars>>

\* The storno x of row t, made by user u.
Storno(t, status, u) ==
    [Row("reversal", status, ledger[t].amount, ledger[t].case, u) EXCEPT !.reverses = t]

\* A deposit is reversed at once.  _finalize_reversal looks at reversed_by_id
\* again, but on the copy loaded before the lock, so the look finds nothing new.
ReverseDeposit(r, x) ==
    LET t == req[r].tx
    IN  /\ req[r].op = "reverse"
        /\ Free(x)
        /\ ledger[t].kind = "deposit"
        /\ LockFree(ledger[t].case)
        /\ Available(ledger[t].case) >= ledger[t].amount
        /\ ledger' = [ledger EXCEPT ![x] = Storno(t, "approved", req[r].user),
                                    ![t].reversedBy = x]
        /\ Done(r)
        /\ UNCHANGED <<bookVars, files, signers>>

\* The reversal of a debit waits for its two approvals.
ReverseDebit(r, x) ==
    LET t == req[r].tx
    IN  /\ req[r].op = "reverse"
        /\ Free(x)
        /\ ledger[t].kind \in Debits
        /\ ledger' = [ledger EXCEPT ![x] = Storno(t, "pending_approval", req[r].user)]
        /\ Done(r)
        /\ UNCHANGED <<bookVars, files, signers>>

-----------------------------------------------------------------------------
(* reject_transaction                                                      *)

MayReject(t) == ledger[t].status = "pending_approval"

BeginReject(r, t) ==
    /\ MayReject(t)
    /\ Load(r, [op |-> "reject", tx |-> t])
    /\ UNCHANGED <<bookVars, trustVars>>

Reject(r) ==
    /\ req[r].op = "reject"
    /\ ledger' = [ledger EXCEPT ![req[r].tx].status = "rejected"]
    /\ Done(r)
    /\ UNCHANGED <<bookVars, files, signers>>

-----------------------------------------------------------------------------
(* export_sepa_batch                                                       *)

MayExport(t) == ledger[t].kind = "disbursement" /\ Booked(t) /\ ~ledger[t].exported

BeginExport(r, batch) ==
    /\ batch # {}
    /\ \A t \in batch : MayExport(t)
    /\ Load(r, [op |-> "export", batch |-> batch])
    /\ UNCHANGED <<bookVars, trustVars>>

Export(r) ==
    /\ req[r].op = "export"
    /\ ledger' = [t \in Txs |-> IF t \in req[r].batch
                                THEN [ledger[t] EXCEPT !.exported = TRUE] ELSE ledger[t]]
    /\ files' = [t \in Txs |-> IF t \in req[r].batch THEN files[t] + 1 ELSE files[t]]
    /\ Done(r)
    /\ UNCHANGED <<bookVars, signers>>

-----------------------------------------------------------------------------
Init ==
    /\ BookInit
    /\ ledger = [t \in Txs |-> NoRow]
    /\ files = [t \in Txs |-> 0]
    /\ signers = [t \in Txs |-> {}]

Create ==
    \E t \in Txs, c \in Cases, u \in Users, a \in Amounts :
        \/ CreateDeposit(t, c, u, a)
        \/ CreateDisbursement(t, c, u, a)
        \/ \E i \in Invoices : CreateOffset(t, c, u, a, i)

Approve(r) ==
    \/ \E u \in Users, t \in Txs : BeginApprove(r, u, t)
    \/ FirstApproval(r)
    \/ SecondApprovalOfDisbursement(r)
    \/ CheckOffset(r)
    \/ BookOffset(r)
    \/ LoadOriginal(r)
    \/ FinalizeReversal(r)

Reverse(r) ==
    \/ \E u \in Users, t \in Txs : BeginReverse(r, u, t)
    \/ \E x \in Txs : ReverseDeposit(r, x) \/ ReverseDebit(r, x)

Next ==
    \/ BookNext /\ UNCHANGED trustVars
    \/ Create
    \/ \E r \in Requests :
         \/ Approve(r)
         \/ Reverse(r)
         \/ \E t \in Txs : BeginReject(r, t)
         \/ Reject(r)
         \/ \E batch \in SUBSET Txs : BeginExport(r, batch)
         \/ Export(r)

Spec == Init /\ [][Next]_vars

-----------------------------------------------------------------------------
(* Properties                                                              *)

TxRow ==
    [kind : Debits \cup {"deposit", "reversal"},
     status : {"pending_approval", "approved", "rejected"},
     amount : Amounts, case : Cases, inv : Invoices \cup {NoInvoice},
     by : Users, app1 : Users \cup {NoUser}, app2 : Users \cup {NoUser},
     reverses : Txs \cup {NoTx}, reversedBy : Txs \cup {NoTx}, exported : BOOLEAN]

\* What a request of this module may have read.
TrustRequest ==
    [op : {"approve"}, tx : Txs, user : Users,
     app1 : Users \cup {NoUser}, app2 : Users \cup {NoUser}]
      \cup [op : {"book"}, tx : Txs, user : Users, status : InvoiceStatus, paid : Nat]
      \cup [op : {"storno", "reverse"}, tx : Txs, user : Users]
      \cup [op : {"reject"}, tx : Txs]
      \cup [op : {"export"}, batch : SUBSET Txs]

\* Type invariant of the trust ledger.
TypeOK ==
    /\ BookTypeOK
    /\ req \in [Requests -> BookRequest \cup TrustRequest]
    /\ ledger \in [Txs -> TxRow \cup {NoRow}]
    /\ files \in [Txs -> Nat]
    /\ signers \in [Txs -> SUBSET Users]

\* "Balance may NEVER go negative": the money booked on a case never falls below
\* zero, however requests interleave.  It rests on every balance-lowering path
\* re-reading the balance under the case lock.
BalanceNonNegative == \A c \in Cases : TotalBalance(c) >= 0

\* The ledger implements the account: seen as one balance per case, every step of
\* every interleaving moves one transaction's amount on one case, or nothing.
Account == INSTANCE TrustAccount WITH balance <- [c \in Cases |-> TotalBalance(c)]

ImplementsAccount == Account!Spec

\* Four eyes, whatever the interleaving: two people other than the creator have
\* signed for every booked transaction that needs approval.
NeedsApproval(t) ==
    \/ ledger[t].kind \in Debits
    \/ ledger[t].kind = "reversal" /\ ledger[ledger[t].reverses].kind \in Debits

TwoOthersSigned ==
    ~SelfApprovalAllowed =>
        \A t \in Txs : NeedsApproval(t) /\ ledger[t].status = "approved" =>
            \E u, v \in signers[t] \ {ledger[t].by} : u # v

\* The inductive invariant behind the three properties above.  Rows: only debits
\* and their stornos wait for approval, and a storno points at an existing row
\* that is no storno itself; an offset names its invoice.
RowWellFormed(t) ==
    /\ ledger[t].status = "pending_approval" =>
          \/ ledger[t].kind \in Debits
          \/ ledger[t].kind = "reversal" /\ NeedsApproval(t)
    /\ ledger[t].kind = "reversal" =>
          /\ ledger[t].reverses \in Txs
          /\ ledger[ledger[t].reverses].kind \in Debits \cup {"deposit"}
    /\ ledger[t].kind = "offset_to_invoice" => ledger[t].inv \in Invoices

RowsWellFormed == \A t \in Txs : RowWellFormed(t)

\* Requests: a request that has loaded a row works on a row that exists, of the kind
\* its handler accepts.
RequestWellFormed(r) ==
    /\ req[r].op \in {"approve", "reject"} => NeedsApproval(req[r].tx)
    /\ req[r].op = "book" => ledger[req[r].tx].kind = "offset_to_invoice"
    /\ req[r].op = "storno" => ledger[req[r].tx].kind = "reversal" /\ NeedsApproval(req[r].tx)
    /\ req[r].op = "reverse" => ledger[req[r].tx].kind \in Debits \cup {"deposit"}
    /\ req[r].op = "export" => \A t \in req[r].batch : ledger[t].kind = "disbursement"

RequestsWellFormed == \A r \in Requests : RequestWellFormed(r)

\* The lock: two requests never hold the row of one case.
LockExclusive ==
    \A r, s \in Requests :
        req[r].op = "book" /\ req[s].op = "book"
          /\ ledger[req[r].tx].case = ledger[req[s].tx].case => r = s

\* While a request holds the lock, the money it checked for stays there: without
\* its own transaction the balance still covers it.
BookingCovered ==
    \A r \in Requests : req[r].op = "book" =>
        LET t == req[r].tx
            c == ledger[t].case
        IN  SumOf(Deposited(c), LedgerAmount)
              >= SumOf(Debited(c) \ {t}, LedgerAmount) + ledger[t].amount

BalanceInv ==
    /\ TypeOK
    /\ RowsWellFormed
    /\ RequestsWellFormed
    /\ LockExclusive
    /\ BookingCovered
    /\ BalanceNonNegative

\* For four eyes: nobody signs a row that does not exist, the columns and the
\* requests only name people who signed, and whoever signs is not the creator.
SignersInv ==
    ~SelfApprovalAllowed =>
        /\ \A t \in Txs : /\ Free(t) => signers[t] = {}
                          /\ ledger[t].by \notin signers[t]
                          /\ ledger[t].app1 # NoUser => ledger[t].app1 \in signers[t]
        /\ \A r \in Requests :
              /\ req[r].op \in {"approve", "book", "storno"} =>
                    req[r].user # ledger[req[r].tx].by
              /\ req[r].op = "approve" /\ req[r].app1 # NoUser =>
                    req[r].app1 \in signers[req[r].tx]
              /\ req[r].op \in {"book", "storno"} =>
                    \E v \in signers[req[r].tx] : v # req[r].user

-----------------------------------------------------------------------------
(* What holds as long as requests do not overlap.                          *)

\* Pending debits are reserved: as long as requests do not overlap, what is booked
\* covers every debit still waiting for approval.
AvailableNonNegative == \A c \in Cases : Available(c) >= 0

\* One request at a time, the two approval columns of a booked debit name two
\* people, neither of them its creator.
FourEyesRecorded ==
    ~SelfApprovalAllowed =>
        \A t \in Txs : NeedsApproval(t) /\ ledger[t].status = "approved" =>
            /\ NoUser \notin {ledger[t].app1, ledger[t].app2}
            /\ Cardinality({ledger[t].by, ledger[t].app1, ledger[t].app2}) = 3

\* An approved offset is booked on its invoice once.
OffsetBookedOnce == \A p, q \in payments : p.ref # NoTx /\ p.ref = q.ref => p = q

\* A payment that refers to an offset is the one booking of an approved, unreversed
\* offset of the same amount on the same invoice.
PaymentsBackedByOffsets ==
    /\ OffsetBookedOnce
    /\ \A p \in payments : p.ref # NoTx =>
        /\ Booked(p.ref)
        /\ ledger[p.ref].inv = p.inv
        /\ ledger[p.ref].amount = p.amount

\* A storno and its original agree: an original has at most one live storno, and
\* it is marked reversed by it exactly when that storno is approved.
StornoMatchesOriginal ==
    \A t \in Txs :
        /\ Cardinality(LiveReversals(t)) <= 1
        /\ \A x \in Txs : ledger[t].reversedBy = x
                            <=> ledger[x].reverses = t /\ ledger[x].status = "approved"

\* Transactions are immutable: once approved, a row changes only by being exported
\* or by being marked reversed, once.
ApprovedRowsAreImmutable ==
    [][\A t \in Txs : ledger[t].status = "approved" =>
          /\ [ledger'[t] EXCEPT !.exported = ledger[t].exported,
                                !.reversedBy = ledger[t].reversedBy] = ledger[t]
          /\ ledger[t].reversedBy # NoTx => ledger'[t].reversedBy = ledger[t].reversedBy]_vars

\* "re-export of the same lines is impossible": a disbursement is in at most one
\* SEPA file.
ExportedOnce == \A t \in Txs : files[t] <= 1

=============================================================================
