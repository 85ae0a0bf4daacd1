--------------------------- MODULE TrustLedgerProofs ---------------------------
(***************************************************************************)
(* Proofs about TrustLedger for every set of requests, cases, users,       *)
(* invoices and transactions (finitely many transactions): well-formed     *)
(* rows, "Balance may NEVER go negative", and four eyes on every payment   *)
(* out, with any number of overlapping requests.                           *)
(***************************************************************************)
EXTENDS TrustLedger, MoneyLemmas

\* The part of the inductive invariant that speaks of the shape of rows and requests.
StructInv == TypeOK /\ RowsWellFormed /\ RequestsWellFormed

-----------------------------------------------------------------------------
(* What the type invariant says of one row and one request.                *)

\* A slot of the ledger is free, or holds a row with every column typed.
LEMMA RowType ==
    ASSUME TypeOK, NEW t \in Txs
    PROVE  /\ ledger[t] = NoRow \/ ledger[t] \in TxRow
           /\ ledger[t].kind # "none" => ledger[t] \in TxRow
           /\ ledger[t].status # "none" => ledger[t] \in TxRow
           /\ ledger[t] \in TxRow => ledger[t].kind # "none" /\ ledger[t].status # "none"
<1>1. ledger[t] \in TxRow \cup {NoRow}
  BY DEF TypeOK
<1>2. NoRow.kind = "none" /\ NoRow.status = "none"
  BY DEF NoRow
<1>3. ledger[t] \in TxRow => ledger[t].kind # "none" /\ ledger[t].status # "none"
  BY DEF TxRow, Debits
<1> QED BY <1>1, <1>2, <1>3

\* The fields of a request, by what it is doing.
LEMMA RequestType ==
    ASSUME TypeOK, NEW r \in Requests
    PROVE  /\ req[r].op \in {"approve", "book", "storno", "reverse", "reject"} =>
                req[r].tx \in Txs
           /\ req[r].op \in {"approve", "book", "storno", "reverse"} =>
                req[r].user \in Users
           /\ req[r].op = "approve" =>
                /\ req[r].app1 \in Users \cup {NoUser}
                /\ req[r].app2 \in Users \cup {NoUser}
           /\ req[r].op = "book" => req[r].status \in InvoiceStatus /\ req[r].paid \in Nat
           /\ req[r].op = "export" => req[r].batch \subseteq Txs
           /\ req[r].op = "pay" => /\ req[r].inv \in Invoices
                                   /\ req[r].amount \in Amounts
                                   /\ req[r].status \in InvoiceStatus
                                   /\ req[r].paid \in Nat
           /\ req[r].op = "unpay" => req[r].row \in PaymentRow /\ req[r].status \in InvoiceStatus
           /\ req[r].op = "status" => /\ req[r].inv \in Invoices
                                      /\ req[r].status \in InvoiceStatus
                                      /\ req[r].new \in InvoiceStatus
<1>1. req[r] \in BookRequest \cup TrustRequest
  BY DEF TypeOK
<1> QED BY <1>1 DEF BookRequest, TrustRequest

-----------------------------------------------------------------------------
(* The invoice book: what its helpers return, and that its steps are typed. *)

\* What is paid on an invoice is a natural number.
LEMMA PaidType ==
    ASSUME TypeOK, NEW i \in Invoices
    PROVE  Paid(i) \in Nat
<1>1. PaymentsOn(i) \subseteq payments /\ IsFiniteSet(payments)
  BY DEF PaymentsOn, TypeOK, BookTypeOK
<1>2. IsFiniteSet(PaymentsOn(i))
  BY <1>1, FS_Subset
<1> QED BY <1>2, SumType DEF Paid

\* _update_invoice_payment_status maps statuses to statuses.
LEMMA StatusAfterType ==
    ASSUME NEW i, NEW status \in InvoiceStatus, NEW paid
    PROVE  StatusAfter(i, status, paid) \in InvoiceStatus
BY DEF StatusAfter, InvoiceStatus

\* Writing a status keeps the invoice table typed.
LEMMA WriteStatusType ==
    ASSUME TypeOK, NEW i \in Invoices, NEW loaded, NEW new \in InvoiceStatus,
           WriteStatus(i, loaded, new)
    PROVE  invoice' \in [Invoices -> [status : InvoiceStatus, active : BOOLEAN]]
<1>1. invoice \in [Invoices -> [status : InvoiceStatus, active : BOOLEAN]]
  BY DEF TypeOK, BookTypeOK
<1>2. CASE new = loaded
  BY <1>1, <1>2 DEF WriteStatus
<1>3. CASE new # loaded
  BY <1>1, <1>3 DEF WriteStatus
<1> QED BY <1>2, <1>3

\* Adding a payment row with a fresh id, or dropping rows, keeps the rows typed.
LEMMA AddPaymentType ==
    ASSUME TypeOK, NEW p \in PaymentRow, FreshId(p.id), payments' = payments \cup {p}
    PROVE  /\ payments' \subseteq PaymentRow
           /\ IsFiniteSet(payments')
           /\ \A q, s \in payments' : q.id = s.id => q = s
<1>1. IsFiniteSet(payments')
  BY FS_AddElement DEF TypeOK, BookTypeOK
<1> QED BY <1>1 DEF TypeOK, BookTypeOK, FreshId

LEMMA DropPaymentsType ==
    ASSUME TypeOK, NEW gone, payments' = payments \ gone
    PROVE  /\ payments' \subseteq PaymentRow
           /\ IsFiniteSet(payments')
           /\ \A q, s \in payments' : q.id = s.id => q = s
<1>1. payments' \subseteq payments
  OBVIOUS
<1>2. IsFiniteSet(payments')
  BY <1>1, FS_Subset DEF TypeOK, BookTypeOK
<1> QED BY <1>1, <1>2 DEF TypeOK, BookTypeOK

\* A request that loads, advances or ends leaves the other slots alone.
LEMMA ReqUpdate ==
    ASSUME TypeOK, NEW r \in Requests, NEW seen \in BookRequest \cup TrustRequest,
           req' = [req EXCEPT ![r] = seen]
    PROVE  /\ req' \in [Requests -> BookRequest \cup TrustRequest]
           /\ req'[r] = seen
           /\ \A s \in Requests \ {r} : req'[s] = req[s]
BY DEF TypeOK

LEMMA IdleType == Idle \in BookRequest /\ Idle.op = "idle"
BY DEF Idle, BookRequest

\* What the requests of the book do to the other requests: nothing, and the slot
\* they use never holds a request of the trust ledger afterwards.
BookOps == {"idle", "pay", "unpay", "status"}

BookFrame ==
    /\ req' \in [Requests -> BookRequest \cup TrustRequest]
    /\ \A r \in Requests : req'[r] = req[r] \/ req'[r].op \in BookOps

LEMMA BookStepType ==
    ASSUME TypeOK, BookNext
    PROVE  BookTypeOK' /\ BookFrame
<1>1. ASSUME NEW r \in Requests, NEW i \in Invoices, NEW a \in Amounts, BeginPay(r, i, a)
      PROVE  BookTypeOK' /\ BookFrame
  <2> DEFINE seen == [op |-> "pay", inv |-> i, amount |-> a,
                      status |-> invoice[i].status, paid |-> Paid(i)]
  <2>1. seen \in BookRequest /\ seen.op \in BookOps
    BY PaidType DEF BookRequest, BookOps, TypeOK, BookTypeOK
  <2>2. req' = [req EXCEPT ![r] = seen] /\ UNCHANGED bookVars
    BY <1>1 DEF BeginPay, Load
  <2> QED BY <2>1, <2>2, ReqUpdate DEF TypeOK, BookTypeOK, bookVars, BookFrame
<1>2. ASSUME NEW r \in Requests, Pay(r)
      PROVE  BookTypeOK' /\ BookFrame
  <2>1. req[r].inv \in Invoices /\ req[r].amount \in Amounts /\ req[r].status \in InvoiceStatus
    BY <1>2, RequestType DEF Pay
  <2>2. PICK id \in PaymentIds :
          /\ FreshId(id)
          /\ payments' = payments \cup
                {[id |-> id, inv |-> req[r].inv, amount |-> req[r].amount, ref |-> NoTx]}
    BY <1>2 DEF Pay
  <2>3. [id |-> id, inv |-> req[r].inv, amount |-> req[r].amount, ref |-> NoTx] \in PaymentRow
    BY <2>1 DEF PaymentRow
  <2>4. /\ payments' \subseteq PaymentRow
        /\ IsFiniteSet(payments')
        /\ \A q, s \in payments' : q.id = s.id => q = s
    BY <2>2, <2>3, AddPaymentType
  <2>5. invoice' \in [Invoices -> [status : InvoiceStatus, active : BOOLEAN]]
    BY <1>2, <2>1, StatusAfterType, WriteStatusType DEF Pay
  <2>6. BookFrame
    BY <1>2, IdleType, ReqUpdate DEF Pay, Done, BookFrame, BookOps
  <2> QED BY <2>4, <2>5, <2>6 DEF BookTypeOK
<1>3. ASSUME NEW r \in Requests, NEW p \in payments, BeginUnpay(r, p)
      PROVE  BookTypeOK' /\ BookFrame
  <2> DEFINE seen == [op |-> "unpay", row |-> p, status |-> invoice[p.inv].status]
  <2>1. seen \in BookRequest /\ seen.op \in BookOps
    BY DEF BookRequest, BookOps, TypeOK, BookTypeOK, PaymentRow
  <2>2. req' = [req EXCEPT ![r] = seen] /\ UNCHANGED bookVars
    BY <1>3 DEF BeginUnpay, Load
  <2> QED BY <2>1, <2>2, ReqUpdate DEF TypeOK, BookTypeOK, bookVars, BookFrame
<1>4. ASSUME NEW r \in Requests, Unpay(r)
      PROVE  BookTypeOK' /\ BookFrame
  <2>1. req[r].row.inv \in Invoices /\ req[r].status \in InvoiceStatus
    BY <1>4, RequestType DEF Unpay, PaymentRow
  <2>2. payments' = payments \ {req[r].row}
    BY <1>4 DEF Unpay
  <2>3. invoice' \in [Invoices -> [status : InvoiceStatus, active : BOOLEAN]]
    BY <1>4, <2>1, StatusAfterType, WriteStatusType DEF Unpay
  <2>4. BookFrame
    BY <1>4, IdleType, ReqUpdate DEF Unpay, Done, BookFrame, BookOps
  <2> QED BY <2>2, <2>3, <2>4, DropPaymentsType DEF BookTypeOK
<1>5. ASSUME NEW r \in Requests, NEW i \in Invoices, NEW new \in InvoiceStatus,
             BeginStatus(r, i, new)
      PROVE  BookTypeOK' /\ BookFrame
  <2> DEFINE seen == [op |-> "status", inv |-> i, status |-> invoice[i].status, new |-> new]
  <2>1. seen \in BookRequest /\ seen.op \in BookOps
    BY DEF BookRequest, BookOps, TypeOK, BookTypeOK
  <2>2. req' = [req EXCEPT ![r] = seen] /\ UNCHANGED bookVars
    BY <1>5 DEF BeginStatus, Load
  <2> QED BY <2>1, <2>2, ReqUpdate DEF TypeOK, BookTypeOK, bookVars, BookFrame
<1>6. ASSUME NEW r \in Requests, ChangeStatus(r)
      PROVE  BookTypeOK' /\ BookFrame
  <2>1. req[r].inv \in Invoices /\ req[r].new \in InvoiceStatus
    BY <1>6, RequestType DEF ChangeStatus
  <2>2. invoice' \in [Invoices -> [status : InvoiceStatus, active : BOOLEAN]]
    BY <1>6, <2>1, WriteStatusType DEF ChangeStatus
  <2>3. BookFrame
    BY <1>6, IdleType, ReqUpdate DEF ChangeStatus, Done, BookFrame, BookOps
  <2> QED BY <1>6, <2>2, <2>3 DEF ChangeStatus, TypeOK, BookTypeOK
<1>7. ASSUME NEW r \in Requests, Abandon(r)
      PROVE  BookTypeOK' /\ BookFrame
  BY <1>7, IdleType, ReqUpdate
     DEF Abandon, Done, BookFrame, BookOps, TypeOK, BookTypeOK, bookVars
<1>8. ASSUME NEW i \in Invoices, DeleteInvoice(i)
      PROVE  BookTypeOK' /\ BookFrame
  BY <1>8 DEF DeleteInvoice, BookFrame, TypeOK, BookTypeOK
<1> QED BY <1>1, <1>2, <1>3, <1>4, <1>5, <1>6, <1>7, <1>8 DEF BookNext

-----------------------------------------------------------------------------
(* What one step does to the rows.  Existing: the columns that say what the  *)
(* row is stay, and nothing becomes pending.  Created: a free slot gets a    *)
(* row that may wait for approval only if it needs approval.                 *)

Existing(t) ==
    /\ ledger'[t].kind = ledger[t].kind
    /\ ledger'[t].case = ledger[t].case
    /\ ledger'[t].amount = ledger[t].amount
    /\ ledger'[t].by = ledger[t].by
    /\ ledger'[t].inv = ledger[t].inv
    /\ ledger'[t].reverses = ledger[t].reverses
    /\ ledger'[t].status # ledger[t].status => ledger'[t].status \in {"approved", "rejected"}

Created(t) ==
    /\ ledger[t].kind = "none"
    /\ ledger'[t].kind = "offset_to_invoice" => ledger'[t].inv \in Invoices
    /\ \/ ledger'[t].kind \in Debits
       \/ ledger'[t].kind = "deposit" /\ ledger'[t].status = "approved"
       \/ /\ ledger'[t].kind = "reversal"
          /\ ledger'[t].reverses \in Txs
          /\ \/ ledger[ledger'[t].reverses].kind \in Debits
             \/ /\ ledger[ledger'[t].reverses].kind = "deposit"
                /\ ledger'[t].status = "approved"

LedgerStep == \A t \in Txs : Existing(t) \/ Created(t)

RequestStep ==
    \A r \in Requests :
        req'[r] = req[r] \/ req'[r].op \in BookOps \/ RequestWellFormed(r)'

\* A transaction that needs approval keeps needing it.
LEMMA NeedsApprovalKept ==
    ASSUME StructInv, LedgerStep, NEW t \in Txs, NeedsApproval(t)
    PROVE  NeedsApproval(t)'
<1>1. ASSUME NEW x \in Txs, ledger[x].kind # "none"
      PROVE  Existing(x)
  BY <1>1 DEF LedgerStep, Created
<1>2. CASE ledger[t].kind \in Debits
  BY <1>1, <1>2 DEF Debits, Existing, NeedsApproval
<1>3. CASE ledger[t].kind = "reversal" /\ ledger[ledger[t].reverses].kind \in Debits
  <2>1. ledger[t].reverses \in Txs
    BY <1>3 DEF StructInv, RowsWellFormed, RowWellFormed
  <2>2. Existing(t) /\ Existing(ledger[t].reverses)
    BY <1>1, <1>3, <2>1 DEF Debits
  <2> QED BY <1>3, <2>2 DEF Existing, NeedsApproval
<1> QED BY <1>2, <1>3 DEF NeedsApproval

\* Steps of this kind keep rows and requests well formed.
LEMMA StructKept ==
    ASSUME StructInv, TypeOK', LedgerStep, RequestStep
    PROVE  StructInv'
<1> DEFINE StillNeeds(t) ==
      \/ ledger'[t].kind \in Debits
      \/ ledger'[t].kind = "reversal" /\ ledger'[ledger'[t].reverses].kind \in Debits
<1>1. ASSUME NEW x \in Txs, ledger[x].kind # "none"
      PROVE  Existing(x)
  BY <1>1 DEF LedgerStep, Created
<1>2. \A t \in Txs : NeedsApproval(t) => StillNeeds(t)
  BY NeedsApprovalKept DEF NeedsApproval
<1>3. RowsWellFormed'
  <2> SUFFICES ASSUME NEW t \in Txs
               PROVE  /\ ledger'[t].status = "pending_approval" => StillNeeds(t)
                      /\ ledger'[t].kind = "reversal" =>
                            /\ ledger'[t].reverses \in Txs
                            /\ ledger'[ledger'[t].reverses].kind \in Debits \cup {"deposit"}
                      /\ ledger'[t].kind = "offset_to_invoice" => ledger'[t].inv \in Invoices
    BY DEF RowsWellFormed, RowWellFormed, NeedsApproval
  <2>0. RowWellFormed(t)
    BY DEF StructInv, RowsWellFormed
  <2>1. CASE Existing(t)
    <3>1. ASSUME ledger'[t].kind = "reversal"
          PROVE  /\ ledger'[t].reverses \in Txs
                 /\ ledger'[ledger'[t].reverses].kind \in Debits \cup {"deposit"}
      <4>1. /\ ledger[t].reverses \in Txs
            /\ ledger[ledger[t].reverses].kind \in Debits \cup {"deposit"}
        BY <2>0, <2>1, <3>1 DEF Existing, RowWellFormed
      <4>2. Existing(ledger[t].reverses)
        BY <1>1, <4>1 DEF Debits
      <4> QED BY <2>1, <4>1, <4>2 DEF Existing
    <3>2. ASSUME ledger'[t].status = "pending_approval"
          PROVE  StillNeeds(t)
      <4>1. ledger[t].status = "pending_approval"
        BY <2>1, <3>2 DEF Existing
      <4>2. NeedsApproval(t)
        BY <2>0, <4>1 DEF RowWellFormed, NeedsApproval
      <4> QED BY <1>2, <4>2
    <3>3. ledger'[t].kind = "offset_to_invoice" => ledger'[t].inv \in Invoices
      BY <2>0, <2>1 DEF Existing, RowWellFormed
    <3> QED BY <3>1, <3>2, <3>3
  <2>2. CASE Created(t)
    <3>1. ASSUME ledger'[t].kind = "reversal"
          PROVE  ledger'[t].reverses \in Txs /\ Existing(ledger'[t].reverses)
      BY <1>1, <2>2, <3>1 DEF Created, Debits
    <3> QED BY <2>2, <3>1 DEF Created, Existing, Debits
  <2> QED BY <2>1, <2>2 DEF LedgerStep
<1>4. RequestsWellFormed'
  <2> SUFFICES ASSUME NEW r \in Requests
               PROVE  RequestWellFormed(r)'
    BY DEF RequestsWellFormed
  <2>1. CASE req'[r] = req[r]
    <3>1. RequestWellFormed(r)
      BY DEF StructInv, RequestsWellFormed
    <3>2. TypeOK
      BY DEF StructInv
    <3>3. req[r].op \in {"approve", "reject", "storno"} => StillNeeds(req[r].tx)
      BY <1>2, <3>1, <3>2, RequestType DEF RequestWellFormed
    <3>4. req[r].op \in {"book", "storno", "reverse"} => Existing(req[r].tx)
      BY <1>1, <3>1, <3>2, RequestType DEF RequestWellFormed, Debits
    <3>5. req[r].op = "export" => \A t \in req[r].batch : Existing(t)
      BY <1>1, <3>1, <3>2, RequestType DEF RequestWellFormed
    <3> QED BY <2>1, <3>1, <3>3, <3>4, <3>5 DEF RequestWellFormed, Existing, NeedsApproval
  <2>2. CASE req'[r].op \in BookOps
    BY <2>2 DEF BookOps, RequestWellFormed
  <2> QED BY <2>1, <2>2 DEF RequestStep
<1> QED BY <1>3, <1>4 DEF StructInv

-----------------------------------------------------------------------------
(* Every action of the trust ledger is such a step.                        *)

Shape == TypeOK' /\ LedgerStep /\ RequestStep

\* A step that leaves rows and payments alone and loads a well-formed request.
LEMMA LoadShape ==
    ASSUME StructInv, NEW r \in Requests, NEW seen \in TrustRequest,
           req' = [req EXCEPT ![r] = seen], UNCHANGED <<bookVars, trustVars>>,
           RequestWellFormed(r)' \/ seen.op \in BookOps
    PROVE  Shape
<1>1. /\ req' \in [Requests -> BookRequest \cup TrustRequest]
      /\ req'[r] = seen
      /\ \A s \in Requests \ {r} : req'[s] = req[s]
  BY ReqUpdate DEF StructInv
<1>2. TypeOK'
  BY <1>1 DEF StructInv, TypeOK, BookTypeOK, bookVars, trustVars
<1>3. LedgerStep
  BY DEF LedgerStep, Existing, trustVars
<1>4. RequestStep
  BY <1>1 DEF RequestStep
<1> QED BY <1>2, <1>3, <1>4 DEF Shape

\* A step that ends request r, with typed rows and payments.
LEMMA DoneShape ==
    ASSUME StructInv, NEW r \in Requests, Done(r), BookTypeOK',
           ledger' \in [Txs -> TxRow \cup {NoRow}], files' \in [Txs -> Nat],
           signers' \in [Txs -> SUBSET Users],
           LedgerStep
    PROVE  Shape
<1>1. /\ req' \in [Requests -> BookRequest \cup TrustRequest]
      /\ req'[r] = Idle
      /\ \A s \in Requests \ {r} : req'[s] = req[s]
  BY ReqUpdate, IdleType DEF StructInv, Done
<1>2. TypeOK'
  BY <1>1 DEF TypeOK
<1>3. RequestStep
  BY <1>1, IdleType DEF RequestStep, BookOps
<1> QED BY <1>2, <1>3 DEF Shape

\* What Row builds.
LEMMA NewRowType ==
    ASSUME NEW kind \in Debits \cup {"deposit", "reversal"},
           NEW status \in {"pending_approval", "approved", "rejected"},
           NEW a \in Amounts, NEW c \in Cases, NEW u \in Users
    PROVE  /\ Row(kind, status, a, c, u) \in TxRow
           /\ Row(kind, status, a, c, u).kind = kind
           /\ Row(kind, status, a, c, u).status = status
           /\ Row(kind, status, a, c, u).case = c
           /\ Row(kind, status, a, c, u).amount = a
BY DEF Row, NoRow, TxRow

\* Filling a free slot with a typed row.
LEMMA FillType ==
    ASSUME TypeOK, NEW t \in Txs, Free(t), NEW row \in TxRow,
           ledger' = [ledger EXCEPT ![t] = row]
    PROVE  /\ ledger' \in [Txs -> TxRow \cup {NoRow}]
           /\ ledger'[t] = row
           /\ ledger[t].kind = "none"
           /\ \A s \in Txs \ {t} : ledger'[s] = ledger[s]
BY DEF TypeOK, Free, NoRow

\* create_transaction and create_offset_to_invoice.
LEMMA CreateShape ==
    ASSUME StructInv, Create
    PROVE  Shape
<1>0. TypeOK
  BY DEF StructInv
<1>1. PICK t \in Txs, c \in Cases, u \in Users, a \in Amounts :
        \/ CreateDeposit(t, c, u, a)
        \/ CreateDisbursement(t, c, u, a)
        \/ \E i \in Invoices : CreateOffset(t, c, u, a, i)
  BY DEF Create
<1>2. ASSUME NEW row \in TxRow, Free(t), ledger' = [ledger EXCEPT ![t] = row],
             \/ row.kind \in Debits
             \/ row.kind = "deposit" /\ row.status = "approved",
             row.kind = "offset_to_invoice" => row.inv \in Invoices,
             UNCHANGED <<bookVars, req, files, signers>>
      PROVE  Shape
  <2>1. /\ ledger' \in [Txs -> TxRow \cup {NoRow}]
        /\ ledger'[t] = row
        /\ ledger[t].kind = "none"
        /\ \A s \in Txs \ {t} : ledger'[s] = ledger[s]
    BY <1>0, <1>2, FillType
  <2>2. TypeOK'
    BY <1>0, <1>2, <2>1 DEF TypeOK, BookTypeOK, bookVars
  <2>3. LedgerStep
    <3>1. Created(t)
      BY <1>2, <2>1 DEF Created
    <3>2. \A s \in Txs \ {t} : Existing(s)
      BY <2>1 DEF Existing
    <3> QED BY <3>1, <3>2 DEF LedgerStep
  <2>4. RequestStep
    BY <1>2 DEF RequestStep
  <2> QED BY <2>2, <2>3, <2>4 DEF Shape
<1>3. CASE CreateDeposit(t, c, u, a)
  <2> DEFINE row == Row("deposit", "approved", a, c, u)
  <2>1. row \in TxRow /\ row.kind = "deposit" /\ row.status = "approved"
    BY NewRowType
  <2> QED BY <1>2, <1>3, <2>1 DEF CreateDeposit
<1>4. CASE CreateDisbursement(t, c, u, a)
  <2> DEFINE row == Row("disbursement", "pending_approval", a, c, u)
  <2>1. row \in TxRow /\ row.kind \in Debits /\ row.kind # "offset_to_invoice"
    BY NewRowType DEF Debits
  <2> QED BY <1>2, <1>4, <2>1 DEF CreateDisbursement
<1>5. ASSUME NEW i \in Invoices, CreateOffset(t, c, u, a, i)
      PROVE  Shape
  <2> DEFINE row == [Row("offset_to_invoice", "pending_approval", a, c, u) EXCEPT !.inv = i]
  <2>1. row \in TxRow /\ row.kind \in Debits /\ row.inv = i
    <3>1. Row("offset_to_invoice", "pending_approval", a, c, u) \in TxRow
      BY NewRowType DEF Debits
    <3> QED BY <3>1 DEF Row, NoRow, TxRow, Debits
  <2> QED BY <1>2, <1>5, <2>1 DEF CreateOffset
<1> QED BY <1>1, <1>3, <1>4, <1>5

\* A step that changes one row.
LEMMA OneRowStep ==
    ASSUME NEW t \in Txs, Existing(t) \/ Created(t),
           \A s \in Txs \ {t} : ledger'[s] = ledger[s]
    PROVE  LedgerStep
<1>1. \A s \in Txs \ {t} : Existing(s)
  BY DEF Existing
<1> QED BY <1>1 DEF LedgerStep

\* The row a request works on has every column.
LEMMA RequestRow ==
    ASSUME StructInv, NEW r \in Requests,
           req[r].op \in {"approve", "book", "storno", "reverse", "reject"}
    PROVE  req[r].tx \in Txs /\ ledger[req[r].tx] \in TxRow
<1>1. TypeOK /\ RequestWellFormed(r)
  BY DEF StructInv, RequestsWellFormed
<1>2. req[r].tx \in Txs
  BY <1>1, RequestType
<1>3. ledger[req[r].tx].kind # "none"
  BY <1>1 DEF RequestWellFormed, NeedsApproval, Debits
<1> QED BY <1>1, <1>2, <1>3, RowType

\* A signature keeps the history typed.
LEMMA SignType ==
    ASSUME TypeOK, NEW t \in Txs, NEW u \in Users,
           signers' = [signers EXCEPT ![t] = @ \cup {u}]
    PROVE  signers' \in [Txs -> SUBSET Users]
BY DEF TypeOK

\* The row after its second approval.
LEMMA ApprovedType ==
    ASSUME NEW t \in Txs, ledger[t] \in TxRow, NEW u \in Users
    PROVE  /\ Approved(t, u) \in TxRow
           /\ Approved(t, u) = [ledger[t] EXCEPT !.app2 = u, !.status = "approved"]
           /\ Approved(t, u).kind = ledger[t].kind
           /\ Approved(t, u).case = ledger[t].case
           /\ Approved(t, u).amount = ledger[t].amount
           /\ Approved(t, u).by = ledger[t].by
           /\ Approved(t, u).inv = ledger[t].inv
           /\ Approved(t, u).reverses = ledger[t].reverses
           /\ Approved(t, u).reversedBy = ledger[t].reversedBy
           /\ Approved(t, u).app1 = ledger[t].app1
           /\ Approved(t, u).app2 = u
           /\ Approved(t, u).status = "approved"
BY DEF Approved, TxRow

\* Replacing one row by a typed one.
LEMMA ReplaceType ==
    ASSUME TypeOK, NEW t \in Txs, NEW row \in TxRow, ledger' = [ledger EXCEPT ![t] = row]
    PROVE  /\ ledger' \in [Txs -> TxRow \cup {NoRow}]
           /\ ledger'[t] = row
           /\ \A s \in Txs \ {t} : ledger'[s] = ledger[s]
BY DEF TypeOK

\* approve_transaction: the paths that change one row and end.
LEMMA SecondApprovalShape ==
    ASSUME StructInv, NEW r \in Requests, NEW u \in Users, NEW t \in Txs,
           ledger[t] \in TxRow, ledger' = [ledger EXCEPT ![t] = Approved(t, u)],
           signers' = [signers EXCEPT ![t] = @ \cup {u}],
           Done(r), UNCHANGED files, BookTypeOK'
    PROVE  Shape
<1>0. TypeOK
  BY DEF StructInv
<1>1. /\ ledger' \in [Txs -> TxRow \cup {NoRow}]
      /\ ledger'[t] = Approved(t, u)
      /\ \A s \in Txs \ {t} : ledger'[s] = ledger[s]
  BY <1>0, ApprovedType, ReplaceType
<1>2. Existing(t)
  BY <1>1, ApprovedType, ZenonT(60) DEF Existing
<1>3. LedgerStep
  BY <1>1, <1>2, OneRowStep
<1>4. signers' \in [Txs -> SUBSET Users]
  BY <1>0, SignType
<1>5. files' \in [Txs -> Nat]
  BY <1>0 DEF TypeOK
<1> QED BY <1>1, <1>3, <1>4, <1>5, DoneShape

LEMMA FirstApprovalShape ==
    ASSUME StructInv, NEW r \in Requests, FirstApproval(r)
    PROVE  Shape
<1> DEFINE t == req[r].tx
           row == [ledger[t] EXCEPT !.app1 = req[r].user]
<1>0. TypeOK
  BY DEF StructInv
<1>1. t \in Txs /\ ledger[t] \in TxRow /\ req[r].user \in Users
  BY <1>0, RequestRow, RequestType DEF FirstApproval
<1>2. /\ row \in TxRow
      /\ row.kind = ledger[t].kind /\ row.case = ledger[t].case
      /\ row.amount = ledger[t].amount /\ row.by = ledger[t].by
      /\ row.reverses = ledger[t].reverses /\ row.status = ledger[t].status
      /\ row.inv = ledger[t].inv
  BY <1>1 DEF TxRow
<1>3. ledger' = [ledger EXCEPT ![t] = row]
  BY <1>0, <1>1 DEF FirstApproval, TypeOK
<1>4. /\ ledger' \in [Txs -> TxRow \cup {NoRow}]
      /\ ledger'[t] = row
      /\ \A s \in Txs \ {t} : ledger'[s] = ledger[s]
  <2> HIDE DEF t, row
  <2> QED BY <1>0, <1>1, <1>2, <1>3, ReplaceType
<1>5. LedgerStep
  <2>1. Existing(t)
    <3> HIDE DEF row
    <3> QED BY <1>2, <1>4 DEF Existing
  <2> HIDE DEF t, row
  <2> QED BY <1>1, <1>4, <2>1, OneRowStep
<1>6. signers' \in [Txs -> SUBSET Users]
  BY <1>0, <1>1, SignType DEF FirstApproval
<1>7. BookTypeOK' /\ files' \in [Txs -> Nat] /\ Done(r)
  BY <1>0 DEF FirstApproval, TypeOK, BookTypeOK, bookVars
<1> QED BY <1>4, <1>5, <1>6, <1>7, DoneShape

\* The storno and its original are two rows, and both exist.
LEMMA StornoRows ==
    ASSUME StructInv, NEW r \in Requests, req[r].op = "storno"
    PROVE  /\ req[r].tx \in Txs /\ ledger[req[r].tx] \in TxRow
           /\ ledger[req[r].tx].kind = "reversal"
           /\ ledger[req[r].tx].reverses \in Txs
           /\ ledger[ledger[req[r].tx].reverses] \in TxRow
           /\ ledger[ledger[req[r].tx].reverses].kind \in Debits
           /\ req[r].tx # ledger[req[r].tx].reverses
<1>1. TypeOK /\ RequestWellFormed(r)
  BY DEF StructInv, RequestsWellFormed
<1>2. req[r].tx \in Txs /\ ledger[req[r].tx] \in TxRow
  BY RequestRow
<1>3. ledger[req[r].tx].kind = "reversal" /\ NeedsApproval(req[r].tx)
  BY <1>1 DEF RequestWellFormed
<1>4. ledger[ledger[req[r].tx].reverses].kind \in Debits
  BY <1>3 DEF NeedsApproval, Debits
<1>5. ledger[req[r].tx].reverses \in Txs
  BY <1>2, <1>3 DEF StructInv, RowsWellFormed, RowWellFormed
<1>6. ledger[ledger[req[r].tx].reverses] \in TxRow
  BY <1>1, <1>4, <1>5, RowType DEF Debits
<1> QED BY <1>2, <1>3, <1>4, <1>5, <1>6 DEF Debits

\* The rows a finalized reversal writes.
LEMMA FinalizeRows ==
    ASSUME StructInv, NEW r \in Requests, FinalizeReversal(r),
           NEW x \in Txs, x = req[r].tx, NEW t \in Txs, t = ledger[x].reverses
    PROVE  /\ ledger' \in [Txs -> TxRow \cup {NoRow}]
           /\ ledger'[x].status = "approved"
           /\ ledger'[t].status = ledger[t].status /\ ledger'[t].reversedBy = x
           /\ \A s \in Txs \ {x, t} : ledger'[s] = ledger[s]
           /\ Existing(x) /\ Existing(t)
<1>0. TypeOK
  BY DEF StructInv
<1>1. /\ x \in Txs /\ ledger[x] \in TxRow /\ t \in Txs /\ ledger[t] \in TxRow /\ x # t
      /\ req[r].user \in Users
  BY <1>0, StornoRows, RequestType DEF FinalizeReversal
<1>2. /\ Approved(x, req[r].user) \in TxRow
      /\ Approved(x, req[r].user).kind = ledger[x].kind
      /\ Approved(x, req[r].user).case = ledger[x].case
      /\ Approved(x, req[r].user).amount = ledger[x].amount
      /\ Approved(x, req[r].user).by = ledger[x].by
      /\ Approved(x, req[r].user).inv = ledger[x].inv
      /\ Approved(x, req[r].user).reverses = ledger[x].reverses
      /\ Approved(x, req[r].user).status = "approved"
  BY <1>1, ApprovedType, ZenonT(60)
<1>3. [ledger[t] EXCEPT !.reversedBy = x] \in TxRow
  BY <1>1 DEF TxRow
<1>4. ledger' = [ledger EXCEPT ![x] = Approved(x, req[r].user), ![t].reversedBy = x]
  BY DEF FinalizeReversal
<1>5. /\ ledger' \in [Txs -> TxRow \cup {NoRow}]
      /\ ledger'[x] = Approved(x, req[r].user)
      /\ ledger'[t] = [ledger[t] EXCEPT !.reversedBy = x]
      /\ \A s \in Txs \ {x, t} : ledger'[s] = ledger[s]
  BY <1>0, <1>1, <1>2, <1>3, <1>4 DEF TypeOK
<1>6. Existing(x)
  BY <1>2, <1>5 DEF Existing
<1>7. Existing(t)
  BY <1>1, <1>5 DEF Existing, TxRow
<1>8. /\ ledger'[x].status = "approved"
      /\ ledger'[t].status = ledger[t].status /\ ledger'[t].reversedBy = x
  BY <1>1, <1>2, <1>5 DEF TxRow
<1> QED BY <1>5, <1>6, <1>7, <1>8

LEMMA FinalizeShape ==
    ASSUME StructInv, NEW r \in Requests, FinalizeReversal(r)
    PROVE  Shape
<1> SUFFICES ASSUME NEW x, x = req[r].tx, NEW t, t = ledger[x].reverses
             PROVE  Shape
  OBVIOUS
<1>0. TypeOK
  BY DEF StructInv
<1>1. x \in Txs /\ t \in Txs /\ req[r].user \in Users /\ ledger[t] \in TxRow
  BY <1>0, StornoRows, RequestType DEF FinalizeReversal
<1>2. /\ ledger' \in [Txs -> TxRow \cup {NoRow}]
      /\ \A s \in Txs \ {x, t} : ledger'[s] = ledger[s]
      /\ Existing(x) /\ Existing(t)
  BY <1>1, FinalizeRows
<1>3. LedgerStep
  BY <1>2 DEF LedgerStep, Existing
<1>4. signers' \in [Txs -> SUBSET Users]
  BY <1>0, <1>1, SignType DEF FinalizeReversal
<1>5. BookTypeOK'
  <2>1. CASE ledger[t].kind = "offset_to_invoice"
    <3> DEFINE i == ledger[t].inv
    <3>1. Unbook(t)
      BY <2>1 DEF FinalizeReversal
    <3>2. i \in Invoices
      BY <1>1, <2>1 DEF StructInv, RowsWellFormed, RowWellFormed
    <3>3. invoice[i].status \in InvoiceStatus
      BY <1>0, <3>2 DEF TypeOK, BookTypeOK
    <3>4. invoice' \in [Invoices -> [status : InvoiceStatus, active : BOOLEAN]]
      BY <1>0, <3>1, <3>2, <3>3, StatusAfterType, WriteStatusType DEF Unbook
    <3>5. payments' = payments \ {p \in PaymentsOn(i) : p.ref = t}
      BY <3>1 DEF Unbook
    <3> QED BY <1>0, <3>4, <3>5, DropPaymentsType DEF BookTypeOK
  <2>2. CASE ledger[t].kind # "offset_to_invoice"
    BY <1>0, <2>2 DEF FinalizeReversal, TypeOK, BookTypeOK, bookVars
  <2> QED BY <2>1, <2>2
<1>6. files' \in [Txs -> Nat] /\ Done(r)
  BY <1>0 DEF FinalizeReversal, TypeOK
<1> QED BY <1>2, <1>3, <1>4, <1>5, <1>6, DoneShape

LEMMA ApproveShape ==
    ASSUME StructInv, NEW r \in Requests, Approve(r)
    PROVE  Shape
<1>0. TypeOK
  BY DEF StructInv
<1>1. ASSUME NEW u \in Users, NEW t \in Txs, BeginApprove(r, u, t)
      PROVE  Shape
  <2> DEFINE seen == [op |-> "approve", tx |-> t, user |-> u,
                      app1 |-> ledger[t].app1, app2 |-> ledger[t].app2]
  <2>1. ledger[t].status = "pending_approval" /\ ledger[t] \in TxRow
    BY <1>0, <1>1, RowType DEF BeginApprove, MayApprove
  <2>2. seen \in TrustRequest
    BY <2>1 DEF TrustRequest, TxRow
  <2>3. req' = [req EXCEPT ![r] = seen] /\ UNCHANGED <<bookVars, trustVars>>
    BY <1>1 DEF BeginApprove, Load
  <2>4. req'[r] = seen
    BY <1>0, <2>3 DEF TypeOK
  <2>5. RequestWellFormed(r)'
    BY <2>1, <2>3, <2>4
       DEF RequestWellFormed, NeedsApproval, StructInv, RowsWellFormed, RowWellFormed, trustVars
  <2> HIDE DEF seen
  <2> QED BY <2>2, <2>3, <2>5, LoadShape
<1>2. ASSUME FirstApproval(r)
      PROVE  Shape
  BY <1>2, FirstApprovalShape
<1>3. ASSUME SecondApprovalOfDisbursement(r)
      PROVE  Shape
  <2>1. req[r].tx \in Txs /\ ledger[req[r].tx] \in TxRow /\ req[r].user \in Users
    BY <1>0, <1>3, RequestRow, RequestType DEF SecondApprovalOfDisbursement, SecondSlot
  <2>2. BookTypeOK'
    BY <1>0, <1>3 DEF SecondApprovalOfDisbursement, TypeOK, BookTypeOK, bookVars
  <2> QED BY <1>3, <2>1, <2>2, SecondApprovalShape DEF SecondApprovalOfDisbursement
<1>4. ASSUME CheckOffset(r)
      PROVE  Shape
  <2> DEFINE t == req[r].tx
             i == ledger[t].inv
             seen == [op |-> "book", tx |-> t, user |-> req[r].user,
                      status |-> invoice[i].status, paid |-> Paid(i)]
  <2>1. t \in Txs /\ req[r].user \in Users
    BY <1>0, <1>4, RequestType DEF CheckOffset, SecondSlot
  <2>2. i \in Invoices
    BY <1>4, <2>1 DEF CheckOffset, StructInv, RowsWellFormed, RowWellFormed
  <2>3. seen \in TrustRequest
    BY <1>0, <2>1, <2>2, PaidType DEF TrustRequest, TypeOK, BookTypeOK
  <2>4. req' = [req EXCEPT ![r] = seen] /\ UNCHANGED <<bookVars, trustVars>>
    BY <1>4 DEF CheckOffset, Advance
  <2>5. req'[r] = seen
    BY <1>0, <2>4 DEF TypeOK
  <2>6. RequestWellFormed(r)'
    BY <1>4, <2>4, <2>5 DEF RequestWellFormed, CheckOffset, trustVars
  <2> HIDE DEF seen
  <2> QED BY <2>3, <2>4, <2>6, LoadShape
<1>5. ASSUME BookOffset(r)
      PROVE  Shape
  <2> DEFINE t == req[r].tx
             i == ledger[t].inv
  <2>1. t \in Txs /\ ledger[t] \in TxRow /\ req[r].user \in Users /\ req[r].status \in InvoiceStatus
    BY <1>0, <1>5, RequestRow, RequestType DEF BookOffset
  <2>2. i \in Invoices
    BY <1>5, <2>1 DEF BookOffset, StructInv, RowsWellFormed, RowWellFormed, RequestsWellFormed, RequestWellFormed
  <2>3. PICK id \in PaymentIds :
          /\ FreshId(id)
          /\ payments' = payments \cup
                {[id |-> id, inv |-> i, amount |-> ledger[t].amount, ref |-> t]}
    BY <1>5 DEF BookOffset
  <2>4. [id |-> id, inv |-> i, amount |-> ledger[t].amount, ref |-> t] \in PaymentRow
    BY <2>1, <2>2 DEF PaymentRow, TxRow
  <2>5. /\ payments' \subseteq PaymentRow
        /\ IsFiniteSet(payments')
        /\ \A q, s \in payments' : q.id = s.id => q = s
    BY <1>0, <2>3, <2>4, AddPaymentType
  <2>6. WriteStatus(i, req[r].status,
                    StatusAfter(i, req[r].status, req[r].paid + ledger[t].amount))
    BY <1>5 DEF BookOffset
  <2>7. invoice' \in [Invoices -> [status : InvoiceStatus, active : BOOLEAN]]
    BY <1>0, <2>1, <2>2, <2>6, StatusAfterType, WriteStatusType
  <2>8. BookTypeOK'
    BY <2>5, <2>7 DEF BookTypeOK
  <2> QED BY <1>5, <2>1, <2>8, SecondApprovalShape DEF BookOffset
<1>6. ASSUME LoadOriginal(r)
      PROVE  Shape
  <2> DEFINE seen == [op |-> "storno", tx |-> req[r].tx, user |-> req[r].user]
  <2>1. seen \in TrustRequest
    BY <1>0, <1>6, RequestType DEF LoadOriginal, SecondSlot, TrustRequest
  <2>2. req' = [req EXCEPT ![r] = seen] /\ UNCHANGED <<bookVars, trustVars>>
    BY <1>6 DEF LoadOriginal, Advance
  <2>3. req'[r] = seen
    BY <1>0, <2>2 DEF TypeOK
  <2>4. ledger[req[r].tx].kind = "reversal" /\ NeedsApproval(req[r].tx)
    BY <1>6 DEF LoadOriginal, SecondSlot, StructInv, RequestsWellFormed, RequestWellFormed
  <2>5. RequestWellFormed(r)'
    BY <2>2, <2>3, <2>4 DEF RequestWellFormed, NeedsApproval, trustVars
  <2> HIDE DEF seen
  <2> QED BY <2>1, <2>2, <2>5, LoadShape
<1>7. ASSUME FinalizeReversal(r)
      PROVE  Shape
  BY <1>7, FinalizeShape
<1> QED BY <1>1, <1>2, <1>3, <1>4, <1>5, <1>6, <1>7 DEF Approve

\* What Storno builds.
LEMMA StornoType ==
    ASSUME NEW t \in Txs, ledger[t] \in TxRow, NEW u \in Users,
           NEW status \in {"pending_approval", "approved"}
    PROVE  /\ Storno(t, status, u) \in TxRow
           /\ Storno(t, status, u).kind = "reversal"
           /\ Storno(t, status, u).status = status
           /\ Storno(t, status, u).reverses = t
BY DEF Storno, Row, NoRow, TxRow

\* The rows a deposit reversal writes.
LEMMA ReverseDepositRows ==
    ASSUME StructInv, NEW r \in Requests, NEW x \in Txs, ReverseDeposit(r, x),
           NEW t \in Txs, t = req[r].tx
    PROVE  /\ ledger' \in [Txs -> TxRow \cup {NoRow}]
           /\ x # t /\ ledger[t] \in TxRow /\ ledger[x].kind = "none"
           /\ ledger'[x].kind = "reversal" /\ ledger'[x].status = "approved"
           /\ ledger'[t].status = ledger[t].status /\ ledger'[t].reversedBy = x
           /\ \A s \in Txs \ {x, t} : ledger'[s] = ledger[s]
           /\ Existing(t) /\ Created(x)
<1>0. TypeOK
  BY DEF StructInv
<1>1. ledger[t] \in TxRow /\ req[r].user \in Users
  BY <1>0, RequestRow, RequestType DEF ReverseDeposit
<1>2. ledger[x].kind = "none" /\ x # t
  <2>1. ledger[x].kind = "none"
    BY DEF ReverseDeposit, Free, NoRow
  <2> QED BY <2>1 DEF ReverseDeposit
<1>3. PICK row \in TxRow : /\ row = Storno(t, "approved", req[r].user)
                           /\ row.kind = "reversal" /\ row.status = "approved"
                           /\ row.reverses = t
  BY <1>1, StornoType
<1>4. [ledger[t] EXCEPT !.reversedBy = x] \in TxRow
  BY <1>1 DEF TxRow
<1>5. ledger' = [ledger EXCEPT ![x] = row, ![t].reversedBy = x]
  BY <1>3 DEF ReverseDeposit
<1>6. /\ ledger' \in [Txs -> TxRow \cup {NoRow}]
      /\ ledger'[x] = row
      /\ ledger'[t] = [ledger[t] EXCEPT !.reversedBy = x]
      /\ \A s \in Txs \ {x, t} : ledger'[s] = ledger[s]
  BY <1>0, <1>1, <1>2, <1>4, <1>5 DEF TypeOK
<1>7. Existing(t) /\ ledger'[t].status = ledger[t].status /\ ledger'[t].reversedBy = x
  BY <1>1, <1>6 DEF Existing, TxRow
<1>8. Created(x)
  BY <1>2, <1>3, <1>6 DEF Created, ReverseDeposit
<1> QED BY <1>1, <1>2, <1>3, <1>6, <1>7, <1>8

\* reverse_transaction.
LEMMA ReverseShape ==
    ASSUME StructInv, NEW r \in Requests, Reverse(r)
    PROVE  Shape
<1>0. TypeOK
  BY DEF StructInv
<1>1. ASSUME NEW u \in Users, NEW t \in Txs, BeginReverse(r, u, t)
      PROVE  Shape
  <2> DEFINE seen == [op |-> "reverse", tx |-> t, user |-> u]
  <2>1. seen \in TrustRequest
    BY DEF TrustRequest
  <2>2. req' = [req EXCEPT ![r] = seen] /\ UNCHANGED <<bookVars, trustVars>>
    BY <1>1 DEF BeginReverse, Load
  <2>3. req'[r] = seen
    BY <1>0, <2>2 DEF TypeOK
  <2>4. RequestWellFormed(r)'
    BY <1>1, <2>2, <2>3 DEF RequestWellFormed, BeginReverse, MayReverse, trustVars
  <2> HIDE DEF seen
  <2> QED BY <2>1, <2>2, <2>4, LoadShape
<1>2. ASSUME NEW x \in Txs, ReverseDeposit(r, x)
      PROVE  Shape
  <2> SUFFICES ASSUME NEW t, t = req[r].tx
               PROVE  Shape
    OBVIOUS
  <2>1. t \in Txs
    BY <1>0, <1>2, RequestType DEF ReverseDeposit
  <2>2. /\ ledger' \in [Txs -> TxRow \cup {NoRow}]
        /\ \A s \in Txs \ {x, t} : ledger'[s] = ledger[s]
        /\ Existing(t) /\ Created(x)
    BY <1>2, <2>1, ReverseDepositRows
  <2>3. LedgerStep
    BY <2>2 DEF LedgerStep, Existing
  <2>4. /\ BookTypeOK' /\ files' \in [Txs -> Nat]
        /\ signers' \in [Txs -> SUBSET Users] /\ Done(r)
    BY <1>0, <1>2 DEF ReverseDeposit, TypeOK, BookTypeOK, bookVars
  <2> QED BY <2>2, <2>3, <2>4, DoneShape
<1>3. ASSUME NEW x \in Txs, ReverseDebit(r, x)
      PROVE  Shape
  <2>1. req[r].tx \in Txs /\ ledger[req[r].tx] \in TxRow /\ req[r].user \in Users
    BY <1>0, <1>3, RequestRow, RequestType DEF ReverseDebit
  <2>2. PICK row \in TxRow :
          /\ row = Storno(req[r].tx, "pending_approval", req[r].user)
          /\ row.kind = "reversal" /\ row.reverses = req[r].tx
    BY <2>1, StornoType
  <2>3. ledger' = [ledger EXCEPT ![x] = row] /\ Free(x)
    BY <1>3, <2>2 DEF ReverseDebit
  <2>4. /\ ledger' \in [Txs -> TxRow \cup {NoRow}]
        /\ ledger'[x] = row
        /\ ledger[x].kind = "none"
        /\ \A s \in Txs \ {x} : ledger'[s] = ledger[s]
    BY <1>0, <2>3, FillType
  <2>5. Created(x)
    BY <1>3, <2>1, <2>2, <2>4 DEF Created, ReverseDebit
  <2>6. LedgerStep
    BY <2>4, <2>5, OneRowStep
  <2>7. /\ BookTypeOK' /\ files' \in [Txs -> Nat]
        /\ signers' \in [Txs -> SUBSET Users] /\ Done(r)
    BY <1>0, <1>3 DEF ReverseDebit, TypeOK, BookTypeOK, bookVars
  <2> QED BY <2>4, <2>6, <2>7, DoneShape
<1> QED BY <1>1, <1>2, <1>3 DEF Reverse

\* reject_transaction.
LEMMA RejectShape ==
    ASSUME StructInv, NEW r \in Requests,
           (\E t \in Txs : BeginReject(r, t)) \/ Reject(r)
    PROVE  Shape
<1>0. TypeOK
  BY DEF StructInv
<1>1. ASSUME NEW t \in Txs, BeginReject(r, t)
      PROVE  Shape
  <2> DEFINE seen == [op |-> "reject", tx |-> t]
  <2>1. seen \in TrustRequest
    BY DEF TrustRequest
  <2>2. req' = [req EXCEPT ![r] = seen] /\ UNCHANGED <<bookVars, trustVars>>
    BY <1>1 DEF BeginReject, Load
  <2>3. req'[r] = seen
    BY <1>0, <2>2 DEF TypeOK
  <2>4. ledger[t].status = "pending_approval" /\ RowWellFormed(t)
    BY <1>1 DEF BeginReject, MayReject, StructInv, RowsWellFormed
  <2>5. RequestWellFormed(r)'
    BY <2>2, <2>3, <2>4 DEF RequestWellFormed, NeedsApproval, RowWellFormed, trustVars
  <2> HIDE DEF seen
  <2> QED BY <2>1, <2>2, <2>5, LoadShape
<1>2. ASSUME Reject(r)
      PROVE  Shape
  <2> SUFFICES ASSUME NEW t, t = req[r].tx
               PROVE  Shape
    OBVIOUS
  <2>1. t \in Txs /\ ledger[t] \in TxRow
    BY <1>2, RequestRow DEF Reject
  <2> DEFINE row == [ledger[t] EXCEPT !.status = "rejected"]
  <2>2. /\ row \in TxRow
        /\ row.kind = ledger[t].kind /\ row.case = ledger[t].case
        /\ row.amount = ledger[t].amount /\ row.by = ledger[t].by
        /\ row.inv = ledger[t].inv /\ row.reverses = ledger[t].reverses
        /\ row.status = "rejected"
    BY <2>1 DEF TxRow
  <2>3. ledger' = [ledger EXCEPT ![t] = row]
    BY <1>0, <1>2, <2>1 DEF Reject, TypeOK
  <2> HIDE DEF row
  <2>4. /\ ledger' \in [Txs -> TxRow \cup {NoRow}]
        /\ ledger'[t] = row
        /\ \A s \in Txs \ {t} : ledger'[s] = ledger[s]
    BY <1>0, <2>1, <2>2, <2>3, ReplaceType
  <2>5. Existing(t)
    BY <2>2, <2>4 DEF Existing
  <2>6. LedgerStep
    BY <2>1, <2>4, <2>5, OneRowStep
  <2>7. /\ BookTypeOK' /\ files' \in [Txs -> Nat]
        /\ signers' \in [Txs -> SUBSET Users] /\ Done(r)
    BY <1>0, <1>2 DEF Reject, TypeOK, BookTypeOK, bookVars
  <2> QED BY <2>4, <2>6, <2>7, DoneShape
<1> QED BY <1>1, <1>2

\* export_sepa_batch.
LEMMA ExportShape ==
    ASSUME StructInv, NEW r \in Requests,
           (\E batch \in SUBSET Txs : BeginExport(r, batch)) \/ Export(r)
    PROVE  Shape
<1>0. TypeOK
  BY DEF StructInv
<1>1. ASSUME NEW batch \in SUBSET Txs, BeginExport(r, batch)
      PROVE  Shape
  <2> DEFINE seen == [op |-> "export", batch |-> batch]
  <2>1. seen \in TrustRequest
    BY DEF TrustRequest
  <2>2. req' = [req EXCEPT ![r] = seen] /\ UNCHANGED <<bookVars, trustVars>>
    BY <1>1 DEF BeginExport, Load
  <2>3. req'[r] = seen
    BY <1>0, <2>2 DEF TypeOK
  <2>4. RequestWellFormed(r)'
    BY <1>1, <2>2, <2>3 DEF RequestWellFormed, BeginExport, MayExport, trustVars
  <2> HIDE DEF seen
  <2> QED BY <2>1, <2>2, <2>4, LoadShape
<1>2. ASSUME Export(r)
      PROVE  Shape
  <2>1. \A t \in req[r].batch : t \in Txs /\ ledger[t] \in TxRow
    <3>1. req[r].batch \subseteq Txs
      BY <1>0, <1>2, RequestType DEF Export
    <3>2. \A t \in req[r].batch : ledger[t].kind = "disbursement"
      BY <1>2 DEF Export, StructInv, RequestsWellFormed, RequestWellFormed
    <3> QED BY <1>0, <3>1, <3>2, RowType
  <2>2. ASSUME NEW t \in Txs
        PROVE  ledger'[t] \in TxRow \cup {NoRow} /\ Existing(t)
    <3>1. CASE t \in req[r].batch
      <4>1. ledger'[t] = [ledger[t] EXCEPT !.exported = TRUE]
        BY <1>2, <3>1 DEF Export
      <4> QED BY <2>1, <3>1, <4>1 DEF Existing, TxRow
    <3>2. CASE t \notin req[r].batch
      <4>1. ledger'[t] = ledger[t]
        BY <1>2, <3>2 DEF Export
      <4> QED BY <1>0, <4>1 DEF Existing, TypeOK
    <3> QED BY <3>1, <3>2
  <2>3. ledger' \in [Txs -> TxRow \cup {NoRow}]
    <3>1. ledger' = [t \in Txs |-> ledger'[t]]
      BY <1>2 DEF Export
    <3> QED BY <2>2, <3>1
  <2>4. LedgerStep
    BY <2>2 DEF LedgerStep
  <2>5. files' \in [Txs -> Nat]
    BY <1>0, <1>2 DEF Export, TypeOK
  <2>6. BookTypeOK' /\ signers' \in [Txs -> SUBSET Users] /\ Done(r)
    BY <1>0, <1>2 DEF Export, TypeOK, BookTypeOK, bookVars
  <2> QED BY <2>3, <2>4, <2>5, <2>6, DoneShape
<1> QED BY <1>1, <1>2

\* A step of the invoice book leaves the rows of the ledger alone.
LEMMA BookShape ==
    ASSUME StructInv, BookNext, UNCHANGED trustVars
    PROVE  Shape
<1>1. TypeOK
  BY DEF StructInv
<1>2. BookTypeOK' /\ BookFrame
  BY <1>1, BookStepType
<1>3. TypeOK'
  BY <1>1, <1>2 DEF TypeOK, BookFrame, trustVars
<1>4. LedgerStep
  BY DEF LedgerStep, Existing, trustVars
<1>5. RequestStep
  BY <1>2 DEF RequestStep, BookFrame
<1> QED BY <1>3, <1>4, <1>5 DEF Shape

LEMMA NextShape ==
    ASSUME StructInv, Next
    PROVE  Shape
BY BookShape, CreateShape, ApproveShape, ReverseShape, RejectShape, ExportShape
   DEF Next

LEMMA InitStruct == Init => StructInv
<1> SUFFICES ASSUME Init PROVE StructInv
  OBVIOUS
<1>1. BookTypeOK
  BY FS_EmptySet DEF Init, BookInit, BookTypeOK, InvoiceStatus
<1>2. TypeOK
  BY <1>1, IdleType DEF Init, BookInit, TypeOK
<1>3. RowsWellFormed
  BY DEF Init, RowsWellFormed, RowWellFormed, NoRow
<1>4. RequestsWellFormed
  BY IdleType DEF Init, BookInit, RequestsWellFormed, RequestWellFormed
<1> QED BY <1>2, <1>3, <1>4 DEF StructInv

LEMMA StructStep == StructInv /\ [Next]_vars => StructInv'
<1> SUFFICES ASSUME StructInv, [Next]_vars PROVE StructInv'
  OBVIOUS
<1>1. CASE Next
  BY <1>1, NextShape, StructKept DEF Shape
<1>2. CASE UNCHANGED vars
  BY <1>2 DEF vars, bookVars, trustVars, StructInv, TypeOK, BookTypeOK, RowsWellFormed,
              RowWellFormed, NeedsApproval, RequestsWellFormed, RequestWellFormed
<1> QED BY <1>1, <1>2

\* The type invariant holds in every reachable state: every handler writes rows,
\* payments and statuses of the shape the tables declare.
THEOREM TypeCorrect == Spec => []TypeOK
<1>1. StructInv => TypeOK
  BY DEF StructInv
<1> QED BY <1>1, InitStruct, StructStep, PTL DEF Spec

-----------------------------------------------------------------------------
(* The balance.  A step is calm for a case when it takes no deposit away   *)
(* from it and books no new debit on it.  Only three steps are not calm,   *)
(* and each of them finds the row lock of the case free or holds it        *)
(* itself, so no other request is relying on the balance of that case.     *)

CountsIn(t) == ledger[t].kind = "deposit" /\ Booked(t)

CountsOut(t) == ledger[t].kind \in Debits /\ Booked(t)

Calm(t) == (CountsIn(t) => CountsIn(t)') /\ (CountsOut(t)' => CountsOut(t))

\* Sums over the rows of a case are numbers, before a step and after it.
LEMMA BalanceType ==
    ASSUME NEW c, NEW T
    PROVE  /\ IsFiniteSet(Deposited(c)) /\ IsFiniteSet(Debited(c) \ T)
           /\ SumOf(Deposited(c), LedgerAmount) \in Nat
           /\ SumOf(Debited(c), LedgerAmount) \in Nat
           /\ SumOf(Debited(c) \ T, LedgerAmount) \in Nat
           /\ SumOf(PendingDebits(c), LedgerAmount) \in Nat
<1>1. /\ Deposited(c) \subseteq Txs /\ Debited(c) \subseteq Txs
      /\ Debited(c) \ T \subseteq Txs /\ PendingDebits(c) \subseteq Txs
  BY DEF Deposited, Debited, PendingDebits
<1>2. /\ IsFiniteSet(Deposited(c)) /\ IsFiniteSet(Debited(c))
      /\ IsFiniteSet(Debited(c) \ T) /\ IsFiniteSet(PendingDebits(c))
  BY <1>1, TxsAssumption, FS_Subset
<1> QED BY <1>2, SumType

LEMMA BalanceTypeNext ==
    ASSUME NEW c, NEW T
    PROVE  /\ SumOf(Deposited(c), LedgerAmount)' \in Nat
           /\ SumOf(Debited(c), LedgerAmount)' \in Nat
           /\ SumOf(Debited(c) \ T, LedgerAmount)' \in Nat
<1>1. /\ Deposited(c)' \subseteq Txs /\ Debited(c)' \subseteq Txs
      /\ (Debited(c) \ T)' \subseteq Txs
  BY DEF Deposited, Debited
<1>2. /\ IsFiniteSet(Deposited(c)') /\ IsFiniteSet(Debited(c)') /\ IsFiniteSet((Debited(c) \ T)')
  BY <1>1, TxsAssumption, FS_Subset
<1>3. /\ SumOf(Deposited(c)', LedgerAmount') \in Nat
      /\ SumOf(Debited(c)', LedgerAmount') \in Nat
      /\ SumOf((Debited(c) \ T)', LedgerAmount') \in Nat
  BY <1>2, SumType
<1> QED BY <1>3 DEF SumOf, Coins

\* If every row of the case but those in T is calm, deposits do not shrink and the
\* debits outside T do not grow.
LEMMA CalmSums ==
    ASSUME StructInv, LedgerStep, NEW c \in Cases, NEW T,
           \A t \in Txs : ledger[t].case = c \/ ledger'[t].case = c =>
              /\ CountsIn(t) => CountsIn(t)'
              /\ t \notin T => Calm(t)
    PROVE  /\ SumOf(Deposited(c), LedgerAmount) <= SumOf(Deposited(c), LedgerAmount)'
           /\ SumOf(Debited(c) \ T, LedgerAmount)' <= SumOf(Debited(c) \ T, LedgerAmount)
<1> DEFINE In1 == Deposited(c)'
           Out1 == (Debited(c) \ T)'
           amount1 == LedgerAmount'
<1>1. ASSUME NEW t \in Txs, ledger[t].kind # "none"
      PROVE  Existing(t)
  BY <1>1 DEF LedgerStep, Created
<1>2. ASSUME NEW t \in Deposited(c)
      PROVE  t \in In1 /\ LedgerAmount[t] = amount1[t]
  <2>1. t \in Txs /\ ledger[t].case = c /\ CountsIn(t)
    BY <1>2 DEF Deposited, CountsIn
  <2>2. Existing(t)
    BY <1>1, <2>1 DEF CountsIn
  <2>3. CountsIn(t)'
    BY <2>1
  <2> QED BY <2>1, <2>2, <2>3 DEF Existing, Deposited, CountsIn, Booked, LedgerAmount
<1>3. ASSUME NEW t \in Out1
      PROVE  t \in Debited(c) \ T /\ LedgerAmount[t] = amount1[t]
  <2>1. t \in Txs /\ ledger'[t].case = c /\ CountsOut(t)' /\ t \notin T
    BY <1>3 DEF Debited, CountsOut
  <2>2. CountsOut(t)
    BY <2>1 DEF Calm
  <2>3. Existing(t)
    BY <1>1, <2>1, <2>2 DEF CountsOut, Debits
  <2> QED BY <2>1, <2>2, <2>3 DEF Existing, Debited, CountsOut, Booked, LedgerAmount
<1>4. IsFiniteSet(In1)
  <2>1. In1 \subseteq Txs
    BY DEF Deposited
  <2> QED BY <2>1, TxsAssumption, FS_Subset
<1>5. IsFiniteSet(Debited(c) \ T)
  BY BalanceType
<1> HIDE DEF In1, Out1, amount1
<1>6. SumOf(Deposited(c), LedgerAmount) <= SumOf(In1, amount1)
  <2>1. Deposited(c) \subseteq In1
    BY <1>2
  <2>2. \A t \in Deposited(c) : LedgerAmount[t] = amount1[t]
    BY <1>2
  <2> QED BY <1>4, <2>1, <2>2, SumMonotone
<1>7. SumOf(Out1, amount1) <= SumOf(Debited(c) \ T, LedgerAmount)
  <2>1. Out1 \subseteq Debited(c) \ T
    BY <1>3
  <2>2. \A t \in Out1 : amount1[t] = LedgerAmount[t]
    BY <1>3
  <2> QED BY <1>5, <2>1, <2>2, SumMonotone
<1> QED BY <1>6, <1>7 DEF In1, Out1, amount1, SumOf, Coins

-----------------------------------------------------------------------------
(* What calm steps keep.                                                   *)

QuietCase(c) == \A t \in Txs : ledger[t].case = c \/ ledger'[t].case = c => Calm(t)

NoNewBooking == \A r \in Requests : req'[r].op = "book" => req'[r] = req[r]

\* The money booked on case c without t covers t.
CoversAlone(t, c) ==
    SumOf(Deposited(c), LedgerAmount)
      >= SumOf(Debited(c) \ {t}, LedgerAmount) + ledger[t].amount

\* A calm step keeps a non-negative balance.
LEMMA QuietBalance ==
    ASSUME StructInv, LedgerStep, NEW c \in Cases, QuietCase(c), TotalBalance(c) >= 0
    PROVE  TotalBalance(c)' >= 0
<1>1. Debited(c) \ {} = Debited(c) /\ (Debited(c) \ {})' = Debited(c)'
  OBVIOUS
<1>2. /\ SumOf(Deposited(c), LedgerAmount) <= SumOf(Deposited(c), LedgerAmount)'
      /\ SumOf(Debited(c) \ {}, LedgerAmount)' <= SumOf(Debited(c) \ {}, LedgerAmount)
  BY CalmSums DEF QuietCase, Calm
<1>3. /\ SumOf(Deposited(c), LedgerAmount) \in Nat /\ SumOf(Debited(c), LedgerAmount) \in Nat
      /\ SumOf(Deposited(c), LedgerAmount)' \in Nat /\ SumOf(Debited(c), LedgerAmount)' \in Nat
  BY BalanceType, BalanceTypeNext
<1> QED BY <1>1, <1>2, <1>3 DEF TotalBalance

\* A calm step keeps what a booking under the lock relies on.
LEMMA QuietCovers ==
    ASSUME StructInv, LedgerStep, NEW c \in Cases, QuietCase(c), NEW t \in Txs,
           ledger[t] \in TxRow, ledger'[t].amount = ledger[t].amount, CoversAlone(t, c)
    PROVE  CoversAlone(t, c)'
<1>1. /\ SumOf(Deposited(c), LedgerAmount) <= SumOf(Deposited(c), LedgerAmount)'
      /\ SumOf(Debited(c) \ {t}, LedgerAmount)' <= SumOf(Debited(c) \ {t}, LedgerAmount)
  BY CalmSums DEF QuietCase, Calm
<1>2. /\ SumOf(Deposited(c), LedgerAmount) \in Nat
      /\ SumOf(Debited(c) \ {t}, LedgerAmount) \in Nat
      /\ SumOf(Deposited(c), LedgerAmount)' \in Nat
      /\ SumOf(Debited(c) \ {t}, LedgerAmount)' \in Nat
  BY BalanceType, BalanceTypeNext
<1>3. ledger[t].amount \in Nat
  BY MaxAmountAssumption DEF TxRow, Amounts
<1> QED BY <1>1, <1>2, <1>3 DEF CoversAlone

\* No request holds the lock of case c once the step is done.
NobodyBooks(c) ==
    \A r \in Requests : req'[r].op = "book" => ledger[req[r].tx].case # c

\* If every case is either calm in this step, or left with a balance that is not
\* negative and with nobody booking on it, the invariant survives.
LEMMA BalanceKept ==
    ASSUME BalanceInv, Shape, NoNewBooking,
           \A c \in Cases : QuietCase(c) \/ (TotalBalance(c)' >= 0 /\ NobodyBooks(c))
    PROVE  BalanceInv'
<1>1. StructInv
  BY DEF BalanceInv, StructInv
<1>2. StructInv'
  BY <1>1, StructKept DEF Shape
<1>3. BalanceNonNegative'
  <2> SUFFICES ASSUME NEW c \in Cases PROVE TotalBalance(c)' >= 0
    BY DEF BalanceNonNegative
  <2>1. TotalBalance(c) >= 0
    BY DEF BalanceInv, BalanceNonNegative
  <2> QED BY <1>1, <2>1, QuietBalance DEF Shape
<1>4. ASSUME NEW r \in Requests, req'[r].op = "book"
      PROVE  /\ req'[r] = req[r] /\ req[r].op = "book"
             /\ req[r].tx \in Txs /\ ledger[req[r].tx] \in TxRow
             /\ Existing(req[r].tx)
  <2>1. req'[r] = req[r] /\ req[r].op = "book"
    BY <1>4 DEF NoNewBooking
  <2>2. req[r].tx \in Txs /\ ledger[req[r].tx] \in TxRow
    BY <1>1, <2>1, RequestRow
  <2>3. ledger[req[r].tx].kind = "offset_to_invoice"
    BY <2>1 DEF BalanceInv, RequestsWellFormed, RequestWellFormed
  <2>4. Existing(req[r].tx)
    BY <2>2, <2>3 DEF Shape, LedgerStep, Created
  <2> QED BY <2>1, <2>2, <2>4
<1>5. LockExclusive'
  <2> SUFFICES ASSUME NEW r \in Requests, NEW s \in Requests,
                      req'[r].op = "book", req'[s].op = "book",
                      ledger'[req'[r].tx].case = ledger'[req'[s].tx].case
               PROVE  r = s
    BY DEF LockExclusive
  <2>1. ledger[req[r].tx].case = ledger[req[s].tx].case
    BY <1>4 DEF Existing
  <2> QED BY <1>4, <2>1 DEF BalanceInv, LockExclusive
<1>6. BookingCovered'
  <2> SUFFICES ASSUME NEW r \in Requests, req'[r].op = "book",
                      NEW t, t = req[r].tx, NEW c, c = ledger[t].case
               PROVE  CoversAlone(t, c)'
    <3>1. \A r \in Requests : req'[r].op = "book" =>
              /\ req'[r].tx = req[r].tx
              /\ ledger'[req[r].tx].case = ledger[req[r].tx].case
              /\ CoversAlone(req[r].tx, ledger[req[r].tx].case)'
      BY <1>4 DEF Existing
    <3> QED BY <3>1 DEF BookingCovered, CoversAlone, Deposited, Debited
  <2>1. t \in Txs /\ ledger[t] \in TxRow /\ c \in Cases /\ ledger'[t].amount = ledger[t].amount
    BY <1>4 DEF Existing, TxRow
  <2>2. CoversAlone(t, c)
    BY <1>4 DEF BalanceInv, BookingCovered, CoversAlone
  <2>3. QuietCase(c)
    BY <2>1 DEF NobodyBooks
  <2> QED BY <1>1, <2>1, <2>2, <2>3, QuietCovers DEF Shape
<1> QED BY <1>2, <1>3, <1>5, <1>6 DEF BalanceInv, StructInv

-----------------------------------------------------------------------------
(* The calm actions.                                                       *)

Quiet == (\A t \in Txs : Calm(t)) /\ NoNewBooking

LEMMA QuietKeeps ==
    ASSUME BalanceInv, Shape, Quiet
    PROVE  BalanceInv'
<1>1. NoNewBooking
  BY DEF Quiet
<1>2. \A c \in Cases : QuietCase(c) \/ (TotalBalance(c)' >= 0 /\ NobodyBooks(c))
  <2>1. \A c \in Cases : QuietCase(c)
    BY DEF Quiet, QuietCase
  <2> QED BY <2>1, Zenon
<1> QED BY <1>1, <1>2, BalanceKept, Zenon

\* A request that ends, or loads something that is no booking, books nothing.
LEMMA LoadBooksNothing ==
    ASSUME TypeOK, NEW r \in Requests, NEW seen, seen.op # "book",
           req' = [req EXCEPT ![r] = seen]
    PROVE  NoNewBooking
BY DEF NoNewBooking, TypeOK

LEMMA DoneBooksNothing ==
    ASSUME TypeOK, NEW r \in Requests, Done(r)
    PROVE  NoNewBooking
BY IdleType, LoadBooksNothing DEF Done

\* A step that leaves the ledger alone is calm.
LEMMA SameLedgerCalm ==
    ASSUME UNCHANGED ledger, NEW t \in Txs
    PROVE  Calm(t)
BY DEF Calm, CountsIn, CountsOut, Booked

LEMMA CreateQuiet ==
    ASSUME StructInv, Create
    PROVE  Quiet
<1>0. TypeOK
  BY DEF StructInv
<1>1. PICK t \in Txs, c \in Cases, u \in Users, a \in Amounts :
        \/ CreateDeposit(t, c, u, a)
        \/ CreateDisbursement(t, c, u, a)
        \/ \E i \in Invoices : CreateOffset(t, c, u, a, i)
  BY DEF Create
<1>2. UNCHANGED req
  BY <1>1 DEF CreateDeposit, CreateDisbursement, CreateOffset
<1>3. ASSUME NEW row, ledger' = [ledger EXCEPT ![t] = row], Free(t),
             row.kind = "deposit" \/ row.status # "approved",
             row.kind = "deposit" => row.kind \notin Debits
      PROVE  Quiet
  <2>1. ledger'[t] = row /\ \A s \in Txs \ {t} : ledger'[s] = ledger[s]
    BY <1>0, <1>3 DEF TypeOK
  <2>2. Calm(t)
    BY <1>3, <2>1 DEF Calm, CountsIn, CountsOut, Booked, Free, NoRow
  <2>3. \A s \in Txs \ {t} : Calm(s)
    BY <2>1 DEF Calm, CountsIn, CountsOut, Booked
  <2> QED BY <1>2, <2>2, <2>3 DEF Quiet, NoNewBooking
<1>4. CASE CreateDeposit(t, c, u, a)
  <2>1. Row("deposit", "approved", a, c, u).kind = "deposit"
    BY DEF Row, NoRow
  <2>2. "deposit" \notin Debits
    BY DEF Debits
  <2> QED BY <1>3, <1>4, <2>1, <2>2 DEF CreateDeposit
<1>5. CASE CreateDisbursement(t, c, u, a)
  <2>1. Row("disbursement", "pending_approval", a, c, u).status = "pending_approval"
    BY DEF Row, NoRow
  <2>2. Row("disbursement", "pending_approval", a, c, u).kind = "disbursement"
    BY DEF Row, NoRow
  <2> QED BY <1>3, <1>5, <2>1, <2>2 DEF CreateDisbursement
<1>6. ASSUME NEW i \in Invoices, CreateOffset(t, c, u, a, i)
      PROVE  Quiet
  <2> DEFINE row == [Row("offset_to_invoice", "pending_approval", a, c, u) EXCEPT !.inv = i]
  <2>1. row.status = "pending_approval" /\ row.kind = "offset_to_invoice"
    BY DEF Row, NoRow
  <2> QED BY <1>3, <1>6, <2>1 DEF CreateOffset
<1> QED BY <1>1, <1>4, <1>5, <1>6

LEMMA ReverseQuiet ==
    ASSUME StructInv, NEW r \in Requests, NEW u \in Users, NEW t \in Txs,
           BeginReverse(r, u, t) \/ ReverseDebit(r, t)
    PROVE  Quiet
<1>0. TypeOK
  BY DEF StructInv
<1>1. CASE BeginReverse(r, u, t)
  <2>1. UNCHANGED ledger /\ req' = [req EXCEPT ![r] = [op |-> "reverse", tx |-> t, user |-> u]]
    BY <1>1 DEF BeginReverse, Load, trustVars
  <2> QED BY <1>0, <2>1, LoadBooksNothing, SameLedgerCalm DEF Quiet
<1>2. CASE ReverseDebit(r, t)
  <2>1. req[r].tx \in Txs /\ ledger[req[r].tx] \in TxRow /\ req[r].user \in Users
    BY <1>0, <1>2, RequestRow, RequestType DEF ReverseDebit
  <2>2. PICK row \in TxRow :
          /\ row = Storno(req[r].tx, "pending_approval", req[r].user)
          /\ row.kind = "reversal"
    BY <2>1, StornoType
  <2>3. ledger'[t] = row /\ \A s \in Txs \ {t} : ledger'[s] = ledger[s]
    BY <1>0, <1>2, <2>2 DEF ReverseDebit, TypeOK
  <2>4. Calm(t)
    BY <1>2, <2>2, <2>3 DEF ReverseDebit, Calm, CountsIn, CountsOut, Booked, Free, NoRow, Debits
  <2>5. \A s \in Txs \ {t} : Calm(s)
    BY <2>3 DEF Calm, CountsIn, CountsOut, Booked
  <2> QED BY <1>0, <1>2, <2>4, <2>5, DoneBooksNothing DEF Quiet, ReverseDebit
<1> QED BY <1>1, <1>2

LEMMA ApproveQuiet ==
    ASSUME StructInv, NEW r \in Requests,
           \/ \E u \in Users, t \in Txs : BeginApprove(r, u, t)
           \/ FirstApproval(r)
           \/ LoadOriginal(r)
           \/ FinalizeReversal(r)
    PROVE  Quiet
<1>0. TypeOK
  BY DEF StructInv
<1>1. ASSUME NEW u \in Users, NEW t \in Txs, BeginApprove(r, u, t)
      PROVE  Quiet
  <2> DEFINE seen == [op |-> "approve", tx |-> t, user |-> u,
                      app1 |-> ledger[t].app1, app2 |-> ledger[t].app2]
  <2>1. UNCHANGED ledger /\ req' = [req EXCEPT ![r] = seen] /\ seen.op # "book"
    BY <1>1 DEF BeginApprove, Load, trustVars
  <2> HIDE DEF seen
  <2> QED BY <1>0, <2>1, LoadBooksNothing, SameLedgerCalm DEF Quiet
<1>2. ASSUME FirstApproval(r)
      PROVE  Quiet
  <2>1. req[r].tx \in Txs /\ ledger[req[r].tx] \in TxRow
    BY <1>2, RequestRow DEF FirstApproval
  <2>2. \A s \in Txs : /\ ledger'[s].kind = ledger[s].kind
                       /\ ledger'[s].status = ledger[s].status
                       /\ ledger'[s].reversedBy = ledger[s].reversedBy
    BY <1>0, <1>2, <2>1 DEF FirstApproval, TypeOK, TxRow
  <2>3. \A s \in Txs : Calm(s)
    BY <2>2 DEF Calm, CountsIn, CountsOut, Booked
  <2> QED BY <1>0, <1>2, <2>3, DoneBooksNothing DEF Quiet, FirstApproval
<1>3. ASSUME LoadOriginal(r)
      PROVE  Quiet
  <2> DEFINE seen == [op |-> "storno", tx |-> req[r].tx, user |-> req[r].user]
  <2>1. UNCHANGED ledger /\ req' = [req EXCEPT ![r] = seen] /\ seen.op # "book"
    BY <1>3 DEF LoadOriginal, Advance, trustVars
  <2> HIDE DEF seen
  <2> QED BY <1>0, <2>1, LoadBooksNothing, SameLedgerCalm DEF Quiet
<1>4. ASSUME FinalizeReversal(r)
      PROVE  Quiet
  <2> SUFFICES ASSUME NEW x, x = req[r].tx, NEW t, t = ledger[x].reverses
               PROVE  Quiet
    OBVIOUS
  <2>1. /\ x \in Txs /\ t \in Txs
        /\ ledger[x].kind = "reversal" /\ ledger[t].kind \in Debits
    BY <1>4, StornoRows DEF FinalizeReversal
  <2>2. /\ ledger'[t].reversedBy = x
        /\ \A s \in Txs \ {x, t} : ledger'[s] = ledger[s]
        /\ Existing(x) /\ Existing(t)
    BY <1>4, <2>1, FinalizeRows
  <2>3. Calm(x)
    BY <2>1, <2>2 DEF Calm, CountsIn, CountsOut, Existing, Debits
  <2>4. Calm(t)
    <3>1. x # NoTx
      BY <2>1, NoTxAssumption
    <3> QED BY <2>1, <2>2, <3>1 DEF Calm, CountsIn, CountsOut, Booked, Existing, Debits
  <2>5. \A s \in Txs \ {x, t} : Calm(s)
    BY <2>2 DEF Calm, CountsIn, CountsOut, Booked
  <2> QED BY <1>0, <1>4, <2>3, <2>4, <2>5, DoneBooksNothing DEF Quiet, FinalizeReversal
<1> QED BY <1>1, <1>2, <1>3, <1>4

LEMMA RejectQuiet ==
    ASSUME StructInv, NEW r \in Requests,
           (\E t \in Txs : BeginReject(r, t)) \/ Reject(r)
    PROVE  Quiet
<1>0. TypeOK
  BY DEF StructInv
<1>1. ASSUME NEW t \in Txs, BeginReject(r, t)
      PROVE  Quiet
  <2>1. UNCHANGED ledger /\ req' = [req EXCEPT ![r] = [op |-> "reject", tx |-> t]]
    BY <1>1 DEF BeginReject, Load, trustVars
  <2> QED BY <1>0, <2>1, LoadBooksNothing, SameLedgerCalm DEF Quiet
<1>2. ASSUME Reject(r)
      PROVE  Quiet
  <2> SUFFICES ASSUME NEW t, t = req[r].tx
               PROVE  Quiet
    OBVIOUS
  <2>1. t \in Txs /\ ledger[t] \in TxRow /\ NeedsApproval(t)
    BY <1>2, RequestRow DEF Reject, StructInv, RequestsWellFormed, RequestWellFormed
  <2>2. /\ ledger'[t].kind = ledger[t].kind /\ ledger'[t].status = "rejected"
        /\ \A s \in Txs \ {t} : ledger'[s] = ledger[s]
    BY <1>0, <1>2, <2>1 DEF Reject, TypeOK, TxRow
  <2>3. Calm(t)
    BY <2>1, <2>2 DEF Calm, CountsIn, CountsOut, Booked, NeedsApproval, Debits
  <2>4. \A s \in Txs \ {t} : Calm(s)
    BY <2>2 DEF Calm, CountsIn, CountsOut, Booked
  <2> QED BY <1>0, <1>2, <2>3, <2>4, DoneBooksNothing DEF Quiet, Reject
<1> QED BY <1>1, <1>2

LEMMA ExportQuiet ==
    ASSUME StructInv, NEW r \in Requests,
           (\E batch \in SUBSET Txs : BeginExport(r, batch)) \/ Export(r)
    PROVE  Quiet
<1>0. TypeOK
  BY DEF StructInv
<1>1. ASSUME NEW batch \in SUBSET Txs, BeginExport(r, batch)
      PROVE  Quiet
  <2>1. UNCHANGED ledger /\ req' = [req EXCEPT ![r] = [op |-> "export", batch |-> batch]]
    BY <1>1 DEF BeginExport, Load, trustVars
  <2> QED BY <1>0, <2>1, LoadBooksNothing, SameLedgerCalm DEF Quiet
<1>2. ASSUME Export(r)
      PROVE  Quiet
  <2>1. ASSUME NEW s \in Txs
        PROVE  Calm(s)
    <3>1. CASE s \in req[r].batch
      <4>1. ledger[s].kind = "disbursement"
        BY <1>2, <3>1 DEF Export, StructInv, RequestsWellFormed, RequestWellFormed
      <4>2. ledger[s] \in TxRow
        BY <1>0, <4>1, RowType
      <4>3. ledger'[s] = [ledger[s] EXCEPT !.exported = TRUE]
        BY <1>2, <3>1 DEF Export
      <4> QED BY <4>2, <4>3 DEF Calm, CountsIn, CountsOut, Booked, TxRow
    <3>2. CASE s \notin req[r].batch
      BY <1>2, <3>2 DEF Export, Calm, CountsIn, CountsOut, Booked
    <3> QED BY <3>1, <3>2
  <2> QED BY <1>0, <1>2, <2>1, DoneBooksNothing DEF Quiet, Export
<1> QED BY <1>1, <1>2

LEMMA BookQuiet ==
    ASSUME StructInv, BookNext, UNCHANGED trustVars
    PROVE  Quiet
<1>1. TypeOK
  BY DEF StructInv
<1>2. BookFrame
  BY <1>1, BookStepType
<1> QED BY <1>2, SameLedgerCalm DEF Quiet, NoNewBooking, BookFrame, BookOps, trustVars

-----------------------------------------------------------------------------
(* The actions that are not calm.                                          *)


\* Booking debit t on case c, when the money booked without t covers it.
LEMMA DebitBooked ==
    ASSUME StructInv, LedgerStep, NEW t \in Txs, ledger[t] \in TxRow,
           NEW c \in Cases, ledger[t].case = c, CoversAlone(t, c),
           CountsIn(t) => CountsIn(t)',
           \A s \in Txs \ {t} : Calm(s), Existing(t)
    PROVE  TotalBalance(c)' >= 0
<1> DEFINE In1 == SumOf(Deposited(c), LedgerAmount)'
           Rest1 == (Debited(c) \ {t})'
           amount1 == LedgerAmount'
           a == ledger[t].amount
<1>1. /\ SumOf(Deposited(c), LedgerAmount) <= In1
      /\ SumOf(Debited(c) \ {t}, LedgerAmount)' <= SumOf(Debited(c) \ {t}, LedgerAmount)
  <2>1. \A s \in Txs : /\ CountsIn(s) => CountsIn(s)'
                       /\ s \notin {t} => Calm(s)
    BY DEF Calm
  <2> QED BY <2>1, CalmSums
<1>2. /\ SumOf(Deposited(c), LedgerAmount) \in Nat /\ In1 \in Nat
      /\ SumOf(Debited(c) \ {t}, LedgerAmount) \in Nat
      /\ SumOf(Debited(c) \ {t}, LedgerAmount)' \in Nat
      /\ SumOf(Debited(c), LedgerAmount)' \in Nat
  BY BalanceType, BalanceTypeNext
<1>3. a \in Amounts /\ a \in Nat
  BY MaxAmountAssumption DEF TxRow, Amounts
<1>4. SumOf(Debited(c), LedgerAmount)' <= SumOf(Debited(c) \ {t}, LedgerAmount)' + a
  <2>1. IsFiniteSet(Rest1) /\ t \notin Rest1
    <3>1. Rest1 \subseteq Txs
      BY DEF Debited
    <3> QED BY <3>1, TxsAssumption, FS_Subset
  <2>2. amount1[t] = a
    BY DEF Existing, LedgerAmount
  <2>3. SumOf(Rest1 \cup {t}, amount1) = SumOf(Rest1, amount1) + a
    <3> HIDE DEF Rest1, amount1, a
    <3> QED BY <1>3, <2>1, <2>2, SumAdd
  <2>4. CASE t \in Debited(c)'
    <3>1. Rest1 \cup {t} = Debited(c)'
      BY <2>4
    <3>2. SumOf(Rest1 \cup {t}, amount1) = SumOf(Debited(c), LedgerAmount)'
      BY <3>1 DEF SumOf, Coins
    <3>3. SumOf(Rest1, amount1) = SumOf(Debited(c) \ {t}, LedgerAmount)'
      BY DEF SumOf, Coins
    <3> QED BY <1>2, <1>3, <2>3, <3>2, <3>3
  <2>5. CASE t \notin Debited(c)'
    <3>1. Rest1 = Debited(c)'
      BY <2>5
    <3>2. SumOf(Debited(c) \ {t}, LedgerAmount)' = SumOf(Debited(c), LedgerAmount)'
      BY <3>1 DEF SumOf, Coins
    <3> QED BY <1>2, <1>3, <3>2
  <2> QED BY <2>4, <2>5
<1>5. SumOf(Deposited(c), LedgerAmount) >= SumOf(Debited(c) \ {t}, LedgerAmount) + a
  BY DEF CoversAlone
<1>6. TotalBalance(c)' = In1 - SumOf(Debited(c), LedgerAmount)'
  BY DEF TotalBalance
<1> HIDE DEF In1, Rest1, amount1, a
<1> QED BY <1>1, <1>2, <1>3, <1>4, <1>5, <1>6

\* The balance covers t: then the money booked without t covers it too.
LEMMA CoveredAlone ==
    ASSUME StructInv, NEW t \in Txs, ledger[t] \in TxRow, Covered(t),
           NEW c, c = ledger[t].case
    PROVE  CoversAlone(t, c)
<1>1. SumOf(Debited(c) \ {t}, LedgerAmount) <= SumOf(Debited(c), LedgerAmount)
  <2>1. IsFiniteSet(Debited(c) \ {}) /\ Debited(c) \ {} = Debited(c)
    BY BalanceType
  <2>2. Debited(c) \ {t} \subseteq Debited(c) /\ IsFiniteSet(Debited(c))
    BY <2>1
  <2> QED BY <2>2, SumMonotone
<1>2. /\ SumOf(Deposited(c), LedgerAmount) \in Nat
      /\ SumOf(Debited(c), LedgerAmount) \in Nat
      /\ SumOf(Debited(c) \ {t}, LedgerAmount) \in Nat
  BY BalanceType
<1>3. ledger[t].amount \in Nat
  BY MaxAmountAssumption DEF TxRow, Amounts
<1> QED BY <1>1, <1>2, <1>3 DEF CoversAlone, Covered, TotalBalance

\* What a second approval writes, seen from the balance.
LEMMA ApprovedRows ==
    ASSUME StructInv, NEW t \in Txs, ledger[t] \in TxRow, NEW u \in Users,
           ledger' = [ledger EXCEPT ![t] = Approved(t, u)]
    PROVE  /\ Existing(t)
           /\ CountsIn(t) => CountsIn(t)'
           /\ \A s \in Txs \ {t} : ledger'[s] = ledger[s] /\ Calm(s)
<1>1. ledger'[t] = Approved(t, u) /\ \A s \in Txs \ {t} : ledger'[s] = ledger[s]
  BY ApprovedType, ReplaceType DEF StructInv
<1>2. PICK row \in TxRow :
        /\ row = Approved(t, u) /\ row.status = "approved"
        /\ row.kind = ledger[t].kind /\ row.case = ledger[t].case
        /\ row.amount = ledger[t].amount /\ row.by = ledger[t].by
        /\ row.inv = ledger[t].inv /\ row.reverses = ledger[t].reverses
        /\ row.reversedBy = ledger[t].reversedBy
  <2>1. /\ Approved(t, u) \in TxRow
        /\ Approved(t, u).status = "approved"
        /\ Approved(t, u).kind = ledger[t].kind
        /\ Approved(t, u).case = ledger[t].case
        /\ Approved(t, u).amount = ledger[t].amount
        /\ Approved(t, u).by = ledger[t].by
        /\ Approved(t, u).inv = ledger[t].inv
        /\ Approved(t, u).reverses = ledger[t].reverses
        /\ Approved(t, u).reversedBy = ledger[t].reversedBy
    BY DEF Approved, TxRow
  <2> QED BY <2>1
<1>3. Existing(t) /\ (CountsIn(t) => CountsIn(t)')
  BY <1>1, <1>2 DEF Existing, CountsIn, Booked
<1>4. \A s \in Txs \ {t} : Calm(s)
  BY <1>1 DEF Calm, CountsIn, CountsOut, Booked
<1> QED BY <1>1, <1>2, <1>3, <1>4

\* Only case c is disturbed, its balance stays good, and nobody else books on it.
LEMMA OneCaseKept ==
    ASSUME BalanceInv, Shape, NoNewBooking, NEW c \in Cases,
           TotalBalance(c)' >= 0, NobodyBooks(c),
           \A t \in Txs : ledger[t].case = c \/ Calm(t),
           \A t \in Txs : Existing(t) \/ Calm(t)
    PROVE  BalanceInv'
<1>1. ASSUME NEW d \in Cases, d # c
      PROVE  QuietCase(d)
  <2> SUFFICES ASSUME NEW t \in Txs, ledger[t].case = d \/ ledger'[t].case = d
               PROVE  Calm(t)
    BY DEF QuietCase
  <2> QED BY <1>1 DEF Existing
<1>2. \A d \in Cases : QuietCase(d) \/ (TotalBalance(d)' >= 0 /\ NobodyBooks(d))
  BY <1>1
<1> QED BY <1>2, BalanceKept

LEMMA SecondApprovalBalance ==
    ASSUME BalanceInv, Shape, NEW r \in Requests, SecondApprovalOfDisbursement(r)
    PROVE  BalanceInv'
<1> SUFFICES ASSUME NEW t, t = req[r].tx, NEW c, c = ledger[t].case
             PROVE  BalanceInv'
  OBVIOUS
<1>0. StructInv /\ TypeOK
  BY DEF BalanceInv, StructInv
<1>1. t \in Txs /\ ledger[t] \in TxRow /\ req[r].user \in Users
  BY <1>0, RequestRow, RequestType DEF SecondApprovalOfDisbursement, SecondSlot
<1>2. c \in Cases
  BY <1>1 DEF TxRow
<1>3. /\ Existing(t)
      /\ CountsIn(t) => CountsIn(t)'
      /\ \A s \in Txs \ {t} : ledger'[s] = ledger[s] /\ Calm(s)
  BY <1>0, <1>1, ApprovedRows DEF SecondApprovalOfDisbursement
<1>4. CoversAlone(t, c)
  BY <1>0, <1>1, CoveredAlone DEF SecondApprovalOfDisbursement
<1>5. TotalBalance(c)' >= 0
  BY <1>0, <1>1, <1>2, <1>3, <1>4, DebitBooked DEF Shape
<1>6. NoNewBooking
  BY <1>0, DoneBooksNothing DEF SecondApprovalOfDisbursement
<1>7. NobodyBooks(c)
  BY <1>6 DEF SecondApprovalOfDisbursement, LockFree, NobodyBooks, NoNewBooking
<1> QED BY <1>2, <1>3, <1>5, <1>6, <1>7, OneCaseKept

LEMMA BookOffsetBalance ==
    ASSUME BalanceInv, Shape, NEW r \in Requests, BookOffset(r)
    PROVE  BalanceInv'
<1> SUFFICES ASSUME NEW t, t = req[r].tx, NEW c, c = ledger[t].case
             PROVE  BalanceInv'
  OBVIOUS
<1>0. StructInv /\ TypeOK
  BY DEF BalanceInv, StructInv
<1>1. t \in Txs /\ ledger[t] \in TxRow /\ req[r].user \in Users
  BY <1>0, RequestRow, RequestType DEF BookOffset
<1>2. c \in Cases
  BY <1>1 DEF TxRow
<1>3. /\ Existing(t)
      /\ CountsIn(t) => CountsIn(t)'
      /\ \A s \in Txs \ {t} : ledger'[s] = ledger[s] /\ Calm(s)
  BY <1>0, <1>1, ApprovedRows DEF BookOffset
<1>4. CoversAlone(t, c)
  BY DEF BookOffset, BalanceInv, BookingCovered, CoversAlone
<1>5. TotalBalance(c)' >= 0
  BY <1>0, <1>1, <1>2, <1>3, <1>4, DebitBooked DEF Shape
<1>6. NoNewBooking /\ req'[r].op # "book"
  BY <1>0, DoneBooksNothing, IdleType, ReqUpdate DEF BookOffset, Done
<1>7. NobodyBooks(c)
  BY <1>6 DEF BookOffset, BalanceInv, LockExclusive, NobodyBooks, NoNewBooking
<1> QED BY <1>2, <1>3, <1>5, <1>6, <1>7, OneCaseKept

\* Under the lock the balance covers the deposit that leaves.
LEMMA ReverseDepositBalance ==
    ASSUME BalanceInv, Shape, NEW r \in Requests, NEW x \in Txs, ReverseDeposit(r, x)
    PROVE  BalanceInv'
<1> SUFFICES ASSUME NEW t, t = req[r].tx, NEW c, c = ledger[t].case
             PROVE  BalanceInv'
  OBVIOUS
<1>0. StructInv /\ TypeOK
  BY DEF BalanceInv, StructInv
<1>1. t \in Txs /\ ledger[t] \in TxRow /\ req[r].user \in Users
  BY <1>0, RequestRow, RequestType DEF ReverseDeposit
<1>2. c \in Cases /\ ledger[t].amount \in Amounts /\ ledger[t].amount \in Nat
  BY <1>1, MaxAmountAssumption DEF TxRow, Amounts
<1>3. /\ x # t /\ ledger[x].kind = "none"
      /\ ledger'[x].kind = "reversal"
      /\ ledger'[t].reversedBy = x
      /\ \A s \in Txs \ {x, t} : ledger'[s] = ledger[s]
      /\ Existing(t)
  BY <1>0, <1>1, ReverseDepositRows
<1>4. ledger[t].kind = "deposit" /\ Available(c) >= ledger[t].amount /\ LockFree(c)
  BY DEF ReverseDeposit
<1>5. \A s \in Txs \ {t} : Calm(s)
  <2>1. Calm(x)
    BY <1>3 DEF Calm, CountsIn, CountsOut, Debits
  <2>2. \A s \in Txs \ {x, t} : Calm(s)
    BY <1>3 DEF Calm, CountsIn, CountsOut, Booked
  <2> QED BY <2>1, <2>2
<1> DEFINE Stay == Deposited(c) \ {t}
           In1 == Deposited(c)'
           amount1 == LedgerAmount'
<1>6. SumOf(Debited(c), LedgerAmount)' <= SumOf(Debited(c), LedgerAmount)
  <2>1. ASSUME NEW s \in Debited(c)'
        PROVE  s \in Debited(c) /\ LedgerAmount[s] = amount1[s]
    <3>1. s \in Txs /\ s # x /\ s # t
      BY <1>3, <1>4 DEF Debited, Debits, Existing
    <3> QED BY <1>3, <3>1 DEF Debited, Booked, LedgerAmount
  <2>2. IsFiniteSet(Debited(c))
    <3>1. Debited(c) \subseteq Txs
      BY DEF Debited
    <3> QED BY <3>1, TxsAssumption, FS_Subset
  <2>3. SumOf(Debited(c)', amount1) <= SumOf(Debited(c), LedgerAmount)
    <3>1. Debited(c)' \subseteq Debited(c)
      BY <2>1
    <3>2. \A s \in Debited(c)' : amount1[s] = LedgerAmount[s]
      BY <2>1
    <3> HIDE DEF amount1
    <3> QED BY <2>2, <3>1, <3>2, SumMonotone
  <2> QED BY <2>3 DEF SumOf, Coins
<1>7. SumOf(Deposited(c), LedgerAmount) <= SumOf(Stay, LedgerAmount) + ledger[t].amount
  <2>1. IsFiniteSet(Stay) /\ t \notin Stay
    BY BalanceType, FS_Subset
  <2>2. LedgerAmount[t] = ledger[t].amount
    BY <1>1 DEF LedgerAmount
  <2>3. SumOf(Stay \cup {t}, LedgerAmount) = SumOf(Stay, LedgerAmount) + ledger[t].amount
    BY <1>2, <2>1, <2>2, SumAdd
  <2>4. IsFiniteSet(Stay \cup {t}) /\ Deposited(c) \subseteq Stay \cup {t}
    BY <2>1, FS_AddElement
  <2>5. SumOf(Deposited(c), LedgerAmount) <= SumOf(Stay \cup {t}, LedgerAmount)
    <3> HIDE DEF Stay
    <3> QED BY <2>4, SumMonotone
  <2> QED BY <2>3, <2>5
<1>8. SumOf(Stay, LedgerAmount) <= SumOf(Deposited(c), LedgerAmount)'
  <2>1. ASSUME NEW s \in Stay
        PROVE  s \in In1 /\ LedgerAmount[s] = amount1[s]
    <3>1. s \in Txs /\ s # x /\ s # t
      BY <1>3 DEF Deposited
    <3> QED BY <1>3, <3>1 DEF Deposited, Booked, LedgerAmount
  <2>2. IsFiniteSet(In1)
    <3>1. In1 \subseteq Txs
      BY DEF Deposited
    <3> QED BY <3>1, TxsAssumption, FS_Subset
  <2>3. SumOf(Stay, LedgerAmount) <= SumOf(In1, amount1)
    <3>1. Stay \subseteq In1
      BY <2>1
    <3>2. \A s \in Stay : LedgerAmount[s] = amount1[s]
      BY <2>1
    <3> HIDE DEF Stay, In1, amount1
    <3> QED BY <2>2, <3>1, <3>2, SumMonotone
  <2> QED BY <2>3 DEF SumOf, Coins
<1>9. TotalBalance(c)' >= 0
  <2>1. /\ SumOf(Deposited(c), LedgerAmount) \in Nat /\ SumOf(Debited(c), LedgerAmount) \in Nat
        /\ SumOf(PendingDebits(c), LedgerAmount) \in Nat
        /\ SumOf(Deposited(c), LedgerAmount)' \in Nat /\ SumOf(Debited(c), LedgerAmount)' \in Nat
    BY BalanceType, BalanceTypeNext
  <2>2. SumOf(Stay, LedgerAmount) \in Nat
    BY BalanceType, FS_Subset, SumType
  <2> HIDE DEF Stay
  <2> QED BY <1>2, <1>4, <1>6, <1>7, <1>8, <2>1, <2>2 DEF Available, TotalBalance
<1>10. NoNewBooking
  BY <1>0, DoneBooksNothing DEF ReverseDeposit
<1>11. NobodyBooks(c)
  BY <1>4, <1>10 DEF LockFree, NobodyBooks, NoNewBooking
<1> QED BY <1>2, <1>3, <1>5, <1>9, <1>10, <1>11, OneCaseKept

\* Taking the lock to book an offset: nobody else holds it, and the balance covers it.
LEMMA CheckOffsetBalance ==
    ASSUME BalanceInv, Shape, NEW r \in Requests, CheckOffset(r)
    PROVE  BalanceInv'
<1>0. StructInv /\ TypeOK
  BY DEF BalanceInv, StructInv
<1>1. StructInv'
  BY <1>0, StructKept DEF Shape
<1>2. req[r].tx \in Txs /\ ledger[req[r].tx] \in TxRow
  BY <1>0, RequestRow DEF CheckOffset, SecondSlot
<1>3. /\ req'[r].tx = req[r].tx
      /\ \A s \in Requests \ {r} : req'[s] = req[s]
      /\ UNCHANGED ledger
  BY <1>0 DEF CheckOffset, Advance, TypeOK, trustVars
<1>4. LockFree(ledger[req[r].tx].case) /\ Covered(req[r].tx)
  BY DEF CheckOffset, OffsetMayProceed
<1>5. CoversAlone(req[r].tx, ledger[req[r].tx].case)
  BY <1>0, <1>2, <1>4, CoveredAlone
<1>6. LockExclusive'
  BY <1>3, <1>4 DEF BalanceInv, LockExclusive, LockFree
<1>7. BookingCovered'
  <2> SUFFICES ASSUME NEW s \in Requests, req'[s].op = "book",
                      NEW t, t = req'[s].tx
               PROVE  CoversAlone(t, ledger[t].case)'
    BY DEF BookingCovered, CoversAlone
  <2>1. CoversAlone(t, ledger[t].case)
    BY <1>3, <1>5 DEF BalanceInv, BookingCovered, CoversAlone
  <2> QED BY <1>3, <2>1
          DEF CoversAlone, Deposited, Debited, Booked, LedgerAmount, SumOf, Coins
<1>8. BalanceNonNegative'
  BY <1>3 DEF BalanceInv, BalanceNonNegative, TotalBalance, Deposited, Debited, Booked,
              LedgerAmount, SumOf, Coins
<1> QED BY <1>1, <1>6, <1>7, <1>8 DEF BalanceInv, StructInv

-----------------------------------------------------------------------------
\* No money has been booked at the start.
LEMMA InitBalance == Init => BalanceInv
<1> SUFFICES ASSUME Init PROVE BalanceInv
  OBVIOUS
<1>1. StructInv
  BY InitStruct
<1>2. \A r \in Requests : req[r].op = "idle"
  BY IdleType DEF Init, BookInit
<1>3. LockExclusive /\ BookingCovered
  BY <1>2 DEF LockExclusive, BookingCovered
<1>4. BalanceNonNegative
  <2> SUFFICES ASSUME NEW c \in Cases PROVE TotalBalance(c) >= 0
    BY DEF BalanceNonNegative
  <2>1. Deposited(c) = {} /\ Debited(c) = {}
    BY DEF Init, Deposited, Debited, Booked, NoRow
  <2> QED BY <2>1, SumEmpty DEF TotalBalance
<1> QED BY <1>1, <1>3, <1>4 DEF BalanceInv, StructInv

LEMMA BalanceStep == BalanceInv /\ [Next]_vars => BalanceInv'
<1> SUFFICES ASSUME BalanceInv, [Next]_vars PROVE BalanceInv'
  OBVIOUS
<1>0. StructInv
  BY DEF BalanceInv, StructInv
<1>1. CASE Next
  <2>1. Shape
    BY <1>0, <1>1, NextShape
  <2>2. ASSUME Quiet PROVE BalanceInv'
    BY <2>1, <2>2, QuietKeeps
  <2>3. CASE BookNext /\ UNCHANGED trustVars
    BY <1>0, <2>2, <2>3, BookQuiet
  <2>4. CASE Create
    BY <1>0, <2>2, <2>4, CreateQuiet
  <2>5. ASSUME NEW r \in Requests, Approve(r)
        PROVE  BalanceInv'
    <3>1. CASE SecondApprovalOfDisbursement(r)
      BY <2>1, <3>1, SecondApprovalBalance
    <3>2. CASE CheckOffset(r)
      BY <2>1, <3>2, CheckOffsetBalance
    <3>3. CASE BookOffset(r)
      BY <2>1, <3>3, BookOffsetBalance
    <3>4. CASE \/ \E u \in Users, t \in Txs : BeginApprove(r, u, t)
               \/ FirstApproval(r)
               \/ LoadOriginal(r)
               \/ FinalizeReversal(r)
      BY <1>0, <2>2, <3>4, ApproveQuiet
    <3> QED BY <2>5, <3>1, <3>2, <3>3, <3>4 DEF Approve
  <2>6. ASSUME NEW r \in Requests, Reverse(r)
        PROVE  BalanceInv'
    <3>1. ASSUME NEW x \in Txs, ReverseDeposit(r, x) PROVE BalanceInv'
      BY <2>1, <3>1, ReverseDepositBalance
    <3>2. ASSUME NEW x \in Txs, ReverseDebit(r, x) PROVE BalanceInv'
      <4>1. req[r].user \in Users
        BY <1>0, <3>2, RequestType DEF ReverseDebit, StructInv
      <4> QED BY <1>0, <2>2, <3>2, <4>1, ReverseQuiet
    <3>3. ASSUME NEW u \in Users, NEW t \in Txs, BeginReverse(r, u, t) PROVE BalanceInv'
      BY <1>0, <2>2, <3>3, ReverseQuiet
    <3> QED BY <2>6, <3>1, <3>2, <3>3 DEF Reverse
  <2>7. ASSUME NEW r \in Requests, (\E t \in Txs : BeginReject(r, t)) \/ Reject(r)
        PROVE  BalanceInv'
    BY <1>0, <2>2, <2>7, RejectQuiet
  <2>8. ASSUME NEW r \in Requests,
               (\E batch \in SUBSET Txs : BeginExport(r, batch)) \/ Export(r)
        PROVE  BalanceInv'
    BY <1>0, <2>2, <2>8, ExportQuiet
  <2> QED BY <1>1, <2>3, <2>4, <2>5, <2>6, <2>7, <2>8 DEF Next
<1>2. CASE UNCHANGED vars
  <2>1. UNCHANGED <<ledger, req>> /\ StructInv'
    BY <1>0, <1>2, StructStep DEF vars, trustVars
  <2> QED BY <2>1 DEF BalanceInv, StructInv, LockExclusive, BookingCovered,
                      BalanceNonNegative, TotalBalance, Deposited, Debited, Booked,
                      LedgerAmount, SumOf, Coins
<1> QED BY <1>1, <1>2

\* "Balance may NEVER go negative": in every interleaving of any number of requests,
\* the money booked on each case stays at zero or above.
THEOREM BalanceSafe == Spec => []BalanceNonNegative
<1>1. BalanceInv => BalanceNonNegative
  BY DEF BalanceInv
<1> QED BY <1>1, InitBalance, BalanceStep, PTL DEF Spec

-----------------------------------------------------------------------------
(* The refinement: seen as one balance per case, a step moves the amount of *)
(* one row, or nothing.                                                     *)

\* Row t counts after the step as it did before.
Steady(t) == (CountsIn(t)' <=> CountsIn(t)) /\ (CountsOut(t)' <=> CountsOut(t))

\* At most row t begins or ceases to count.
OnlyRow(t) == t \in Txs /\ \A s \in Txs \ {t} : Steady(s)

OneRowAtMost == (\A s \in Txs : Steady(s)) \/ \E t \in Txs : OnlyRow(t)

\* A row that counts as before is in the same sums with the same amount.
LEMMA SteadyRow ==
    ASSUME StructInv, LedgerStep, NEW s \in Txs, Steady(s), NEW c
    PROVE  /\ s \in Deposited(c) <=> s \in Deposited(c)'
           /\ s \in Debited(c) <=> s \in Debited(c)'
           /\ s \in Deposited(c) \cup Debited(c) => LedgerAmount[s] = LedgerAmount'[s]
<1>1. (CountsIn(s)' <=> CountsIn(s)) /\ (CountsOut(s)' <=> CountsOut(s))
  BY DEF Steady
<1>2. CASE ledger[s].kind = "none"
  <2>1. ~CountsIn(s) /\ ~CountsOut(s)
    BY <1>2 DEF CountsIn, CountsOut, Debits
  <2> QED BY <1>1, <2>1 DEF CountsIn, CountsOut, Deposited, Debited, Booked
<1>3. CASE ledger[s].kind # "none"
  <2>1. ledger'[s].case = ledger[s].case /\ ledger'[s].amount = ledger[s].amount
    BY <1>3 DEF LedgerStep, Created, Existing
  <2> QED BY <1>1, <2>1 DEF CountsIn, CountsOut, Deposited, Debited, Booked, LedgerAmount
<1> QED BY <1>2, <1>3

\* No balance moves when every row counts as before.
LEMMA BalanceStays ==
    ASSUME StructInv, LedgerStep, \A s \in Txs : Steady(s), NEW c
    PROVE  TotalBalance(c)' = TotalBalance(c)
<1> DEFINE amount1 == LedgerAmount'
<1>1. Deposited(c)' = Deposited(c) /\ Debited(c)' = Debited(c)
  BY SteadyRow DEF Deposited, Debited
<1>2. \A s \in Deposited(c) \cup Debited(c) : amount1[s] = LedgerAmount[s]
  BY SteadyRow DEF Deposited, Debited
<1>3. SumOf(Deposited(c), LedgerAmount)' = SumOf(Deposited(c), amount1)
  BY <1>1 DEF SumOf, Coins
<1>4. SumOf(Debited(c), LedgerAmount)' = SumOf(Debited(c), amount1)
  BY <1>1 DEF SumOf, Coins
<1> HIDE DEF amount1
<1>5. SumOf(Deposited(c), amount1) = SumOf(Deposited(c), LedgerAmount)
  BY <1>2, SumCongruent
<1>6. SumOf(Debited(c), amount1) = SumOf(Debited(c), LedgerAmount)
  BY <1>2, SumCongruent
<1> QED BY <1>3, <1>4, <1>5, <1>6 DEF TotalBalance

\* The sums of case c when no row but t begins or ceases to count.
LEMMA SumsMove ==
    ASSUME StructInv, LedgerStep, NEW t, OnlyRow(t), NEW a \in Amounts, ledger'[t].amount = a,
           NEW c
    PROVE  /\ MovedBy(Deposited(c), LedgerAmount, Deposited(c)', LedgerAmount', t, a)
           /\ MovedBy(Debited(c), LedgerAmount, Debited(c)', LedgerAmount', t, a)
<1> DEFINE In1 == Deposited(c)'
           Out1 == Debited(c)'
           amount1 == LedgerAmount'
<1>1. t \in Txs /\ \A s \in Txs \ {t} : Steady(s)
  BY DEF OnlyRow
<1>2. /\ Deposited(c) \subseteq Txs /\ Debited(c) \subseteq Txs
      /\ In1 \subseteq Txs /\ Out1 \subseteq Txs
  BY DEF Deposited, Debited
<1>3. /\ IsFiniteSet(Deposited(c)) /\ IsFiniteSet(Debited(c))
      /\ IsFiniteSet(In1) /\ IsFiniteSet(Out1)
  BY <1>2, TxsAssumption, FS_Subset
<1>4. \A s \in Txs \ {t} : /\ s \in Deposited(c) <=> s \in In1
                           /\ s \in Debited(c) <=> s \in Out1
                           /\ s \in Deposited(c) \cup Debited(c) => LedgerAmount[s] = amount1[s]
  BY <1>1, SteadyRow
<1>5. /\ t \in Deposited(c) \cup Debited(c) => LedgerAmount[t] = a
      /\ t \in In1 \cup Out1 => amount1[t] = a
  <2>1. amount1[t] = a
    BY <1>1 DEF LedgerAmount
  <2>2. ASSUME t \in Deposited(c) \cup Debited(c)
        PROVE  LedgerAmount[t] = a
    <3>1. ledger[t].kind # "none"
      BY <2>2 DEF Deposited, Debited, Debits
    <3>2. ledger'[t].amount = ledger[t].amount
      BY <1>1, <3>1 DEF LedgerStep, Created, Existing
    <3> QED BY <1>1, <3>2 DEF LedgerAmount
  <2> QED BY <2>1, <2>2
<1> HIDE DEF In1, Out1, amount1
<1>6. MovedBy(Deposited(c), LedgerAmount, In1, amount1, t, a)
  <2>1. Deposited(c) \ {t} = In1 \ {t}
    BY <1>2, <1>4
  <2>2. \A y \in Deposited(c) \ {t} : LedgerAmount[y] = amount1[y]
    BY <1>2, <1>4
  <2> QED BY <1>3, <1>5, <2>1, <2>2, SumMoves
<1>7. MovedBy(Debited(c), LedgerAmount, Out1, amount1, t, a)
  <2>1. Debited(c) \ {t} = Out1 \ {t}
    BY <1>2, <1>4
  <2>2. \A y \in Debited(c) \ {t} : LedgerAmount[y] = amount1[y]
    BY <1>2, <1>4
  <2> QED BY <1>3, <1>5, <2>1, <2>2, SumMoves
<1> QED BY <1>6, <1>7 DEF In1, Out1, amount1

\* The balance that row t makes: how much of case d it carries before and after.
LEMMA BalanceMoves ==
    ASSUME StructInv, LedgerStep, NEW t, OnlyRow(t), NEW a \in Amounts, ledger'[t].amount = a,
           NEW c, ledger'[t].case = c, Existing(t) \/ Created(t)
    PROVE  /\ \A d : d # c => TotalBalance(d)' = TotalBalance(d)
           /\ \/ TotalBalance(c)' = TotalBalance(c)
              \/ TotalBalance(c)' = TotalBalance(c) + a
              \/ TotalBalance(c)' = TotalBalance(c) - a
<1>0. t \in Txs /\ a \in Nat
  BY MaxAmountAssumption DEF OnlyRow, Amounts
<1>1. ASSUME NEW d
      PROVE  /\ TotalBalance(d) = SumOf(Deposited(d), LedgerAmount) - SumOf(Debited(d), LedgerAmount)
             /\ TotalBalance(d)' = SumOf(Deposited(d)', LedgerAmount') - SumOf(Debited(d)', LedgerAmount')
             /\ MovedBy(Deposited(d), LedgerAmount, Deposited(d)', LedgerAmount', t, a)
             /\ MovedBy(Debited(d), LedgerAmount, Debited(d)', LedgerAmount', t, a)
  BY SumsMove DEF TotalBalance, SumOf, Coins
<1>2. ASSUME NEW d, d # c
      PROVE  t \notin Deposited(d) \cup Debited(d) \cup Deposited(d)' \cup Debited(d)'
  BY <1>0, <1>2 DEF Deposited, Debited, Existing, Created, Debits
<1>3. /\ ~(t \in Deposited(c) /\ t \in Debited(c)')
      /\ ~(t \in Debited(c) /\ t \in Deposited(c)')
      /\ ~(t \in Deposited(c) /\ t \in Debited(c))
      /\ ~(t \in Deposited(c)' /\ t \in Debited(c)')
  BY <1>0 DEF Deposited, Debited, Existing, Created, Debits
<1>4. ASSUME NEW d, d # c
      PROVE  TotalBalance(d)' = TotalBalance(d)
  BY <1>1, <1>2, <1>4 DEF MovedBy
<1>5. \/ TotalBalance(c)' = TotalBalance(c)
      \/ TotalBalance(c)' = TotalBalance(c) + a
      \/ TotalBalance(c)' = TotalBalance(c) - a
  BY <1>0, <1>1, <1>3 DEF MovedBy
<1> QED BY <1>4, <1>5

\* Where one row at most begins or ceases to count, and no balance ends below zero, the
\* account receives, pays out or stands still.
Accounts == [c \in Cases |-> TotalBalance(c)]

LEMMA AccountStep ==
    ASSUME StructInv, Shape, BalanceNonNegative', OneRowAtMost
    PROVE  Account!Next \/ UNCHANGED Accounts
<1>0. LedgerStep /\ TypeOK'
  BY DEF Shape
<1>1. CASE \A s \in Txs : Steady(s)
  BY <1>0, <1>1, BalanceStays DEF Accounts
<1>2. ASSUME NEW t, OnlyRow(t), ~Steady(t)
      PROVE  Account!Next \/ UNCHANGED Accounts
  <2> SUFFICES ASSUME NEW a, a = ledger'[t].amount, NEW c, c = ledger'[t].case
               PROVE  Account!Next \/ UNCHANGED Accounts
    OBVIOUS
  <2>1. t \in Txs /\ (Existing(t) \/ Created(t))
    BY <1>0, <1>2 DEF OnlyRow, LedgerStep
  <2>2. ledger'[t] \in TxRow
    <3>1. CountsIn(t) \/ CountsIn(t)' \/ CountsOut(t) \/ CountsOut(t)'
      BY <1>2 DEF Steady
    <3>2. ledger'[t].kind # "none"
      BY <2>1, <3>1 DEF CountsIn, CountsOut, Existing, Created, Debits
    <3>3. ledger'[t] \in TxRow \cup {NoRow}
      BY <1>0, <2>1 DEF TypeOK
    <3> QED BY <3>2, <3>3 DEF NoRow
  <2>3. a \in Amounts /\ c \in Cases
    BY <2>2 DEF TxRow
  <2>4. /\ \A d : d # c => TotalBalance(d)' = TotalBalance(d)
        /\ \/ TotalBalance(c)' = TotalBalance(c)
           \/ TotalBalance(c)' = TotalBalance(c) + a
           \/ TotalBalance(c)' = TotalBalance(c) - a
    BY <1>0, <1>2, <2>1, <2>3, BalanceMoves
  <2>5. CASE TotalBalance(c)' = TotalBalance(c)
    <3>1. \A d \in Cases : TotalBalance(d)' = TotalBalance(d)
      BY <2>4, <2>5
    <3> QED BY <3>1 DEF Accounts
  <2>6. CASE TotalBalance(c)' = TotalBalance(c) + a
    <3>1. Accounts' = [Accounts EXCEPT ![c] = @ + a]
      BY <2>3, <2>4, <2>6 DEF Accounts
    <3>2. Account!Receive(c, a)
      BY <3>1 DEF Account!Receive, Accounts
    <3> QED BY <2>3, <3>2 DEF Account!Next, Account!Amounts, Amounts
  <2>7. CASE TotalBalance(c)' = TotalBalance(c) - a
    <3>1. Accounts' = [Accounts EXCEPT ![c] = @ - a]
      BY <2>3, <2>4, <2>7 DEF Accounts
    <3>2. Accounts[c] >= a
      <4>1. TotalBalance(c)' >= 0
        BY <2>3 DEF BalanceNonNegative
      <4>2. SumOf(Deposited(c), LedgerAmount) \in Nat /\ SumOf(Debited(c), LedgerAmount) \in Nat
        BY BalanceType
      <4>3. TotalBalance(c) \in Int /\ a \in Nat
        BY <2>3, <4>2, MaxAmountAssumption DEF TotalBalance, Amounts
      <4> QED BY <2>3, <2>7, <4>1, <4>3 DEF Accounts
    <3>3. Account!PayOut(c, a)
      BY <3>1, <3>2 DEF Account!PayOut, Accounts
    <3> QED BY <2>3, <3>3 DEF Account!Next, Account!Amounts, Amounts
  <2> QED BY <2>4, <2>5, <2>6, <2>7
<1>3. ASSUME NEW t, OnlyRow(t), Steady(t)
      PROVE  \A s \in Txs : Steady(s)
  BY <1>3 DEF OnlyRow
<1> QED BY <1>1, <1>2, <1>3 DEF OneRowAtMost

-----------------------------------------------------------------------------
(* Every action makes one row at most begin or cease to count.             *)

\* A row whose kind, status and reversal mark stay counts as before.
LEMMA SameRowSteady ==
    ASSUME NEW t \in Txs, ledger'[t].kind = ledger[t].kind,
           ledger'[t].status = ledger[t].status, ledger'[t].reversedBy = ledger[t].reversedBy
    PROVE  Steady(t)
BY DEF Steady, CountsIn, CountsOut, Booked

\* A storno counts neither as money in nor as money out.
LEMMA StornoSteady ==
    ASSUME NEW t \in Txs, ledger[t].kind \in {"none", "reversal"}, ledger'[t].kind = "reversal"
    PROVE  Steady(t)
BY DEF Steady, CountsIn, CountsOut, Debits

LEMMA OneRowMoves ==
    ASSUME NEW t \in Txs, \A s \in Txs \ {t} : ledger'[s] = ledger[s]
    PROVE  OneRowAtMost
<1>1. \A s \in Txs \ {t} : Steady(s)
  BY SameRowSteady
<1> QED BY <1>1 DEF OneRowAtMost, OnlyRow

LEMMA NoRowMoves ==
    ASSUME UNCHANGED ledger
    PROVE  OneRowAtMost
BY SameRowSteady DEF OneRowAtMost

LEMMA CreateMoves ==
    ASSUME StructInv, Create
    PROVE  OneRowAtMost
<1>1. PICK t \in Txs, c \in Cases, u \in Users, a \in Amounts :
        \/ CreateDeposit(t, c, u, a)
        \/ CreateDisbursement(t, c, u, a)
        \/ \E i \in Invoices : CreateOffset(t, c, u, a, i)
  BY DEF Create
<1>2. \E row : ledger' = [ledger EXCEPT ![t] = row]
  BY <1>1 DEF CreateDeposit, CreateDisbursement, CreateOffset
<1>3. \A s \in Txs \ {t} : ledger'[s] = ledger[s]
  BY <1>2 DEF StructInv, TypeOK
<1> QED BY <1>3, OneRowMoves

LEMMA ApproveMoves ==
    ASSUME StructInv, NEW r \in Requests, Approve(r)
    PROVE  OneRowAtMost
<1>0. TypeOK
  BY DEF StructInv
<1>1. CASE \/ \E u \in Users, t \in Txs : BeginApprove(r, u, t)
           \/ CheckOffset(r)
           \/ LoadOriginal(r)
  BY <1>1, NoRowMoves DEF BeginApprove, CheckOffset, LoadOriginal, trustVars
<1>2. CASE FirstApproval(r) \/ SecondApprovalOfDisbursement(r) \/ BookOffset(r)
  <2>1. req[r].tx \in Txs
    BY <1>0, <1>2, RequestType DEF FirstApproval, SecondApprovalOfDisbursement, SecondSlot, BookOffset
  <2>2. \E row : ledger' = [ledger EXCEPT ![req[r].tx] = row]
    BY <1>2 DEF FirstApproval, SecondApprovalOfDisbursement, BookOffset
  <2>3. \A s \in Txs \ {req[r].tx} : ledger'[s] = ledger[s]
    BY <1>0, <2>2 DEF TypeOK
  <2> QED BY <2>1, <2>3, OneRowMoves
<1>3. CASE FinalizeReversal(r)
  <2> SUFFICES ASSUME NEW x, x = req[r].tx, NEW t, t = ledger[x].reverses
               PROVE  OneRowAtMost
    OBVIOUS
  <2>1. x \in Txs /\ t \in Txs /\ ledger[x].kind = "reversal"
    BY <1>3, StornoRows DEF FinalizeReversal
  <2>2. Existing(x) /\ \A s \in Txs \ {x, t} : ledger'[s] = ledger[s]
    BY <1>3, <2>1, FinalizeRows
  <2>3. Steady(x)
    BY <2>1, <2>2, StornoSteady DEF Existing
  <2>4. \A s \in Txs \ {x, t} : Steady(s)
    BY <2>2, SameRowSteady
  <2> QED BY <2>1, <2>3, <2>4 DEF OneRowAtMost, OnlyRow
<1> QED BY <1>1, <1>2, <1>3 DEF Approve

LEMMA ReverseMoves ==
    ASSUME StructInv, NEW r \in Requests, Reverse(r)
    PROVE  OneRowAtMost
<1>0. TypeOK
  BY DEF StructInv
<1>1. ASSUME NEW u \in Users, NEW t \in Txs, BeginReverse(r, u, t)
      PROVE  OneRowAtMost
  BY <1>1, NoRowMoves DEF BeginReverse, trustVars
<1>2. ASSUME NEW x \in Txs, ReverseDeposit(r, x)
      PROVE  OneRowAtMost
  <2> SUFFICES ASSUME NEW t, t = req[r].tx
               PROVE  OneRowAtMost
    OBVIOUS
  <2>1. t \in Txs
    BY <1>0, <1>2, RequestType DEF ReverseDeposit
  <2>2. /\ ledger[x].kind = "none" /\ ledger'[x].kind = "reversal"
        /\ \A s \in Txs \ {x, t} : ledger'[s] = ledger[s]
    BY <1>2, <2>1, ReverseDepositRows
  <2>3. Steady(x)
    BY <2>2, StornoSteady
  <2>4. \A s \in Txs \ {x, t} : Steady(s)
    BY <2>2, SameRowSteady
  <2> QED BY <2>1, <2>3, <2>4 DEF OneRowAtMost, OnlyRow
<1>3. ASSUME NEW x \in Txs, ReverseDebit(r, x)
      PROVE  OneRowAtMost
  <2>1. \A s \in Txs \ {x} : ledger'[s] = ledger[s]
    BY <1>0, <1>3 DEF ReverseDebit, TypeOK
  <2> QED BY <2>1, OneRowMoves
<1> QED BY <1>1, <1>2, <1>3 DEF Reverse

LEMMA RejectMoves ==
    ASSUME StructInv, NEW r \in Requests, (\E t \in Txs : BeginReject(r, t)) \/ Reject(r)
    PROVE  OneRowAtMost
<1>1. CASE \E t \in Txs : BeginReject(r, t)
  BY <1>1, NoRowMoves DEF BeginReject, trustVars
<1>2. CASE Reject(r)
  <2>1. req[r].tx \in Txs
    BY <1>2, RequestType DEF Reject, StructInv
  <2>2. \A s \in Txs \ {req[r].tx} : ledger'[s] = ledger[s]
    BY <1>2 DEF Reject, StructInv, TypeOK
  <2> QED BY <2>1, <2>2, OneRowMoves
<1> QED BY <1>1, <1>2

LEMMA ExportMoves ==
    ASSUME StructInv, NEW r \in Requests,
           (\E batch \in SUBSET Txs : BeginExport(r, batch)) \/ Export(r)
    PROVE  OneRowAtMost
<1>1. CASE \E batch \in SUBSET Txs : BeginExport(r, batch)
  BY <1>1, NoRowMoves DEF BeginExport, trustVars
<1>2. CASE Export(r)
  <2>1. ASSUME NEW s \in Txs
        PROVE  Steady(s)
    <3>1. CASE s \in req[r].batch
      <4>1. ledger[s].kind = "disbursement"
        BY <1>2, <3>1 DEF Export, StructInv, RequestsWellFormed, RequestWellFormed
      <4>2. ledger[s] \in TxRow
        BY <4>1, RowType DEF StructInv
      <4>3. ledger'[s] = [ledger[s] EXCEPT !.exported = TRUE]
        BY <1>2, <3>1 DEF Export
      <4>4. /\ ledger'[s].kind = ledger[s].kind
            /\ ledger'[s].status = ledger[s].status
            /\ ledger'[s].reversedBy = ledger[s].reversedBy
        BY <4>2, <4>3 DEF TxRow
      <4> QED BY <4>4, SameRowSteady
    <3>2. CASE s \notin req[r].batch
      BY <1>2, <3>2, SameRowSteady DEF Export
    <3> QED BY <3>1, <3>2
  <2> QED BY <2>1 DEF OneRowAtMost
<1> QED BY <1>1, <1>2

LEMMA NextMoves ==
    ASSUME StructInv, Next
    PROVE  OneRowAtMost
<1>1. CASE BookNext /\ UNCHANGED trustVars
  BY <1>1, NoRowMoves DEF trustVars
<1> QED BY <1>1, CreateMoves, ApproveMoves, ReverseMoves, RejectMoves, ExportMoves DEF Next

\* The ledger implements the account, whatever the number of requests, cases and rows:
\* per case a balance that is never negative, and steps that move one transaction's
\* amount on one case, or nothing.
THEOREM LedgerIsAnAccount == Spec => ImplementsAccount
<1>1. Init => Account!Init
  <2> SUFFICES ASSUME Init PROVE Accounts = [c \in Cases |-> 0]
    BY DEF Account!Init, Accounts
  <2>1. ASSUME NEW c \in Cases PROVE TotalBalance(c) = 0
    <3>1. Deposited(c) = {} /\ Debited(c) = {}
      BY DEF Init, Deposited, Debited, Booked, NoRow
    <3> QED BY <3>1, SumEmpty DEF TotalBalance
  <2> QED BY <2>1 DEF Accounts
<1>2. BalanceInv /\ BalanceInv' /\ [Next]_vars => [Account!Next]_Accounts
  <2> SUFFICES ASSUME BalanceInv, BalanceInv', [Next]_vars
               PROVE  Account!Next \/ UNCHANGED Accounts
    OBVIOUS
  <2>0. StructInv
    BY DEF BalanceInv, StructInv
  <2>1. CASE Next
    <3>1. Shape /\ OneRowAtMost
      BY <2>0, <2>1, NextShape, NextMoves
    <3>2. BalanceNonNegative'
      BY DEF BalanceInv
    <3> QED BY <2>0, <3>1, <3>2, AccountStep
  <2>2. CASE UNCHANGED vars
    <3>1. UNCHANGED ledger
      BY <2>2 DEF vars, trustVars
    <3> QED BY <3>1 DEF Accounts, TotalBalance, Deposited, Debited, Booked, LedgerAmount,
                        SumOf, Coins
  <2> QED BY <2>1, <2>2
<1>3. Spec => []BalanceInv
  BY InitBalance, BalanceStep, PTL DEF Spec
<1> QED BY <1>1, <1>2, <1>3, PTL DEF Spec, ImplementsAccount, Account!Spec, Accounts

-----------------------------------------------------------------------------
(* Four eyes: two people other than the creator have signed for every      *)
(* booked transaction that needs approval.                                 *)
(*                                                                         *)
(* The columns app1 and app2 prove nothing under overlap, because a later  *)
(* request may overwrite them; what the proof follows is the history       *)
(* `signers', which only grows.  A request that signs carries the reason   *)
(* why its signature counts: its user did not create the row, and the      *)
(* first approver it read has really signed.                               *)

FourEyesInv == StructInv /\ SignersInv /\ TwoOthersSigned

TwoSigned(t) == \E u, v \in signers[t] : u # v

\* What SignersInv and TwoOthersSigned say of one row and of one request.
RowSigned(t) ==
    /\ Free(t) => signers[t] = {}
    /\ ledger[t].by \notin signers[t]
    /\ ledger[t].app1 # NoUser => ledger[t].app1 \in signers[t]
    /\ NeedsApproval(t) /\ ledger[t].status = "approved" => TwoSigned(t)

RequestSigned(r) ==
    /\ req[r].op \in {"approve", "book", "storno"} => req[r].user # ledger[req[r].tx].by
    /\ req[r].op = "approve" /\ req[r].app1 # NoUser => req[r].app1 \in signers[req[r].tx]
    /\ req[r].op \in {"book", "storno"} => \E v \in signers[req[r].tx] : v # req[r].user

AllSigned == (\A t \in Txs : RowSigned(t)) /\ (\A r \in Requests : RequestSigned(r))

LEMMA FourEyesByRow == SignersInv /\ TwoOthersSigned <=> (~SelfApprovalAllowed => AllSigned)
<1>1. ASSUME SignersInv, TwoOthersSigned, ~SelfApprovalAllowed
      PROVE  AllSigned
  <2>1. ASSUME NEW t \in Txs PROVE RowSigned(t)
    BY <1>1 DEF SignersInv, TwoOthersSigned, RowSigned, TwoSigned
  <2>2. ASSUME NEW r \in Requests PROVE RequestSigned(r)
    BY <1>1 DEF SignersInv, RequestSigned
  <2> QED BY <2>1, <2>2 DEF AllSigned
<1>2. ASSUME AllSigned
      PROVE  SignersInv
  BY <1>2 DEF AllSigned, SignersInv, RowSigned, RequestSigned
<1>3. ASSUME AllSigned
      PROVE  TwoOthersSigned
  BY <1>3 DEF AllSigned, TwoOthersSigned, RowSigned, TwoSigned
<1>4. ASSUME SelfApprovalAllowed
      PROVE  SignersInv /\ TwoOthersSigned
  BY <1>4 DEF SignersInv, TwoOthersSigned
<1> QED BY <1>1, <1>2, <1>3, <1>4

-----------------------------------------------------------------------------
(* What a step may do to one row without touching four eyes.               *)

SignaturesKept(t) ==
    /\ Existing(t)
    /\ signers'[t] = signers[t]
    /\ ledger'[t].app1 = ledger[t].app1
    /\ ledger'[t].status = "approved" => ledger[t].status = "approved"

\* A row that existed needs approval after the step only if it needed it before.
LEMMA NeededBefore ==
    ASSUME StructInv, LedgerStep, NEW t \in Txs, Existing(t), NeedsApproval(t)'
    PROVE  NeedsApproval(t)
<1>1. CASE ledger'[t].kind \in Debits
  BY <1>1 DEF Existing, NeedsApproval
<1>2. CASE ledger'[t].kind = "reversal" /\ ledger'[ledger'[t].reverses].kind \in Debits
  <2>1. /\ ledger[t].kind = "reversal"
        /\ ledger'[t].reverses = ledger[t].reverses
    BY <1>2 DEF Existing
  <2>2. /\ ledger[t].reverses \in Txs
        /\ ledger[ledger[t].reverses].kind \in Debits \cup {"deposit"}
    BY <2>1 DEF StructInv, RowsWellFormed, RowWellFormed
  <2>3. Existing(ledger[t].reverses)
    BY <2>2 DEF LedgerStep, Created, Debits
  <2> QED BY <1>2, <2>1, <2>2, <2>3 DEF Existing, NeedsApproval
<1> QED BY <1>1, <1>2 DEF NeedsApproval

LEMMA RowSignedKept ==
    ASSUME StructInv, LedgerStep, NEW t \in Txs, SignaturesKept(t), RowSigned(t)
    PROVE  RowSigned(t)'
<1>1. Free(t)' => signers'[t] = {}
  <2> SUFFICES ASSUME ledger'[t] = NoRow PROVE signers[t] = {}
    BY DEF Free, SignaturesKept
  <2>1. ledger[t].kind = "none"
    BY DEF SignaturesKept, Existing, NoRow
  <2>2. Free(t)
    BY <2>1, RowType DEF StructInv, Free
  <2> QED BY <2>2 DEF RowSigned
<1>2. NeedsApproval(t)' /\ ledger'[t].status = "approved" => TwoSigned(t)'
  BY NeededBefore DEF SignaturesKept, RowSigned, TwoSigned
<1> QED BY <1>1, <1>2 DEF RowSigned, SignaturesKept, Existing, Free

\* A request that has not moved keeps what it carries, because signatures stay.
LEMMA RequestSignedKept ==
    ASSUME StructInv, LedgerStep, \A t \in Txs : signers[t] \subseteq signers'[t],
           NEW r \in Requests, req'[r] = req[r], RequestSigned(r)
    PROVE  RequestSigned(r)'
<1> SUFFICES ASSUME req[r].op \in {"approve", "book", "storno"}
             PROVE  RequestSigned(r)'
  BY DEF RequestSigned
<1>1. req[r].tx \in Txs /\ ledger[req[r].tx] \in TxRow
  BY RequestRow
<1>2. ledger[req[r].tx].kind # "none"
  BY <1>1, RowType DEF StructInv
<1>3. Existing(req[r].tx)
  BY <1>1, <1>2 DEF LedgerStep, Created
<1>4. signers[req[r].tx] \subseteq signers'[req[r].tx]
  BY <1>1
<1> QED BY <1>3, <1>4 DEF RequestSigned, Existing

\* What a step does not sign, it may do: other requests keep what they carry.
Unsigning == {"reverse", "reject", "export"} \cup BookOps

SignStep ==
    /\ \A t \in Txs : SignaturesKept(t) \/ (signers[t] \subseteq signers'[t] /\ RowSigned(t)')
    /\ \A r \in Requests : req'[r] = req[r] \/ req'[r].op \in Unsigning \/ RequestSigned(r)'

LEMMA AllSignedKept ==
    ASSUME StructInv, LedgerStep, SignStep, AllSigned
    PROVE  AllSigned'
<1>1. ASSUME NEW t \in Txs PROVE RowSigned(t)'
  BY RowSignedKept DEF SignStep, AllSigned
<1>2. \A t \in Txs : signers[t] \subseteq signers'[t]
  BY DEF SignStep, SignaturesKept
<1>3. ASSUME NEW r \in Requests PROVE RequestSigned(r)'
  <2>1. CASE req'[r] = req[r]
    BY <1>2, <2>1, RequestSignedKept DEF AllSigned
  <2>2. CASE req'[r].op \in Unsigning
    BY <2>2 DEF RequestSigned, Unsigning, BookOps
  <2> QED BY <2>1, <2>2 DEF SignStep
<1> QED BY <1>1, <1>3 DEF AllSigned

-----------------------------------------------------------------------------
(* Every action is such a step.                                            *)

\* A step that leaves ledger and signatures alone and moves one request.
LEMMA LoadSigns ==
    ASSUME TypeOK, NEW r \in Requests, NEW seen, req' = [req EXCEPT ![r] = seen],
           UNCHANGED trustVars, seen.op \in Unsigning \/ RequestSigned(r)'
    PROVE  SignStep
<1>1. req'[r] = seen /\ \A s \in Requests \ {r} : req'[s] = req[s]
  BY DEF TypeOK
<1>2. \A t \in Txs : SignaturesKept(t)
  BY DEF SignaturesKept, Existing, trustVars
<1> QED BY <1>1, <1>2 DEF SignStep

\* A step that ends request r.
LEMMA DoneSigns ==
    ASSUME TypeOK, NEW r \in Requests, Done(r),
           \A t \in Txs : SignaturesKept(t) \/ (signers[t] \subseteq signers'[t] /\ RowSigned(t)')
    PROVE  SignStep
<1>1. req'[r] = Idle /\ \A s \in Requests \ {r} : req'[s] = req[s]
  BY DEF TypeOK, Done
<1>2. Idle.op \in Unsigning
  BY DEF Idle, Unsigning, BookOps
<1> QED BY <1>1, <1>2 DEF SignStep

\* A row that was free gets its creator; nobody has signed it, and nothing that needs
\* approval is born approved.
LEMMA CreatedSigned ==
    ASSUME AllSigned, NEW t \in Txs, Free(t), signers'[t] = signers[t],
           ledger'[t].app1 = NoUser, ~(NeedsApproval(t)' /\ ledger'[t].status = "approved")
    PROVE  RowSigned(t)'
BY DEF AllSigned, RowSigned, Free

\* What the new rows have in their columns.
LEMMA NewRowSigned ==
    ASSUME NEW kind, NEW status, NEW a, NEW c, NEW u
    PROVE  /\ Row(kind, status, a, c, u).kind = kind
           /\ Row(kind, status, a, c, u).status = status
           /\ Row(kind, status, a, c, u).app1 = NoUser
BY DEF Row, NoRow

LEMMA CreateSigns ==
    ASSUME StructInv, Create, AllSigned
    PROVE  SignStep
<1>1. PICK t \in Txs, c \in Cases, u \in Users, a \in Amounts :
        \/ CreateDeposit(t, c, u, a)
        \/ CreateDisbursement(t, c, u, a)
        \/ \E i \in Invoices : CreateOffset(t, c, u, a, i)
  BY DEF Create
<1>2. ASSUME NEW row, Free(t), ledger' = [ledger EXCEPT ![t] = row], row.app1 = NoUser,
             row.kind = "deposit" \/ row.status = "pending_approval",
             UNCHANGED <<req, signers>>
      PROVE  SignStep
  <2>1. ledger'[t] = row /\ \A s \in Txs \ {t} : ledger'[s] = ledger[s]
    BY <1>2 DEF StructInv, TypeOK
  <2>2. RowSigned(t)'
    BY <1>2, <2>1, CreatedSigned DEF NeedsApproval, Debits
  <2>3. \A s \in Txs \ {t} : SignaturesKept(s)
    BY <1>2, <2>1 DEF SignaturesKept, Existing
  <2> QED BY <1>2, <2>2, <2>3 DEF SignStep
<1>3. CASE CreateDeposit(t, c, u, a)
  <2> DEFINE row == Row("deposit", "approved", a, c, u)
  <2>1. row.kind = "deposit" /\ row.app1 = NoUser
    BY NewRowSigned
  <2> HIDE DEF row
  <2>2. ledger' = [ledger EXCEPT ![t] = row] /\ Free(t) /\ UNCHANGED <<req, signers>>
    BY <1>3 DEF CreateDeposit, row
  <2> QED BY <1>2, <2>1, <2>2
<1>4. CASE CreateDisbursement(t, c, u, a)
  <2> DEFINE row == Row("disbursement", "pending_approval", a, c, u)
  <2>1. row.status = "pending_approval" /\ row.app1 = NoUser
    BY NewRowSigned
  <2> HIDE DEF row
  <2>2. ledger' = [ledger EXCEPT ![t] = row] /\ Free(t) /\ UNCHANGED <<req, signers>>
    BY <1>4 DEF CreateDisbursement, row
  <2> QED BY <1>2, <2>1, <2>2
<1>5. ASSUME NEW i \in Invoices, CreateOffset(t, c, u, a, i)
      PROVE  SignStep
  <2> DEFINE row == [Row("offset_to_invoice", "pending_approval", a, c, u) EXCEPT !.inv = i]
  <2>1. row.status = "pending_approval" /\ row.app1 = NoUser
    BY DEF Row, NoRow
  <2> HIDE DEF row
  <2>2. ledger' = [ledger EXCEPT ![t] = row] /\ Free(t) /\ UNCHANGED <<req, signers>>
    BY <1>5 DEF CreateOffset, row
  <2> QED BY <1>2, <2>1, <2>2
<1> QED BY <1>1, <1>3, <1>4, <1>5

\* User u, who did not create row t, signs it; if the row is approved by this, somebody
\* else had signed before.
LEMMA SignedRow ==
    ASSUME StructInv, LedgerStep, AllSigned, NEW t \in Txs, ledger[t] \in TxRow,
           NEW u \in Users, u # ledger[t].by, Existing(t),
           signers' = [signers EXCEPT ![t] = @ \cup {u}],
           ledger'[t].app1 \in {u, ledger[t].app1},
           \/ ledger'[t].status = ledger[t].status
           \/ \E v \in signers[t] : v # u
    PROVE  /\ signers[t] \subseteq signers'[t]
           /\ RowSigned(t)'
           /\ \A s \in Txs \ {t} : signers'[s] = signers[s]
<1>1. /\ signers'[t] = signers[t] \cup {u}
      /\ \A s \in Txs \ {t} : signers'[s] = signers[s]
  BY DEF StructInv, TypeOK
<1>2. RowSigned(t)
  BY DEF AllSigned
<1>3. ledger'[t] # NoRow
  <2>1. ledger[t].kind # "none"
    BY RowType DEF StructInv
  <2> QED BY <2>1 DEF Existing, NoRow
<1>4. ledger'[t].by \notin signers'[t]
  BY <1>1, <1>2 DEF Existing, RowSigned
<1>5. ledger'[t].app1 # NoUser => ledger'[t].app1 \in signers'[t]
  BY <1>1, <1>2 DEF RowSigned
<1>6. NeedsApproval(t)' /\ ledger'[t].status = "approved" => TwoSigned(t)'
  <2> SUFFICES ASSUME NeedsApproval(t)', ledger'[t].status = "approved"
               PROVE  \E x, y \in signers'[t] : x # y
    BY DEF TwoSigned
  <2>1. NeedsApproval(t)
    BY NeededBefore
  <2>2. CASE ledger'[t].status = ledger[t].status
    BY <1>1, <1>2, <2>1, <2>2 DEF RowSigned, TwoSigned
  <2>3. CASE \E v \in signers[t] : v # u
    BY <1>1, <2>3
  <2> QED BY <2>2, <2>3
<1> QED BY <1>1, <1>3, <1>4, <1>5, <1>6 DEF RowSigned, Free

\* The second slot carries two signatures: that of the first approver as loaded, and the
\* user's own.
LEMMA SecondSlotSigned ==
    ASSUME StructInv, AllSigned, ~SelfApprovalAllowed, NEW r \in Requests, SecondSlot(r)
    PROVE  /\ req[r].tx \in Txs /\ ledger[req[r].tx] \in TxRow /\ req[r].user \in Users
           /\ req[r].user # ledger[req[r].tx].by
           /\ \E v \in signers[req[r].tx] : v # req[r].user
<1>1. req[r].tx \in Txs /\ ledger[req[r].tx] \in TxRow /\ req[r].user \in Users
  BY RequestRow, RequestType DEF SecondSlot, StructInv
<1>2. RequestSigned(r)
  BY DEF AllSigned
<1> QED BY <1>1, <1>2 DEF RequestSigned, SecondSlot

\* A second approval changes neither what the row is nor its first signature.
LEMMA ApprovedKeeps ==
    ASSUME NEW t \in Txs, ledger[t] \in TxRow, NEW u \in Users, ledger'[t] = Approved(t, u)
    PROVE  Existing(t) /\ ledger'[t].app1 = ledger[t].app1
<1>1. /\ Approved(t, u).kind = ledger[t].kind
      /\ Approved(t, u).case = ledger[t].case
      /\ Approved(t, u).amount = ledger[t].amount
      /\ Approved(t, u).by = ledger[t].by
      /\ Approved(t, u).inv = ledger[t].inv
      /\ Approved(t, u).reverses = ledger[t].reverses
      /\ Approved(t, u).app1 = ledger[t].app1
      /\ Approved(t, u).status = "approved"
  BY ApprovedType
<1> QED BY <1>1 DEF Existing

LEMMA SecondApprovalSigns ==
    ASSUME StructInv, LedgerStep, AllSigned, NEW r \in Requests, NEW t \in Txs,
           ledger[t] \in TxRow, NEW u \in Users, u # ledger[t].by,
           \E v \in signers[t] : v # u,
           ledger' = [ledger EXCEPT ![t] = Approved(t, u)],
           signers' = [signers EXCEPT ![t] = @ \cup {u}], Done(r)
    PROVE  SignStep
<1>0. TypeOK
  BY DEF StructInv
<1>1. ledger'[t] = Approved(t, u) /\ \A s \in Txs \ {t} : ledger'[s] = ledger[s]
  BY <1>0, ApprovedType, ReplaceType
<1>2. Existing(t) /\ ledger'[t].app1 = ledger[t].app1
  BY <1>1, ApprovedKeeps
<1>3. /\ signers[t] \subseteq signers'[t]
      /\ RowSigned(t)'
      /\ \A s \in Txs \ {t} : signers'[s] = signers[s]
  BY <1>2, SignedRow
<1>4. \A s \in Txs \ {t} : SignaturesKept(s)
  BY <1>1, <1>3 DEF SignaturesKept, Existing
<1> QED BY <1>0, <1>3, <1>4, DoneSigns

LEMMA ApproveSigns ==
    ASSUME StructInv, LedgerStep, AllSigned, ~SelfApprovalAllowed,
           NEW r \in Requests, Approve(r)
    PROVE  SignStep
<1>0. TypeOK
  BY DEF StructInv
<1>1. ASSUME NEW u \in Users, NEW t \in Txs, BeginApprove(r, u, t)
      PROVE  SignStep
  <2> DEFINE seen == [op |-> "approve", tx |-> t, user |-> u,
                      app1 |-> ledger[t].app1, app2 |-> ledger[t].app2]
  <2>1. req' = [req EXCEPT ![r] = seen] /\ UNCHANGED trustVars
    BY <1>1 DEF BeginApprove, Load
  <2>2. req'[r] = seen
    BY <1>0, <2>1 DEF TypeOK
  <2>3. u # ledger[t].by /\ RowSigned(t)
    BY <1>1 DEF BeginApprove, MayApprove, AllSigned
  <2>4. RequestSigned(r)'
    BY <2>1, <2>2, <2>3 DEF RequestSigned, RowSigned, trustVars
  <2> HIDE DEF seen
  <2> QED BY <1>0, <2>1, <2>4, LoadSigns
<1>2. ASSUME FirstApproval(r)
      PROVE  SignStep
  <2> SUFFICES ASSUME NEW t, t = req[r].tx, NEW u, u = req[r].user
               PROVE  SignStep
    OBVIOUS
  <2>1. t \in Txs /\ ledger[t] \in TxRow /\ u \in Users
    BY <1>0, <1>2, RequestRow, RequestType DEF FirstApproval
  <2>2. u # ledger[t].by
    BY <1>2 DEF FirstApproval, AllSigned, RequestSigned
  <2>3. /\ ledger' = [ledger EXCEPT ![t].app1 = u]
        /\ signers' = [signers EXCEPT ![t] = @ \cup {u}] /\ Done(r)
    BY <1>2 DEF FirstApproval
  <2>4. /\ ledger'[t] = [ledger[t] EXCEPT !.app1 = u]
        /\ \A s \in Txs \ {t} : ledger'[s] = ledger[s]
    BY <1>0, <2>1, <2>3 DEF TypeOK
  <2>5. Existing(t) /\ ledger'[t].app1 = u /\ ledger'[t].status = ledger[t].status
    BY <2>1, <2>4 DEF Existing, TxRow
  <2>6. /\ signers[t] \subseteq signers'[t]
        /\ RowSigned(t)'
        /\ \A s \in Txs \ {t} : signers'[s] = signers[s]
    BY <2>1, <2>2, <2>3, <2>5, SignedRow
  <2>7. \A s \in Txs \ {t} : SignaturesKept(s)
    BY <2>4, <2>6 DEF SignaturesKept, Existing
  <2> QED BY <1>0, <2>3, <2>6, <2>7, DoneSigns
<1>3. ASSUME SecondApprovalOfDisbursement(r)
      PROVE  SignStep
  BY <1>3, SecondSlotSigned, SecondApprovalSigns DEF SecondApprovalOfDisbursement
<1>4. ASSUME CheckOffset(r)
      PROVE  SignStep
  <2> DEFINE seen == [op |-> "book", tx |-> req[r].tx, user |-> req[r].user,
                      status |-> invoice[ledger[req[r].tx].inv].status,
                      paid |-> Paid(ledger[req[r].tx].inv)]
  <2>1. req' = [req EXCEPT ![r] = seen] /\ UNCHANGED trustVars
    BY <1>4 DEF CheckOffset, Advance
  <2>2. req'[r] = seen
    BY <1>0, <2>1 DEF TypeOK
  <2>3. /\ req[r].user # ledger[req[r].tx].by
        /\ \E v \in signers[req[r].tx] : v # req[r].user
    BY <1>4, SecondSlotSigned DEF CheckOffset
  <2>4. RequestSigned(r)'
    BY <2>1, <2>2, <2>3 DEF RequestSigned, trustVars
  <2> HIDE DEF seen
  <2> QED BY <1>0, <2>1, <2>4, LoadSigns
<1>5. ASSUME BookOffset(r)
      PROVE  SignStep
  <2>1. req[r].tx \in Txs /\ ledger[req[r].tx] \in TxRow /\ req[r].user \in Users
    BY <1>0, <1>5, RequestRow, RequestType DEF BookOffset
  <2>2. /\ req[r].user # ledger[req[r].tx].by
        /\ \E v \in signers[req[r].tx] : v # req[r].user
    BY <1>5 DEF BookOffset, AllSigned, RequestSigned
  <2> QED BY <1>5, <2>1, <2>2, SecondApprovalSigns DEF BookOffset
<1>6. ASSUME LoadOriginal(r)
      PROVE  SignStep
  <2> DEFINE seen == [op |-> "storno", tx |-> req[r].tx, user |-> req[r].user]
  <2>1. req' = [req EXCEPT ![r] = seen] /\ UNCHANGED trustVars
    BY <1>6 DEF LoadOriginal, Advance
  <2>2. req'[r] = seen
    BY <1>0, <2>1 DEF TypeOK
  <2>3. /\ req[r].user # ledger[req[r].tx].by
        /\ \E v \in signers[req[r].tx] : v # req[r].user
    BY <1>6, SecondSlotSigned DEF LoadOriginal
  <2>4. RequestSigned(r)'
    BY <2>1, <2>2, <2>3 DEF RequestSigned, trustVars
  <2> HIDE DEF seen
  <2> QED BY <1>0, <2>1, <2>4, LoadSigns
<1>7. ASSUME FinalizeReversal(r)
      PROVE  SignStep
  <2> SUFFICES ASSUME NEW x, x = req[r].tx, NEW t, t = ledger[x].reverses,
                      NEW u, u = req[r].user
               PROVE  SignStep
    OBVIOUS
  <2>1. /\ x \in Txs /\ t \in Txs /\ u \in Users /\ x # t
        /\ ledger[x] \in TxRow /\ ledger[t] \in TxRow
    BY <1>0, <1>7, StornoRows, RequestType DEF FinalizeReversal
  <2>2. u # ledger[x].by /\ \E v \in signers[x] : v # u
    BY <1>7 DEF FinalizeReversal, AllSigned, RequestSigned
  <2>3. /\ ledger' = [ledger EXCEPT ![x] = Approved(x, u), ![t].reversedBy = x]
        /\ signers' = [signers EXCEPT ![x] = @ \cup {u}] /\ Done(r)
    BY <1>7 DEF FinalizeReversal
  <2>4. /\ ledger'[x] = Approved(x, u)
        /\ ledger'[t] = [ledger[t] EXCEPT !.reversedBy = x]
        /\ \A s \in Txs \ {x, t} : ledger'[s] = ledger[s]
    BY <1>0, <2>1, <2>3 DEF TypeOK
  <2>5. Existing(x) /\ ledger'[x].app1 = ledger[x].app1
    BY <2>1, <2>4, ApprovedKeeps
  <2>6. /\ signers[x] \subseteq signers'[x]
        /\ RowSigned(x)'
        /\ \A s \in Txs \ {x} : signers'[s] = signers[s]
    BY <2>1, <2>2, <2>3, <2>5, SignedRow
  <2>7. SignaturesKept(t)
    BY <2>1, <2>4, <2>6 DEF SignaturesKept, Existing, TxRow
  <2>8. \A s \in Txs \ {x, t} : SignaturesKept(s)
    BY <2>4, <2>6 DEF SignaturesKept, Existing
  <2> QED BY <1>0, <2>3, <2>6, <2>7, <2>8, DoneSigns
<1> QED BY <1>1, <1>2, <1>3, <1>4, <1>5, <1>6, <1>7 DEF Approve

LEMMA ReverseSigns ==
    ASSUME StructInv, LedgerStep, AllSigned, NEW r \in Requests, Reverse(r)
    PROVE  SignStep
<1>0. TypeOK
  BY DEF StructInv
<1>1. ASSUME NEW u \in Users, NEW t \in Txs, BeginReverse(r, u, t)
      PROVE  SignStep
  BY <1>0, <1>1, LoadSigns DEF BeginReverse, Load, Unsigning
<1>2. ASSUME NEW x \in Txs, ReverseDeposit(r, x)
      PROVE  SignStep
  <2> SUFFICES ASSUME NEW t, t = req[r].tx
               PROVE  SignStep
    OBVIOUS
  <2>1. t \in Txs /\ ledger[t] \in TxRow /\ req[r].user \in Users
    BY <1>0, <1>2, RequestRow, RequestType DEF ReverseDeposit
  <2>2. /\ x # t /\ ledger'[t].status = ledger[t].status /\ Existing(t)
        /\ \A s \in Txs \ {x, t} : ledger'[s] = ledger[s]
    BY <1>2, <2>1, ReverseDepositRows
  <2>3. /\ ledger' = [ledger EXCEPT ![x] = Storno(t, "approved", req[r].user),
                                    ![t].reversedBy = x]
        /\ Free(x) /\ Done(r) /\ UNCHANGED signers /\ ledger[t].kind = "deposit"
    BY <1>2 DEF ReverseDeposit
  <2>4. /\ ledger'[x] = Storno(t, "approved", req[r].user)
        /\ ledger'[t] = [ledger[t] EXCEPT !.reversedBy = x]
    BY <1>0, <2>1, <2>2, <2>3 DEF TypeOK
  <2>5. /\ ledger'[x].app1 = NoUser /\ ledger'[x].reverses = t
        /\ ledger'[x].kind = "reversal"
    BY <2>4 DEF Storno, Row, NoRow
  <2>6. ~NeedsApproval(x)'
    BY <2>2, <2>3, <2>5 DEF NeedsApproval, Debits, Existing
  <2>7. RowSigned(x)'
    BY <2>3, <2>5, <2>6, CreatedSigned
  <2>8. SignaturesKept(t)
    BY <2>1, <2>2, <2>3, <2>4 DEF SignaturesKept, TxRow
  <2>9. \A s \in Txs \ {x, t} : SignaturesKept(s)
    BY <2>2, <2>3 DEF SignaturesKept, Existing
  <2> QED BY <1>0, <2>3, <2>7, <2>8, <2>9, DoneSigns
<1>3. ASSUME NEW x \in Txs, ReverseDebit(r, x)
      PROVE  SignStep
  <2> DEFINE row == Storno(req[r].tx, "pending_approval", req[r].user)
  <2>1. row.app1 = NoUser /\ row.status = "pending_approval"
    BY DEF Storno, Row, NoRow
  <2> HIDE DEF row
  <2>2. ledger' = [ledger EXCEPT ![x] = row] /\ Free(x) /\ Done(r) /\ UNCHANGED signers
    BY <1>3 DEF ReverseDebit, row
  <2>3. ledger'[x] = row /\ \A s \in Txs \ {x} : ledger'[s] = ledger[s]
    BY <1>0, <2>2 DEF TypeOK
  <2>4. RowSigned(x)'
    BY <2>1, <2>2, <2>3, CreatedSigned
  <2>5. \A s \in Txs \ {x} : SignaturesKept(s)
    BY <2>2, <2>3 DEF SignaturesKept, Existing
  <2> QED BY <1>0, <2>2, <2>4, <2>5, DoneSigns
<1> QED BY <1>1, <1>2, <1>3 DEF Reverse

LEMMA RejectSigns ==
    ASSUME StructInv, NEW r \in Requests, (\E t \in Txs : BeginReject(r, t)) \/ Reject(r)
    PROVE  SignStep
<1>0. TypeOK
  BY DEF StructInv
<1>1. ASSUME NEW t \in Txs, BeginReject(r, t)
      PROVE  SignStep
  BY <1>0, <1>1, LoadSigns DEF BeginReject, Load, Unsigning
<1>2. ASSUME Reject(r)
      PROVE  SignStep
  <2> SUFFICES ASSUME NEW t, t = req[r].tx
               PROVE  SignStep
    OBVIOUS
  <2>1. t \in Txs /\ ledger[t] \in TxRow
    BY <1>2, RequestRow DEF Reject
  <2>2. /\ ledger'[t] = [ledger[t] EXCEPT !.status = "rejected"]
        /\ \A s \in Txs \ {t} : ledger'[s] = ledger[s]
    BY <1>0, <1>2, <2>1 DEF Reject, TypeOK
  <2>3. SignaturesKept(t)
    BY <1>2, <2>1, <2>2 DEF Reject, SignaturesKept, Existing, TxRow
  <2>4. \A s \in Txs \ {t} : SignaturesKept(s)
    BY <1>2, <2>2 DEF Reject, SignaturesKept, Existing
  <2> QED BY <1>0, <1>2, <2>3, <2>4, DoneSigns DEF Reject
<1> QED BY <1>1, <1>2

LEMMA ExportSigns ==
    ASSUME StructInv, NEW r \in Requests,
           (\E batch \in SUBSET Txs : BeginExport(r, batch)) \/ Export(r)
    PROVE  SignStep
<1>0. TypeOK
  BY DEF StructInv
<1>1. ASSUME NEW batch \in SUBSET Txs, BeginExport(r, batch)
      PROVE  SignStep
  BY <1>0, <1>1, LoadSigns DEF BeginExport, Load, Unsigning
<1>2. ASSUME Export(r)
      PROVE  SignStep
  <2>1. ASSUME NEW s \in Txs
        PROVE  SignaturesKept(s)
    <3>1. CASE s \in req[r].batch
      <4>1. ledger[s].kind = "disbursement"
        BY <1>2, <3>1 DEF Export, StructInv, RequestsWellFormed, RequestWellFormed
      <4>2. ledger[s] \in TxRow
        BY <1>0, <4>1, RowType
      <4>3. ledger'[s] = [ledger[s] EXCEPT !.exported = TRUE]
        BY <1>2, <3>1 DEF Export
      <4> QED BY <1>2, <4>2, <4>3 DEF Export, SignaturesKept, Existing, TxRow
    <3>2. CASE s \notin req[r].batch
      BY <1>2, <3>2 DEF Export, SignaturesKept, Existing
    <3> QED BY <3>1, <3>2
  <2> QED BY <1>0, <1>2, <2>1, DoneSigns DEF Export
<1> QED BY <1>1, <1>2

LEMMA BookSigns ==
    ASSUME StructInv, BookNext, UNCHANGED trustVars
    PROVE  SignStep
<1>1. BookFrame
  BY BookStepType DEF StructInv
<1> QED BY <1>1 DEF BookFrame, SignStep, Unsigning, SignaturesKept, Existing, trustVars

-----------------------------------------------------------------------------
LEMMA InitFourEyes == Init => FourEyesInv
<1> SUFFICES ASSUME Init PROVE FourEyesInv
  OBVIOUS
<1>1. StructInv
  BY InitStruct
<1>2. \A t \in Txs : RowSigned(t)
  BY DEF Init, RowSigned, NoRow
<1>3. \A r \in Requests : RequestSigned(r)
  BY IdleType DEF Init, BookInit, RequestSigned
<1> QED BY <1>1, <1>2, <1>3, FourEyesByRow DEF FourEyesInv, AllSigned

LEMMA FourEyesStep == FourEyesInv /\ [Next]_vars => FourEyesInv'
<1> SUFFICES ASSUME FourEyesInv, [Next]_vars PROVE FourEyesInv'
  OBVIOUS
<1>0. StructInv /\ StructInv'
  BY StructStep DEF FourEyesInv
<1>1. SelfApprovalAllowed' <=> SelfApprovalAllowed
  BY DEF SelfApprovalAllowed
<1>2. ASSUME ~SelfApprovalAllowed
      PROVE  AllSigned'
  <2>0. AllSigned
    BY <1>2, FourEyesByRow DEF FourEyesInv
  <2>1. CASE Next
    <3>1. LedgerStep
      BY <1>0, <2>1, NextShape DEF Shape
    <3>2. SignStep
      BY <1>0, <1>2, <2>0, <2>1, <3>1, BookSigns, CreateSigns, ApproveSigns, ReverseSigns,
         RejectSigns, ExportSigns DEF Next
    <3> QED BY <1>0, <2>0, <3>1, <3>2, AllSignedKept
  <2>2. CASE UNCHANGED vars
    <3>1. LedgerStep /\ SignStep
      BY <2>2 DEF vars, trustVars, LedgerStep, SignStep, SignaturesKept, Existing
    <3> QED BY <1>0, <2>0, <3>1, AllSignedKept
  <2> QED BY <2>1, <2>2
<1>3. (SignersInv /\ TwoOthersSigned)' <=> (~SelfApprovalAllowed => AllSigned)'
  <2>1. (SignersInv /\ TwoOthersSigned <=> (~SelfApprovalAllowed => AllSigned))'
    BY FourEyesByRow, PTL
  <2> QED BY <2>1
<1> QED BY <1>0, <1>1, <1>2, <1>3 DEF FourEyesInv

\* Four eyes: with two or more users, or the flag off, every booked transaction that
\* needs approval was signed by two people who are not its creator, in every
\* interleaving of any number of requests.
THEOREM FourEyes == Spec => []TwoOthersSigned
<1>1. FourEyesInv => TwoOthersSigned
  BY DEF FourEyesInv
<1> QED BY <1>1, InitFourEyes, FourEyesStep, PTL DEF Spec
=============================================================================
