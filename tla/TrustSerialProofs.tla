--------------------------- MODULE TrustSerialProofs ---------------------------
(***************************************************************************)
(* What holds as long as requests do not overlap, for every set of cases,  *)
(* users, invoices, payments and transactions: what is booked covers the   *)
(* debits that wait, a storno and its original agree, and the payments on  *)
(* an invoice, its status and the offsets of the ledger tell one story.    *)
(*                                                                         *)
(* The argument: between the two steps of a request others may only create *)
(* transactions and delete invoices, so what the request has read is still *)
(* so when it commits.  Fresh and FreshBook say what that is.              *)
(***************************************************************************)
EXTENDS TrustLedgerProofs

\* At most one request is in flight.
OneAtATime == \A r, s \in Requests : r = s

-----------------------------------------------------------------------------
(* Rows: a storno works on an approved row, and takes effect on it once.   *)

ReversesApproved(x) ==
    /\ ledger[x].kind = "reversal" => ledger[ledger[x].reverses].status = "approved"
    /\ ledger[x].kind # "reversal" => ledger[x].reverses = NoTx

OneLiveStorno(t) == \A x, y \in LiveReversals(t) : x = y

MarkedByStorno(t) ==
    /\ ledger[t].status # "approved" => ledger[t].reversedBy = NoTx
    /\ \A x \in Txs : ledger[t].reversedBy = x
                        <=> ledger[x].reverses = t /\ ledger[x].status = "approved"

RowsAgree == \A t \in Txs : ReversesApproved(t) /\ OneLiveStorno(t) /\ MarkedByStorno(t)

\* Payments: one for each booked offset, and none refers to anything else.
BackedBy(p) ==
    p.ref # NoTx => /\ Booked(p.ref)
                    /\ ledger[p.ref].kind = "offset_to_invoice"
                    /\ ledger[p.ref].inv = p.inv
                    /\ ledger[p.ref].amount = p.amount

PaymentsAgree == OffsetBookedOnce /\ \A p \in payments : BackedBy(p)

\* Requests: what was read about the ledger still is so,
Fresh(r) ==
    /\ req[r].op \in {"approve", "book", "storno", "reject"} =>
          ledger[req[r].tx].status = "pending_approval"
    /\ req[r].op = "storno" => ledger[ledger[req[r].tx].reverses].reversedBy = NoTx
    /\ req[r].op = "reverse" => Booked(req[r].tx) /\ LiveReversals(req[r].tx) = {}

\* ... and what was read about the invoices.
BookSeen(seen) ==
    /\ seen.op = "book" =>
          LET t == seen.tx
              i == ledger[t].inv
          IN  /\ seen.status = invoice[i].status
              /\ seen.paid = Paid(i)
              /\ Room(i, ledger[t].amount)
    /\ seen.op = "pay" => /\ seen.status = invoice[seen.inv].status
                          /\ seen.paid = Paid(seen.inv)
                          /\ Room(seen.inv, seen.amount)
    /\ seen.op = "unpay" => /\ seen.row \in payments
                            /\ seen.status = invoice[seen.row.inv].status
    /\ seen.op = "status" =>
          /\ seen.status = invoice[seen.inv].status
          /\ seen.new \in ValidTransitions[seen.status] \ {"partially_paid"}
          /\ seen.new = "paid" => Paid(seen.inv) >= Total[seen.inv]

FreshBook(r) == BookSeen(req[r])

LedgerSerialInv == StructInv /\ RowsAgree /\ \A r \in Requests : Fresh(r)

\* Status and payments of the invoices.
BookAgrees == StatusMatchesPayments /\ NeverOverpaid

BookSerialInv == PaymentsAgree /\ BookAgrees /\ \A r \in Requests : FreshBook(r)

PaidSerialInv == LedgerSerialInv /\ BookSerialInv

-----------------------------------------------------------------------------
(* What a step does to the rows: one of six things.                        *)

Still(s) ==
    /\ Existing(s)
    /\ ledger'[s].status = ledger[s].status
    /\ ledger'[s].reversedBy = ledger[s].reversedBy

StillBut(rows) == \A s \in Txs \ rows : Still(s)

\* A free slot gets a deposit or a debit.
Opens(t) ==
    /\ t \in Txs /\ Free(t) /\ StillBut({t})
    /\ ledger'[t].kind \in Debits \cup {"deposit"}
    /\ ledger'[t].status = IF ledger'[t].kind = "deposit" THEN "approved" ELSE "pending_approval"
    /\ ledger'[t].reverses = NoTx /\ ledger'[t].reversedBy = NoTx

\* A waiting row is decided on; only debits are approved this way.
Decides(t) ==
    /\ t \in Txs /\ StillBut({t}) /\ Existing(t)
    /\ ledger[t].status = "pending_approval"
    /\ ledger'[t].status \in {"approved", "rejected"}
    /\ ledger'[t].status = "approved" => ledger[t].kind \in Debits
    /\ ledger'[t].reversedBy = ledger[t].reversedBy

\* The storno x of a booked row t that has no other: asked for, ...
Asks(x, t) ==
    /\ x \in Txs /\ t \in Txs /\ Free(x) /\ StillBut({x})
    /\ ledger'[x].kind = "reversal" /\ ledger'[x].status = "pending_approval"
    /\ ledger'[x].reverses = t /\ ledger'[x].reversedBy = NoTx
    /\ Booked(t) /\ LiveReversals(t) = {}

\* ... and taking effect.
Takes(x, t) ==
    /\ x \in Txs /\ t \in Txs /\ x # t /\ StillBut({x, t})
    /\ \/ Free(x)
       \/ ledger[x].kind = "reversal" /\ ledger[x].status = "pending_approval"
            /\ ledger[x].reverses = t
    /\ ledger'[x].kind = "reversal" /\ ledger'[x].status = "approved"
    /\ ledger'[x].reverses = t /\ ledger'[x].reversedBy = ledger[x].reversedBy
    /\ Existing(t) /\ ledger'[t].status = ledger[t].status /\ ledger'[t].reversedBy = x
    /\ Booked(t) /\ LiveReversals(t) \subseteq {x}

\* Work on the rows that are there, and what leaves every booked row booked.
Proceeds ==
    \/ StillBut({})
    \/ \E t \in Txs : Decides(t)
    \/ \E x, t \in Txs : Asks(x, t)

Keeps == Proceeds \/ \E t \in Txs : Opens(t)

RowEffect == Keeps \/ \E x, t \in Txs : Takes(x, t)

LEMMA SameIsStill ==
    ASSUME NEW s, ledger'[s] = ledger[s]
    PROVE  Still(s)
BY DEF Still, Existing

LEMMA CreateEffect ==
    ASSUME StructInv, Create
    PROVE  \E t \in Txs : Opens(t)
<1>1. PICK t \in Txs, c \in Cases, u \in Users, a \in Amounts :
        \/ CreateDeposit(t, c, u, a)
        \/ CreateDisbursement(t, c, u, a)
        \/ \E i \in Invoices : CreateOffset(t, c, u, a, i)
  BY DEF Create
<1> DEFINE Fits(row) ==
             /\ row.kind \in Debits \cup {"deposit"}
             /\ row.status = IF row.kind = "deposit" THEN "approved" ELSE "pending_approval"
             /\ row.reverses = NoTx /\ row.reversedBy = NoTx
<1>2. \E row : ledger' = [ledger EXCEPT ![t] = row] /\ Fits(row)
  <2>1. CASE CreateDeposit(t, c, u, a)
    <3>1. Fits(Row("deposit", "approved", a, c, u))
      BY DEF Row, NoRow
    <3> QED BY <2>1, <3>1 DEF CreateDeposit
  <2>2. CASE CreateDisbursement(t, c, u, a)
    <3>1. Fits(Row("disbursement", "pending_approval", a, c, u))
      BY DEF Row, NoRow, Debits
    <3> QED BY <2>2, <3>1 DEF CreateDisbursement
  <2>3. ASSUME NEW i \in Invoices, CreateOffset(t, c, u, a, i)
        PROVE  \E row : ledger' = [ledger EXCEPT ![t] = row] /\ Fits(row)
    <3>1. Fits([Row("offset_to_invoice", "pending_approval", a, c, u) EXCEPT !.inv = i])
      BY DEF Row, NoRow, Debits
    <3> QED BY <2>3, <3>1 DEF CreateOffset
  <2> QED BY <1>1, <2>1, <2>2, <2>3
<1>3. PICK row : ledger' = [ledger EXCEPT ![t] = row] /\ Fits(row)
  BY <1>2
<1>4. ledger'[t] = row /\ \A s \in Txs \ {t} : ledger'[s] = ledger[s]
  BY <1>3 DEF StructInv, TypeOK
<1>5. Free(t)
  BY <1>1 DEF CreateDeposit, CreateDisbursement, CreateOffset
<1>6. StillBut({t})
  BY <1>4, SameIsStill DEF StillBut
<1>7. Opens(t)
  BY <1>3, <1>4, <1>5, <1>6 DEF Opens
<1> QED BY <1>7

\* The second approval of a debit.
LEMMA ApprovedEffect ==
    ASSUME StructInv, NEW t \in Txs, ledger[t] \in TxRow, ledger[t].kind \in Debits,
           ledger[t].status = "pending_approval", NEW u \in Users,
           ledger' = [ledger EXCEPT ![t] = Approved(t, u)]
    PROVE  Decides(t)
<1>1. ledger'[t] = Approved(t, u) /\ \A s \in Txs \ {t} : ledger'[s] = ledger[s]
  BY ApprovedType, ReplaceType DEF StructInv
<1>2. StillBut({t})
  BY <1>1, SameIsStill DEF StillBut
<1>3. Existing(t)
  BY ApprovedRows
<1>4. ledger'[t].status = "approved" /\ ledger'[t].reversedBy = ledger[t].reversedBy
  <2>1. /\ Approved(t, u).status = "approved"
        /\ Approved(t, u).reversedBy = ledger[t].reversedBy
    BY DEF Approved, TxRow
  <2> QED BY <1>1, <2>1
<1> QED BY <1>2, <1>3, <1>4 DEF Decides

LEMMA ApproveEffect ==
    ASSUME LedgerSerialInv, NEW r \in Requests, Approve(r)
    PROVE  IF FinalizeReversal(r) THEN Takes(req[r].tx, ledger[req[r].tx].reverses) ELSE Proceeds
<1>0. StructInv /\ TypeOK /\ Fresh(r)
  BY DEF LedgerSerialInv, StructInv
<1>1. ASSUME \/ \E u \in Users, t \in Txs : BeginApprove(r, u, t)
             \/ CheckOffset(r)
             \/ LoadOriginal(r)
      PROVE  Proceeds
  <2>1. ledger' = ledger
    BY <1>1 DEF BeginApprove, CheckOffset, LoadOriginal, trustVars
  <2> QED BY <2>1, SameIsStill DEF Proceeds, StillBut
<1>2. ASSUME FirstApproval(r)
      PROVE  Proceeds
  <2> SUFFICES ASSUME NEW t, t = req[r].tx
               PROVE  Proceeds
    OBVIOUS
  <2>1. t \in Txs /\ ledger[t] \in TxRow
    BY <1>0, <1>2, RequestRow DEF FirstApproval
  <2>2. ledger'[t] = [ledger[t] EXCEPT !.app1 = req[r].user]
        /\ \A s \in Txs \ {t} : ledger'[s] = ledger[s]
    BY <1>0, <1>2, <2>1 DEF FirstApproval, TypeOK
  <2>3. Still(t)
    BY <2>1, <2>2 DEF Still, Existing, TxRow
  <2> QED BY <2>2, <2>3, SameIsStill DEF Proceeds, StillBut
<1>3. ASSUME SecondApprovalOfDisbursement(r) \/ BookOffset(r)
      PROVE  Proceeds
  <2> SUFFICES ASSUME NEW t, t = req[r].tx
               PROVE  Proceeds
    OBVIOUS
  <2>1. req[r].op \in {"approve", "book"}
    BY <1>3 DEF SecondApprovalOfDisbursement, BookOffset, SecondSlot
  <2>2. t \in Txs /\ ledger[t] \in TxRow /\ req[r].user \in Users
        /\ ledger[t].status = "pending_approval"
    BY <1>0, <2>1, RequestRow, RequestType DEF Fresh
  <2>3. ledger[t].kind \in Debits
    BY <1>0, <1>3 DEF SecondApprovalOfDisbursement, BookOffset, Debits, StructInv,
                      RequestsWellFormed, RequestWellFormed
  <2>4. ledger' = [ledger EXCEPT ![t] = Approved(t, req[r].user)]
    BY <1>3 DEF SecondApprovalOfDisbursement, BookOffset
  <2>5. Decides(t)
    BY <1>0, <2>2, <2>3, <2>4, ApprovedEffect
  <2> QED BY <2>2, <2>5 DEF Proceeds
<1>4. ASSUME FinalizeReversal(r)
      PROVE  Takes(req[r].tx, ledger[req[r].tx].reverses)
  <2> SUFFICES ASSUME NEW x, x = req[r].tx, NEW t, t = ledger[x].reverses
               PROVE  Takes(x, t)
    OBVIOUS
  <2>1. /\ x \in Txs /\ ledger[x] \in TxRow /\ ledger[x].kind = "reversal"
        /\ t \in Txs /\ ledger[t] \in TxRow /\ x # t
        /\ ledger[x].status = "pending_approval" /\ ledger[t].reversedBy = NoTx
        /\ req[r].user \in Users
    BY <1>0, <1>4, StornoRows, RequestType DEF FinalizeReversal, Fresh
  <2>2. /\ ledger'[x].status = "approved" /\ ledger'[t].status = ledger[t].status
        /\ ledger'[t].reversedBy = x
        /\ \A s \in Txs \ {x, t} : ledger'[s] = ledger[s]
        /\ Existing(x) /\ Existing(t)
    BY <1>0, <1>4, <2>1, FinalizeRows
  <2>3. ledger'[x].reversedBy = ledger[x].reversedBy
    <3>1. ledger'[x] = Approved(x, req[r].user)
      BY <1>0, <1>4, <2>1, ApprovedType DEF FinalizeReversal, TypeOK
    <3>2. Approved(x, req[r].user).reversedBy = ledger[x].reversedBy
      BY <2>1 DEF Approved, TxRow
    <3> QED BY <3>1, <3>2
  <2>4. ledger[t].status = "approved" /\ LiveReversals(t) \subseteq {x}
    BY <2>1 DEF LedgerSerialInv, RowsAgree, ReversesApproved, OneLiveStorno, LiveReversals
  <2>5. StillBut({x, t})
    BY <2>2, SameIsStill DEF StillBut
  <2> QED BY <2>1, <2>2, <2>3, <2>4, <2>5 DEF Takes, Existing, Booked
<1> QED BY <1>1, <1>2, <1>3, <1>4 DEF Approve

LEMMA ReverseEffect ==
    ASSUME LedgerSerialInv, NEW r \in Requests, Reverse(r)
    PROVE  \/ Proceeds
           \/ \E x \in Txs : ReverseDeposit(r, x) /\ Takes(x, req[r].tx)
<1>0. StructInv /\ TypeOK /\ Fresh(r)
  BY DEF LedgerSerialInv, StructInv
<1>1. CASE \E u \in Users, t \in Txs : BeginReverse(r, u, t)
  <2>1. ledger' = ledger
    BY <1>1 DEF BeginReverse, trustVars
  <2> QED BY <2>1, SameIsStill DEF Proceeds, StillBut
<1>2. ASSUME NEW x \in Txs, ReverseDeposit(r, x)
      PROVE  Takes(x, req[r].tx)
  <2> SUFFICES ASSUME NEW t, t = req[r].tx
               PROVE  Takes(x, t)
    OBVIOUS
  <2>1. t \in Txs /\ Booked(t) /\ LiveReversals(t) = {} /\ Free(x)
    BY <1>0, <1>2, RequestType DEF ReverseDeposit, Fresh
  <2>2. /\ x # t /\ ledger'[x].kind = "reversal" /\ ledger'[x].status = "approved"
        /\ ledger'[t].status = ledger[t].status /\ ledger'[t].reversedBy = x
        /\ \A s \in Txs \ {x, t} : ledger'[s] = ledger[s]
        /\ Existing(t)
    BY <1>0, <1>2, <2>1, ReverseDepositRows
  <2>3. ledger'[x].reverses = t /\ ledger'[x].reversedBy = NoTx /\ ledger[x].reversedBy = NoTx
    <3>1. ledger'[x] = Storno(t, "approved", req[r].user)
      BY <1>0, <1>2, <2>1, <2>2 DEF ReverseDeposit, TypeOK
    <3> QED BY <2>1, <3>1 DEF Storno, Row, NoRow, Free
  <2>4. StillBut({x, t})
    BY <2>2, SameIsStill DEF StillBut
  <2> QED BY <2>1, <2>2, <2>3, <2>4 DEF Takes
<1>3. ASSUME NEW x \in Txs, ReverseDebit(r, x)
      PROVE  Proceeds
  <2> SUFFICES ASSUME NEW t, t = req[r].tx
               PROVE  Proceeds
    OBVIOUS
  <2>1. t \in Txs /\ Booked(t) /\ LiveReversals(t) = {} /\ Free(x)
    BY <1>0, <1>3, RequestType DEF ReverseDebit, Fresh
  <2>2. /\ ledger'[x] = Storno(t, "pending_approval", req[r].user)
        /\ \A s \in Txs \ {x} : ledger'[s] = ledger[s]
    BY <1>0, <1>3 DEF ReverseDebit, TypeOK
  <2>3. /\ ledger'[x].kind = "reversal" /\ ledger'[x].status = "pending_approval"
        /\ ledger'[x].reverses = t /\ ledger'[x].reversedBy = NoTx
    BY <2>2 DEF Storno, Row, NoRow
  <2>4. StillBut({x})
    BY <2>2, SameIsStill DEF StillBut
  <2>5. Asks(x, t)
    BY <2>1, <2>3, <2>4 DEF Asks
  <2> QED BY <2>1, <2>5 DEF Proceeds
<1> QED BY <1>1, <1>2, <1>3 DEF Reverse

LEMMA RejectEffect ==
    ASSUME LedgerSerialInv, NEW r \in Requests,
           (\E t \in Txs : BeginReject(r, t)) \/ Reject(r)
    PROVE  Proceeds
<1>0. StructInv /\ TypeOK /\ Fresh(r)
  BY DEF LedgerSerialInv, StructInv
<1>1. CASE \E t \in Txs : BeginReject(r, t)
  <2>1. ledger' = ledger
    BY <1>1 DEF BeginReject, trustVars
  <2> QED BY <2>1, SameIsStill DEF Proceeds, StillBut
<1>2. CASE Reject(r)
  <2> SUFFICES ASSUME NEW t, t = req[r].tx
               PROVE  Proceeds
    OBVIOUS
  <2>1. t \in Txs /\ ledger[t] \in TxRow /\ ledger[t].status = "pending_approval"
    BY <1>0, <1>2, RequestRow DEF Reject, Fresh
  <2>2. /\ ledger'[t] = [ledger[t] EXCEPT !.status = "rejected"]
        /\ \A s \in Txs \ {t} : ledger'[s] = ledger[s]
    BY <1>0, <1>2, <2>1 DEF Reject, TypeOK
  <2>3. StillBut({t})
    BY <2>2, SameIsStill DEF StillBut
  <2>4. /\ Existing(t) /\ ledger'[t].status = "rejected"
        /\ ledger'[t].reversedBy = ledger[t].reversedBy
    BY <2>1, <2>2 DEF Existing, TxRow
  <2>5. Decides(t)
    BY <2>1, <2>3, <2>4 DEF Decides
  <2> QED BY <2>1, <2>5 DEF Proceeds
<1> QED BY <1>1, <1>2

LEMMA ExportEffect ==
    ASSUME StructInv, NEW r \in Requests,
           (\E batch \in SUBSET Txs : BeginExport(r, batch)) \/ Export(r)
    PROVE  StillBut({})
<1>1. CASE \E batch \in SUBSET Txs : BeginExport(r, batch)
  <2>1. ledger' = ledger
    BY <1>1 DEF BeginExport, trustVars
  <2> QED BY <2>1, SameIsStill DEF StillBut
<1>2. CASE Export(r)
  <2>1. ASSUME NEW s \in Txs
        PROVE  Still(s)
    <3>1. CASE s \in req[r].batch
      <4>1. ledger[s].kind = "disbursement"
        BY <1>2, <3>1 DEF Export, StructInv, RequestsWellFormed, RequestWellFormed
      <4>2. ledger[s] \in TxRow
        BY <4>1, RowType DEF StructInv
      <4>3. ledger'[s] = [ledger[s] EXCEPT !.exported = TRUE]
        BY <1>2, <3>1 DEF Export
      <4> QED BY <4>2, <4>3 DEF Still, Existing, TxRow
    <3>2. CASE s \notin req[r].batch
      BY <1>2, <3>2, SameIsStill DEF Export
    <3> QED BY <3>1, <3>2
  <2> QED BY <2>1 DEF StillBut
<1> QED BY <1>1, <1>2

LEMMA NextEffect ==
    ASSUME LedgerSerialInv, Next
    PROVE  RowEffect
<1>0. StructInv /\ TypeOK
  BY DEF LedgerSerialInv, StructInv
<1>1. CASE BookNext /\ UNCHANGED trustVars
  <2>1. ledger' = ledger
    BY <1>1 DEF trustVars
  <2> QED BY <2>1, SameIsStill DEF RowEffect, Keeps, Proceeds, StillBut
<1>2. CASE Create
  BY <1>0, <1>2, CreateEffect DEF RowEffect, Keeps
<1>3. ASSUME NEW r \in Requests, Approve(r)
      PROVE  RowEffect
  <2>1. CASE Takes(req[r].tx, ledger[req[r].tx].reverses)
    BY <2>1 DEF RowEffect, Takes
  <2> QED BY <1>3, <2>1, ApproveEffect DEF RowEffect, Keeps
<1>4. ASSUME NEW r \in Requests, Reverse(r)
      PROVE  RowEffect
  <2>1. ASSUME NEW x \in Txs, Takes(x, req[r].tx)
        PROVE  RowEffect
    BY <2>1 DEF RowEffect, Takes
  <2> QED BY <1>4, <2>1, ReverseEffect DEF RowEffect, Keeps
<1>5. ASSUME NEW r \in Requests, (\E t \in Txs : BeginReject(r, t)) \/ Reject(r)
      PROVE  RowEffect
  BY <1>5, RejectEffect DEF RowEffect, Keeps
<1>6. ASSUME NEW r \in Requests,
             (\E batch \in SUBSET Txs : BeginExport(r, batch)) \/ Export(r)
      PROVE  RowEffect
  BY <1>0, <1>6, ExportEffect DEF RowEffect, Keeps, Proceeds
<1> QED BY <1>1, <1>2, <1>3, <1>4, <1>5, <1>6 DEF Next

-----------------------------------------------------------------------------
(* Rows keep agreeing, whatever the effect of the step.                    *)

LEMMA StillRowsAgree ==
    ASSUME StructInv, RowsAgree, StillBut({})
    PROVE  RowsAgree'
<1>1. \A s \in Txs : Still(s)
  BY DEF StillBut
<1>2. \A s \in Txs : ledger[s].kind = "reversal" => ledger[s].reverses \in Txs
  BY DEF StructInv, RowsWellFormed, RowWellFormed
<1>3. \A s \in Txs : ReversesApproved(s)'
  BY <1>1, <1>2 DEF RowsAgree, ReversesApproved, Still, Existing
<1>4. \A s \in Txs : OneLiveStorno(s)'
  BY <1>1 DEF RowsAgree, OneLiveStorno, LiveReversals, Still, Existing
<1>5. \A s \in Txs : MarkedByStorno(s)'
  BY <1>1 DEF RowsAgree, MarkedByStorno, Still, Existing
<1> QED BY <1>3, <1>4, <1>5 DEF RowsAgree

LEMMA OpensRowsAgree ==
    ASSUME StructInv, RowsAgree, NEW t \in Txs, Opens(t)
    PROVE  RowsAgree'
<1>1. \A s \in Txs \ {t} : Still(s)
  BY DEF Opens, StillBut
<1>2. /\ ledger[t].kind = "none" /\ ledger[t].status = "none"
      /\ ledger[t].reverses = NoTx /\ ledger[t].reversedBy = NoTx
  BY DEF Opens, Free, NoRow
<1>3. ledger'[t].kind # "reversal" /\ ledger'[t].reverses = NoTx /\ ledger'[t].reversedBy = NoTx
  BY DEF Opens, Debits
<1>4. \A s \in Txs : ledger[s].kind = "reversal" => ledger[s].reverses \in Txs
  BY DEF StructInv, RowsWellFormed, RowWellFormed
<1>5. \A s \in Txs : s # NoTx
  BY NoTxAssumption
<1>6. \A s \in Txs : ReversesApproved(s)'
  BY <1>1, <1>2, <1>3, <1>4 DEF RowsAgree, ReversesApproved, Still, Existing
<1>7. \A s \in Txs : OneLiveStorno(s)'
  BY <1>1, <1>3, <1>5 DEF RowsAgree, OneLiveStorno, LiveReversals, Still, Existing
<1>8. \A s \in Txs : MarkedByStorno(s)'
  BY <1>1, <1>2, <1>3, <1>5 DEF RowsAgree, MarkedByStorno, Still, Existing
<1> QED BY <1>6, <1>7, <1>8 DEF RowsAgree

LEMMA DecidesRowsAgree ==
    ASSUME StructInv, RowsAgree, NEW t \in Txs, Decides(t)
    PROVE  RowsAgree'
<1>1. \A s \in Txs \ {t} : Still(s)
  BY DEF Decides, StillBut
<1>2. /\ Existing(t) /\ ledger[t].status = "pending_approval"
      /\ ledger'[t].status \in {"approved", "rejected"}
      /\ ledger'[t].status = "approved" => ledger[t].kind \in Debits
      /\ ledger'[t].reversedBy = ledger[t].reversedBy
  BY DEF Decides
<1>3. \A s \in Txs : ledger[s].kind = "reversal" => ledger[s].reverses \in Txs
  BY DEF StructInv, RowsWellFormed, RowWellFormed
<1>4. \A s \in Txs : s # NoTx
  BY NoTxAssumption
<1>5. \A s \in Txs : ReversesApproved(s)'
  BY <1>1, <1>2, <1>3 DEF RowsAgree, ReversesApproved, Still, Existing
<1>6. \A s \in Txs : OneLiveStorno(s)'
  BY <1>1, <1>2 DEF RowsAgree, OneLiveStorno, LiveReversals, Still, Existing
<1>7. ledger'[t].status = "approved" => ledger[t].reverses = NoTx
  BY <1>2 DEF RowsAgree, ReversesApproved, Debits
<1>8. \A s \in Txs : MarkedByStorno(s)'
  BY <1>1, <1>2, <1>4, <1>7 DEF RowsAgree, MarkedByStorno, Still, Existing
<1> QED BY <1>5, <1>6, <1>8 DEF RowsAgree

LEMMA AsksRowsAgree ==
    ASSUME StructInv, RowsAgree, NEW x \in Txs, NEW t \in Txs, Asks(x, t)
    PROVE  RowsAgree'
<1>1. \A s \in Txs \ {x} : Still(s)
  BY DEF Asks, StillBut
<1>2. /\ ledger[x].kind = "none" /\ ledger[x].status = "none"
      /\ ledger[x].reverses = NoTx /\ ledger[x].reversedBy = NoTx
  BY DEF Asks, Free, NoRow
<1>3. /\ ledger'[x].kind = "reversal" /\ ledger'[x].status = "pending_approval"
      /\ ledger'[x].reverses = t /\ ledger'[x].reversedBy = NoTx
      /\ ledger[t].status = "approved" /\ LiveReversals(t) = {}
  BY DEF Asks, Booked
<1>4. \A s \in Txs : ledger[s].kind = "reversal" => ledger[s].reverses \in Txs
  BY DEF StructInv, RowsWellFormed, RowWellFormed
<1>5. \A s \in Txs : s # NoTx
  BY NoTxAssumption
<1>6. \A s \in Txs : ReversesApproved(s)'
  BY <1>1, <1>2, <1>3, <1>4 DEF RowsAgree, ReversesApproved, Still, Existing
<1>7. \A s \in Txs : OneLiveStorno(s)'
  BY <1>1, <1>3 DEF RowsAgree, OneLiveStorno, LiveReversals, Still, Existing
<1>8. \A s \in Txs : MarkedByStorno(s)'
  BY <1>1, <1>2, <1>3, <1>5 DEF RowsAgree, MarkedByStorno, Still, Existing
<1> QED BY <1>6, <1>7, <1>8 DEF RowsAgree

LEMMA TakesRowsAgree ==
    ASSUME StructInv, RowsAgree, NEW x \in Txs, NEW t \in Txs, Takes(x, t)
    PROVE  RowsAgree'
<1>1. \A s \in Txs \ {x, t} : Still(s)
  BY DEF Takes, StillBut
<1>2. /\ ledger[x].status # "approved"
      /\ ledger[x].reversedBy = NoTx
      /\ ledger[x].reverses \in {t, NoTx}
      /\ ledger[x].kind \in {"none", "reversal"}
  BY DEF Takes, Free, NoRow, RowsAgree, MarkedByStorno
<1>3. /\ ledger'[x].kind = "reversal" /\ ledger'[x].status = "approved"
      /\ ledger'[x].reverses = t /\ ledger'[x].reversedBy = NoTx
  BY <1>2 DEF Takes
<1>4. /\ x # t /\ Existing(t) /\ ledger'[t].status = ledger[t].status /\ ledger'[t].reversedBy = x
      /\ ledger[t].status = "approved" /\ ledger[t].reversedBy = NoTx
      /\ LiveReversals(t) \subseteq {x}
  BY DEF Takes, Booked
<1>5. \A s \in Txs : ledger[s].kind = "reversal" => ledger[s].reverses \in Txs
  BY DEF StructInv, RowsWellFormed, RowWellFormed
<1>6. \A s \in Txs : s # NoTx
  BY NoTxAssumption
<1>7. \A s \in Txs : ReversesApproved(s)'
  BY <1>1, <1>2, <1>3, <1>4, <1>5 DEF RowsAgree, ReversesApproved, Still, Existing
<1>8. \A s \in Txs : OneLiveStorno(s)'
  BY <1>1, <1>3, <1>4 DEF RowsAgree, OneLiveStorno, LiveReversals, Still, Existing
<1>9. \A s \in Txs : MarkedByStorno(s)'
  <2>1. \A y \in Txs : ledger[y].reverses = t /\ ledger[y].status = "approved" => y = x
    BY <1>4 DEF LiveReversals
  <2>2. MarkedByStorno(x)'
    BY <1>1, <1>2, <1>3, <1>4, <1>6 DEF RowsAgree, MarkedByStorno, Still, Existing
  <2>3. MarkedByStorno(t)'
    BY <1>1, <1>3, <1>4, <1>6, <2>1 DEF RowsAgree, MarkedByStorno, Still, Existing
  <2>4. ASSUME NEW s \in Txs \ {x, t}
        PROVE  MarkedByStorno(s)'
    BY <1>1, <1>2, <1>3, <1>4, <1>6 DEF RowsAgree, MarkedByStorno, Still, Existing
  <2> QED BY <2>2, <2>3, <2>4
<1> QED BY <1>7, <1>8, <1>9 DEF RowsAgree

LEMMA RowsKeepAgreeing ==
    ASSUME StructInv, RowsAgree, RowEffect
    PROVE  RowsAgree'
BY StillRowsAgree, OpensRowsAgree, DecidesRowsAgree, AsksRowsAgree, TakesRowsAgree
   DEF RowEffect, Keeps, Proceeds

-----------------------------------------------------------------------------
(* What a request has read about the ledger stays so until it commits.     *)

\* A new row is no storno of anything, and the rows that are there stay as they are.
LEMMA CreateKeepsFresh ==
    ASSUME LedgerSerialInv, Create, NEW r \in Requests
    PROVE  Fresh(r)'
<1>0. StructInv /\ TypeOK /\ Fresh(r)
  BY DEF LedgerSerialInv, StructInv
<1>1. PICK t \in Txs : Opens(t)
  BY <1>0, CreateEffect
<1>2. req' = req
  BY DEF Create, CreateDeposit, CreateDisbursement, CreateOffset
<1>3. ASSUME NEW s \in Txs, ledger[s] \in TxRow
      PROVE  Still(s)
  <2>1. ledger[s].kind # "none" /\ ledger[t].kind = "none"
    BY <1>0, <1>1, <1>3, RowType DEF Opens, Free, NoRow
  <2> QED BY <1>1, <2>1 DEF Opens, StillBut
<1>4. CASE req[r].op \in {"approve", "book", "reject"}
  <2>1. Still(req[r].tx)
    BY <1>0, <1>3, <1>4, RequestRow
  <2> QED BY <1>0, <1>2, <1>4, <2>1 DEF Fresh, Still
<1>5. CASE req[r].op = "storno"
  <2>1. Still(req[r].tx) /\ Still(ledger[req[r].tx].reverses)
    BY <1>0, <1>3, <1>5, StornoRows
  <2> QED BY <1>0, <1>2, <1>5, <2>1 DEF Fresh, Still, Existing
<1>6. CASE req[r].op = "reverse"
  <2> SUFFICES ASSUME NEW o, o = req[r].tx
               PROVE  Fresh(r)'
    OBVIOUS
  <2>1. o \in Txs /\ Still(o)
    BY <1>0, <1>3, <1>6, RequestRow
  <2>2. \A s \in Txs \ {t} : Still(s)
    BY <1>1 DEF Opens, StillBut
  <2>3. ledger'[t].reverses # o
    BY <1>1, <2>1, NoTxAssumption DEF Opens
  <2>4. Booked(o) /\ LiveReversals(o) = {}
    BY <1>0, <1>6 DEF Fresh
  <2>5. LiveReversals(o)' = {}
    BY <2>2, <2>3, <2>4 DEF LiveReversals, Still, Existing
  <2>6. Booked(o)'
    BY <2>1, <2>4 DEF Booked, Still
  <2> QED BY <1>2, <1>6, <2>5, <2>6 DEF Fresh
<1> QED BY <1>2, <1>4, <1>5, <1>6 DEF Fresh

\* The request that ends has nothing to rely on.
LEMMA DoneFresh ==
    ASSUME TypeOK, NEW r \in Requests, Done(r)
    PROVE  Fresh(r)' /\ FreshBook(r)'
<1>1. req'[r].op = "idle"
  BY IdleType DEF Done, TypeOK
<1> QED BY <1>1 DEF Fresh, FreshBook, BookSeen

\* A step that leaves the ledger alone and loads a request whose guard said it.
LEMMA LoadFresh ==
    ASSUME TypeOK, NEW r \in Requests, NEW seen, req' = [req EXCEPT ![r] = seen], ledger' = ledger,
           seen.op \in {"approve", "book", "storno", "reject"} =>
              ledger[seen.tx].status = "pending_approval",
           seen.op = "storno" => ledger[ledger[seen.tx].reverses].reversedBy = NoTx,
           seen.op = "reverse" => Booked(seen.tx) /\ LiveReversals(seen.tx) = {}
    PROVE  Fresh(r)'
<1>1. req'[r] = seen
  BY DEF TypeOK
<1> QED BY <1>1 DEF Fresh, Booked, LiveReversals

LEMMA OwnStepFresh ==
    ASSUME LedgerSerialInv, NEW r \in Requests, Next, req' # req,
           \A s \in Requests : s = r
    PROVE  Fresh(r)'
<1>0. TypeOK /\ Fresh(r)
  BY DEF LedgerSerialInv, StructInv
<1>1. CASE BookNext /\ UNCHANGED trustVars
  <2>1. req'[r].op \in BookOps
    <3>1. BookFrame
      BY <1>0, <1>1, BookStepType
    <3>2. req' \in [Requests -> BookRequest \cup TrustRequest] /\ DOMAIN req = Requests
      BY <1>0, <3>1 DEF BookFrame, TypeOK
    <3>3. req'[r] # req[r]
      BY <1>0, <3>2 DEF TypeOK
    <3> QED BY <3>1, <3>3 DEF BookFrame
  <2> QED BY <2>1 DEF BookOps, Fresh
<1>2. ASSUME Approve(r)
      PROVE  Fresh(r)'
  <2>1. ASSUME NEW u \in Users, NEW t \in Txs, BeginApprove(r, u, t)
        PROVE  Fresh(r)'
    BY <1>0, <2>1, LoadFresh DEF BeginApprove, MayApprove, Load, trustVars
  <2>2. ASSUME CheckOffset(r)
        PROVE  Fresh(r)'
    <3>1. ledger[req[r].tx].status = "pending_approval"
      BY <1>0, <2>2 DEF CheckOffset, SecondSlot, Fresh
    <3> QED BY <1>0, <2>2, <3>1, LoadFresh DEF CheckOffset, Advance, trustVars
  <2>3. ASSUME LoadOriginal(r)
        PROVE  Fresh(r)'
    <3>1. ledger[req[r].tx].status = "pending_approval"
      BY <1>0, <2>3 DEF LoadOriginal, SecondSlot, Fresh
    <3> QED BY <1>0, <2>3, <3>1, LoadFresh DEF LoadOriginal, Advance, trustVars
  <2>4. CASE Done(r)
    BY <1>0, <2>4, DoneFresh
  <2> QED BY <1>2, <2>1, <2>2, <2>3, <2>4
          DEF Approve, FirstApproval, SecondApprovalOfDisbursement, BookOffset, FinalizeReversal
<1>3. ASSUME Reverse(r)
      PROVE  Fresh(r)'
  <2>1. ASSUME NEW u \in Users, NEW t \in Txs, BeginReverse(r, u, t)
        PROVE  Fresh(r)'
    BY <1>0, <2>1, LoadFresh DEF BeginReverse, MayReverse, Load, trustVars
  <2>2. CASE Done(r)
    BY <1>0, <2>2, DoneFresh
  <2> QED BY <1>3, <2>1, <2>2 DEF Reverse, ReverseDeposit, ReverseDebit
<1>4. ASSUME NEW t \in Txs, BeginReject(r, t)
      PROVE  Fresh(r)'
  BY <1>0, <1>4, LoadFresh DEF BeginReject, MayReject, Load, trustVars
<1>5. ASSUME NEW batch \in SUBSET Txs, BeginExport(r, batch)
      PROVE  Fresh(r)'
  BY <1>0, <1>5, LoadFresh DEF BeginExport, Load, trustVars
<1>6. CASE Reject(r) \/ Export(r)
  BY <1>0, <1>6, DoneFresh DEF Reject, Export
<1>7. CASE Create
  BY <1>7 DEF Create, CreateDeposit, CreateDisbursement, CreateOffset
<1> QED BY <1>1, <1>2, <1>3, <1>4, <1>5, <1>6, <1>7 DEF Next

\* Steps that leave every request where it is: a new transaction, a deleted invoice.
LEMMA IdleStepFresh ==
    ASSUME LedgerSerialInv, NEW r \in Requests, Next, req' = req
    PROVE  Fresh(r)'
<1>0. TypeOK /\ Fresh(r)
  BY DEF LedgerSerialInv, StructInv
<1>1. CASE Create
  BY <1>1, CreateKeepsFresh
<1>2. CASE ledger' = ledger
  BY <1>0, <1>2 DEF Fresh, Booked, LiveReversals
<1>3. ASSUME NEW s \in Requests, Done(s), req[s].op # "idle"
      PROVE  FALSE
  BY <1>0, <1>3, IdleType DEF Done, TypeOK
<1> QED
  BY <1>1, <1>2, <1>3
     DEF Next, trustVars, Approve, Reverse, BeginApprove, FirstApproval, CheckOffset, LoadOriginal,
         SecondApprovalOfDisbursement, SecondSlot, BookOffset, FinalizeReversal, BeginReverse,
         ReverseDeposit, ReverseDebit, BeginReject, Reject, BeginExport, Export

-----------------------------------------------------------------------------
(* The ledger of one request at a time.                                    *)

LEMMA InitLedgerSerial == Init => LedgerSerialInv
<1> SUFFICES ASSUME Init PROVE LedgerSerialInv
  OBVIOUS
<1>1. StructInv
  BY InitStruct
<1>2. \A t \in Txs : /\ ledger[t].kind = "none" /\ ledger[t].status = "none"
                     /\ ledger[t].reverses = NoTx /\ ledger[t].reversedBy = NoTx
  BY DEF Init, NoRow
<1>3. RowsAgree
  BY <1>2, NoTxAssumption
     DEF RowsAgree, ReversesApproved, OneLiveStorno, MarkedByStorno, LiveReversals
<1>4. \A r \in Requests : req[r].op = "idle"
  BY IdleType DEF Init, BookInit
<1>5. \A r \in Requests : Fresh(r)
  BY <1>4 DEF Fresh
<1> QED BY <1>1, <1>3, <1>5 DEF LedgerSerialInv

LEMMA LedgerSerialNext ==
    ASSUME OneAtATime, LedgerSerialInv, Next
    PROVE  LedgerSerialInv'
<1>0. StructInv /\ RowsAgree
  BY DEF LedgerSerialInv
<1>1. StructInv'
  BY <1>0, NextShape, StructKept DEF Shape
<1>2. RowsAgree'
  BY <1>0, NextEffect, RowsKeepAgreeing
<1>3. \A r \in Requests : Fresh(r)'
  <2>1. CASE req' = req
    BY <2>1, IdleStepFresh
  <2>2. CASE req' # req
    BY <2>2, OwnStepFresh DEF OneAtATime
  <2> QED BY <2>1, <2>2
<1> QED BY <1>1, <1>2, <1>3 DEF LedgerSerialInv

LEMMA LedgerSerialStep ==
    ASSUME OneAtATime
    PROVE  LedgerSerialInv /\ [Next]_vars => LedgerSerialInv'
<1> SUFFICES ASSUME LedgerSerialInv, [Next]_vars PROVE LedgerSerialInv'
  OBVIOUS
<1>1. CASE Next
  BY <1>1, LedgerSerialNext
<1>2. CASE UNCHANGED vars
  <2>1. StructInv'
    BY StructStep DEF LedgerSerialInv
  <2>2. ledger' = ledger /\ req' = req
    BY <1>2 DEF vars, trustVars
  <2>3. RowsAgree'
    BY <2>2 DEF LedgerSerialInv, RowsAgree, ReversesApproved, OneLiveStorno, MarkedByStorno,
                LiveReversals
  <2>4. \A r \in Requests : Fresh(r)'
    BY <2>2 DEF LedgerSerialInv, Fresh, Booked, LiveReversals
  <2> QED BY <2>1, <2>3, <2>4 DEF LedgerSerialInv
<1> QED BY <1>1, <1>2

\* Where rows agree, an original has one live storno at most.
LEMMA AgreeingRowsMatch == RowsAgree => StornoMatchesOriginal
<1> SUFFICES ASSUME RowsAgree, NEW t \in Txs
             PROVE  Cardinality(LiveReversals(t)) <= 1
  BY DEF RowsAgree, MarkedByStorno, StornoMatchesOriginal
<1>1. CASE LiveReversals(t) = {}
  BY <1>1, FS_EmptySet
<1>2. ASSUME NEW x \in LiveReversals(t)
      PROVE  Cardinality(LiveReversals(t)) <= 1
  <2>1. LiveReversals(t) = {x}
    BY <1>2 DEF RowsAgree, OneLiveStorno
  <2>2. Cardinality({x}) = 1
    BY FS_Singleton
  <2> QED BY <2>1, <2>2
<1> QED BY <1>1, <1>2

\* As long as requests do not overlap, a storno and its original agree: one live storno
\* at most, and the original carries its mark exactly when the storno is approved.
THEOREM StornosAgree ==
    ASSUME OneAtATime
    PROVE  Spec => []StornoMatchesOriginal
<1>1. LedgerSerialInv => StornoMatchesOriginal
  BY AgreeingRowsMatch DEF LedgerSerialInv
<1> QED BY <1>1, InitLedgerSerial, LedgerSerialStep, PTL DEF Spec

-----------------------------------------------------------------------------
(* What is paid on an invoice, before a step and after it.                 *)

LEMMA SamePaid ==
    ASSUME payments' = payments, NEW i
    PROVE  Paid(i)' = Paid(i)
BY DEF Paid, PaymentsOn, RowAmount, SumOf, Coins

\* A new row adds its amount on its invoice.
LEMMA PaidWith ==
    ASSUME TypeOK, NEW p \in PaymentRow, FreshId(p.id), payments' = payments \cup {p}
    PROVE  /\ Paid(p.inv)' = Paid(p.inv) + p.amount
           /\ \A j : j # p.inv => Paid(j)' = Paid(j)
<1> DEFINE amount1 == RowAmount'
           On1(j) == PaymentsOn(j)'
<1>1. p \notin payments /\ p.amount \in Amounts
  BY DEF FreshId, PaymentRow
<1>2. ASSUME NEW j
      PROVE  /\ IsFiniteSet(PaymentsOn(j)) /\ IsFiniteSet(On1(j))
             /\ PaymentsOn(j) \ {p} = On1(j) \ {p}
             /\ p \notin PaymentsOn(j)
             /\ p \in On1(j) <=> j = p.inv
  <2>1. IsFiniteSet(payments) /\ IsFiniteSet(payments')
    BY FS_AddElement DEF TypeOK, BookTypeOK
  <2>2. PaymentsOn(j) \subseteq payments /\ On1(j) \subseteq payments'
    BY DEF PaymentsOn
  <2>3. IsFiniteSet(PaymentsOn(j)) /\ IsFiniteSet(On1(j))
    BY <2>1, <2>2, FS_Subset
  <2> QED BY <1>1, <2>3 DEF PaymentsOn
<1>3. amount1[p] = p.amount /\ \A q \in payments : RowAmount[q] = amount1[q]
  BY DEF RowAmount
<1>4. ASSUME NEW j
      PROVE  /\ Paid(j) = SumOf(PaymentsOn(j), RowAmount)
             /\ Paid(j)' = SumOf(On1(j), amount1)
             /\ PaymentsOn(j) \subseteq payments
  BY DEF Paid, PaymentsOn, SumOf, Coins
<1> HIDE DEF amount1, On1
<1>5. ASSUME NEW j
      PROVE  MovedBy(PaymentsOn(j), RowAmount, On1(j), amount1, p, p.amount)
  BY <1>1, <1>2, <1>3, <1>4, SumMoves
<1> QED BY <1>2, <1>4, <1>5 DEF MovedBy

\* Rows that go take their amounts with them, on their invoice only.
LEMMA PaidWithout ==
    ASSUME TypeOK, NEW i, NEW gone, gone \subseteq PaymentsOn(i), payments' = payments \ gone
    PROVE  /\ Paid(i)' = SumOf({p \in payments \ gone : p.inv = i}, RowAmount)
           /\ Paid(i)' \in Nat /\ Paid(i) \in Nat /\ Paid(i)' <= Paid(i)
           /\ \A j : j # i => Paid(j)' = Paid(j)
<1> DEFINE amount1 == RowAmount'
           On1(j) == PaymentsOn(j)'
<1>1. ASSUME NEW j
      PROVE  /\ IsFiniteSet(PaymentsOn(j)) /\ IsFiniteSet(On1(j))
             /\ On1(j) \subseteq PaymentsOn(j)
             /\ j # i => On1(j) = PaymentsOn(j)
             /\ Paid(j) = SumOf(PaymentsOn(j), RowAmount)
             /\ Paid(j)' = SumOf(On1(j), amount1)
             /\ \A q \in On1(j) : amount1[q] = RowAmount[q]
  <2>1. On1(j) \subseteq PaymentsOn(j) /\ PaymentsOn(j) \subseteq payments
    BY DEF PaymentsOn
  <2>2. IsFiniteSet(PaymentsOn(j)) /\ IsFiniteSet(On1(j))
    BY <2>1, FS_Subset DEF TypeOK, BookTypeOK
  <2>3. Paid(j) = SumOf(PaymentsOn(j), RowAmount) /\ Paid(j)' = SumOf(On1(j), amount1)
    BY DEF Paid, SumOf, Coins
  <2>4. \A q \in On1(j) : amount1[q] = RowAmount[q]
    BY <2>1 DEF RowAmount, PaymentsOn
  <2>5. j # i => On1(j) = PaymentsOn(j)
    BY DEF PaymentsOn
  <2> QED BY <2>1, <2>2, <2>3, <2>4, <2>5
<1>2. On1(i) = {p \in payments \ gone : p.inv = i}
  BY DEF PaymentsOn
<1> HIDE DEF amount1, On1
<1>3. ASSUME NEW j
      PROVE  Paid(j)' = SumOf(On1(j), RowAmount)
  <2>1. SumOf(On1(j), amount1) = SumOf(On1(j), RowAmount)
    BY <1>1, SumCongruent
  <2> QED BY <1>1, <2>1
<1>4. /\ SumOf(On1(i), RowAmount) \in Nat /\ SumOf(PaymentsOn(i), RowAmount) \in Nat
      /\ SumOf(On1(i), RowAmount) <= SumOf(PaymentsOn(i), RowAmount)
  BY <1>1, SumType, SumMonotone
<1> QED BY <1>1, <1>2, <1>3, <1>4

-----------------------------------------------------------------------------
(* Status and payments of one invoice.                                     *)

\* A handler that computes the status from what is paid gets it right.
LEMMA SettledAgrees ==
    ASSUME TypeOK, BookAgrees, NEW i \in Invoices, NEW paid \in Nat, Paid(i)' = paid,
           \A j \in Invoices \ {i} : Paid(j)' = Paid(j),
           NEW status, status = invoice[i].status,
           WriteStatus(i, status, StatusAfter(i, status, paid)),
           paid > 0 => paid <= Total[i]
    PROVE  BookAgrees'
<1>1. status \in InvoiceStatus /\ Total[i] \in Int
  BY TotalAssumption DEF TypeOK, BookTypeOK
<1>2. /\ invoice'[i].status = StatusAfter(i, status, paid)
      /\ \A j \in Invoices \ {i} : invoice'[j].status = invoice[j].status
  BY DEF WriteStatus, TypeOK, BookTypeOK
<1> DEFINE Fits(j, st, sum) ==
             /\ st \in {"concept", "approved", "sent", "overdue"} => sum = 0
             /\ st = "partially_paid" => sum > 0 /\ sum < Total[j]
             /\ st = "paid" => sum >= Total[j]
<1>3. Fits(i, StatusAfter(i, status, paid), paid)
  BY <1>1 DEF StatusAfter, InvoiceStatus
<1>4. \A j \in Invoices \ {i} : Fits(j, invoice'[j].status, Paid(j)')
  BY <1>2 DEF BookAgrees, StatusMatchesPayments
<1>5. \A j \in Invoices : Fits(j, invoice'[j].status, Paid(j)')
  BY <1>2, <1>3, <1>4
<1>6. StatusMatchesPayments'
  BY <1>5 DEF StatusMatchesPayments
<1>7. NeverOverpaid'
  BY DEF BookAgrees, NeverOverpaid
<1> QED BY <1>6, <1>7 DEF BookAgrees

LEMMA AddedAgrees ==
    ASSUME TypeOK, BookAgrees, NEW p \in PaymentRow, FreshId(p.id), payments' = payments \cup {p},
           Room(p.inv, p.amount),
           WriteStatus(p.inv, invoice[p.inv].status,
                       StatusAfter(p.inv, invoice[p.inv].status, Paid(p.inv) + p.amount))
    PROVE  BookAgrees'
<1>1. p.inv \in Invoices /\ p.amount \in Nat
  BY MaxAmountAssumption DEF PaymentRow, Amounts
<1>2. /\ Paid(p.inv)' = Paid(p.inv) + p.amount
      /\ \A j : j # p.inv => Paid(j)' = Paid(j)
  BY PaidWith
<1>3. Paid(p.inv) + p.amount \in Nat
  BY <1>1, PaidType
<1>4. Paid(p.inv) + p.amount <= Total[p.inv]
  BY DEF Room
<1> QED BY <1>1, <1>2, <1>3, <1>4, SettledAgrees

LEMMA DroppedAgrees ==
    ASSUME TypeOK, BookAgrees, NEW i \in Invoices, NEW gone, gone \subseteq PaymentsOn(i),
           payments' = payments \ gone,
           NEW paid, paid = SumOf({p \in payments \ gone : p.inv = i}, RowAmount),
           WriteStatus(i, invoice[i].status, StatusAfter(i, invoice[i].status, paid))
    PROVE  BookAgrees'
<1>1. /\ Paid(i)' = paid
      /\ paid \in Nat /\ Paid(i) \in Nat /\ paid <= Paid(i)
      /\ \A j : j # i => Paid(j)' = Paid(j)
  BY PaidWithout
<1>2. paid > 0 => paid <= Total[i]
  BY <1>1, TotalAssumption DEF BookAgrees, NeverOverpaid
<1> QED BY <1>1, <1>2, SettledAgrees

LEMMA UntouchedAgrees ==
    ASSUME BookAgrees, payments' = payments,
           \A i \in Invoices : invoice'[i].status = invoice[i].status
    PROVE  BookAgrees'
<1>1. \A i : Paid(i)' = Paid(i)
  BY SamePaid
<1> QED BY <1>1 DEF BookAgrees, StatusMatchesPayments, NeverOverpaid

\* The status workflow leaves statuses that say something is paid to the payments.
LEMMA ChangedAgrees ==
    ASSUME TypeOK, BookAgrees, NEW r \in Requests, FreshBook(r), ChangeStatus(r)
    PROVE  BookAgrees'
<1> SUFFICES ASSUME NEW i, i = req[r].inv, NEW new, new = req[r].new
             PROVE  BookAgrees'
  OBVIOUS
<1>1. i \in Invoices
  <2>1. req[r] \in BookRequest \cup TrustRequest /\ req[r].op = "status"
    BY DEF TypeOK, ChangeStatus
  <2> QED BY <2>1 DEF BookRequest, TrustRequest
<1>2. /\ new \in ValidTransitions[invoice[i].status] \ {"partially_paid"}
      /\ new = "paid" => Paid(i) >= Total[i]
      /\ WriteStatus(i, invoice[i].status, new)
      /\ payments' = payments
  BY DEF ChangeStatus, FreshBook, BookSeen
<1>3. /\ invoice'[i].status = new
      /\ \A j \in Invoices \ {i} : invoice'[j].status = invoice[j].status
  BY <1>1, <1>2 DEF WriteStatus, TypeOK, BookTypeOK
<1>4. \A j : Paid(j)' = Paid(j)
  BY <1>2, SamePaid
<1>5. invoice[i].status \in InvoiceStatus
  BY <1>1 DEF TypeOK, BookTypeOK
<1>6. \/ new \in {"approved", "sent", "overdue"} /\ invoice[i].status \in {"concept", "approved", "sent"}
      \/ new \in {"paid", "cancelled"}
  BY <1>2, <1>5 DEF ValidTransitions, InvoiceStatus
<1>7. new \in {"approved", "sent", "overdue"} => Paid(i) = 0
  BY <1>1, <1>6 DEF BookAgrees, StatusMatchesPayments
<1>8. StatusMatchesPayments'
  BY <1>1, <1>2, <1>3, <1>4, <1>6, <1>7 DEF BookAgrees, StatusMatchesPayments
<1>9. NeverOverpaid'
  BY <1>4 DEF BookAgrees, NeverOverpaid
<1> QED BY <1>8, <1>9 DEF BookAgrees

-----------------------------------------------------------------------------
(* Payments and the offsets they book.                                     *)

LEMMA KeepsBooked ==
    ASSUME Keeps, NEW s \in Txs, Booked(s)
    PROVE  Booked(s)'
<1>1. ASSUME NEW t, ~Booked(t), StillBut({t})
      PROVE  Booked(s)'
  BY <1>1 DEF StillBut, Still, Booked
<1>2. CASE StillBut({})
  BY <1>2 DEF StillBut, Still, Booked
<1>3. ASSUME NEW t \in Txs, Opens(t)
      PROVE  Booked(s)'
  BY <1>1, <1>3 DEF Opens, Free, NoRow, Booked
<1>4. ASSUME NEW t \in Txs, Decides(t)
      PROVE  Booked(s)'
  BY <1>1, <1>4 DEF Decides, Booked
<1>5. ASSUME NEW x \in Txs, NEW t \in Txs, Asks(x, t)
      PROVE  Booked(s)'
  BY <1>1, <1>5 DEF Asks, Free, NoRow, Booked
<1> QED BY <1>2, <1>3, <1>4, <1>5 DEF Keeps, Proceeds

\* A payment stays backed as long as its offset stays booked.
LEMMA BackingStays ==
    ASSUME StructInv, LedgerStep, NEW p \in payments, BackedBy(p),
           p.ref # NoTx => Booked(p.ref)'
    PROVE  BackedBy(p)'
<1> SUFFICES ASSUME p.ref # NoTx PROVE BackedBy(p)'
  BY DEF BackedBy
<1>1. p.ref \in Txs
  BY DEF StructInv, TypeOK, BookTypeOK, PaymentRow
<1>2. ledger[p.ref].kind = "offset_to_invoice"
  BY DEF BackedBy
<1>3. Existing(p.ref)
  BY <1>1, <1>2 DEF LedgerStep, Created
<1> QED BY <1>2, <1>3 DEF BackedBy, Existing

LEMMA KeepsPayments ==
    ASSUME StructInv, LedgerStep, PaymentsAgree, Keeps, payments' \subseteq payments
    PROVE  PaymentsAgree'
<1>1. ASSUME NEW p \in payments
      PROVE  BackedBy(p)'
  <2>1. BackedBy(p)
    BY DEF PaymentsAgree
  <2>2. p.ref # NoTx => p.ref \in Txs
    BY DEF StructInv, TypeOK, BookTypeOK, PaymentRow
  <2> QED BY <2>1, <2>2, BackingStays, KeepsBooked DEF BackedBy
<1> QED BY <1>1 DEF PaymentsAgree, OffsetBookedOnce

\* A payment of a client refers to no offset.
LEMMA PayKeeps ==
    ASSUME StructInv, PaymentsAgree, BookAgrees, NEW r \in Requests, FreshBook(r), Pay(r),
           UNCHANGED trustVars
    PROVE  PaymentsAgree' /\ BookAgrees'
<1> SUFFICES ASSUME NEW i, i = req[r].inv, NEW a, a = req[r].amount
             PROVE  PaymentsAgree' /\ BookAgrees'
  OBVIOUS
<1>0. TypeOK
  BY DEF StructInv
<1>1. i \in Invoices /\ a \in Amounts
  <2>1. req[r] \in BookRequest \cup TrustRequest /\ req[r].op = "pay"
    BY <1>0 DEF TypeOK, Pay
  <2> QED BY <2>1 DEF BookRequest, TrustRequest
<1>2. PICK id \in PaymentIds :
        /\ FreshId(id)
        /\ payments' = payments \cup {[id |-> id, inv |-> i, amount |-> a, ref |-> NoTx]}
  BY DEF Pay
<1>3. PICK p \in PaymentRow :
        p.id = id /\ p.inv = i /\ p.amount = a /\ p.ref = NoTx /\ payments' = payments \cup {p}
  BY <1>1, <1>2 DEF PaymentRow
<1>4. /\ Room(i, a)
      /\ WriteStatus(i, invoice[i].status, StatusAfter(i, invoice[i].status, Paid(i) + a))
  BY DEF Pay, FreshBook, BookSeen
<1>5. BookAgrees'
  BY <1>0, <1>2, <1>3, <1>4, AddedAgrees
<1>6. PaymentsAgree'
  <2>1. ledger' = ledger
    BY DEF trustVars
  <2> QED BY <1>3, <2>1 DEF PaymentsAgree, OffsetBookedOnce, BackedBy, Booked
<1> QED BY <1>5, <1>6

LEMMA UnpayKeeps ==
    ASSUME StructInv, PaymentsAgree, BookAgrees, NEW r \in Requests, FreshBook(r), Unpay(r),
           UNCHANGED trustVars
    PROVE  PaymentsAgree' /\ BookAgrees'
<1> SUFFICES ASSUME NEW row, row = req[r].row, NEW i, i = row.inv
             PROVE  PaymentsAgree' /\ BookAgrees'
  OBVIOUS
<1>0. TypeOK
  BY DEF StructInv
<1>1. row \in payments /\ req[r].status = invoice[i].status
  BY DEF Unpay, FreshBook, BookSeen
<1>2. i \in Invoices
  BY <1>0, <1>1 DEF TypeOK, BookTypeOK, PaymentRow
<1>3. PICK paid : paid = SumOf({p \in payments \ {row} : p.inv = i}, RowAmount)
  OBVIOUS
<1>4. /\ payments' = payments \ {row}
      /\ WriteStatus(i, invoice[i].status, StatusAfter(i, invoice[i].status, paid))
  BY <1>1, <1>3 DEF Unpay
<1>5. {row} \subseteq PaymentsOn(i)
  BY <1>1 DEF PaymentsOn
<1>6. BookAgrees'
  BY <1>0, <1>2, <1>3, <1>4, <1>5, DroppedAgrees
<1>7. PaymentsAgree'
  <2>1. ledger' = ledger
    BY DEF trustVars
  <2> QED BY <1>4, <2>1 DEF PaymentsAgree, OffsetBookedOnce, BackedBy, Booked
<1> QED BY <1>6, <1>7

\* The booking of an offset: it waited until now, so nothing referred to it.
LEMMA BookOffsetKeeps ==
    ASSUME LedgerSerialInv, Shape, Keeps, PaymentsAgree, BookAgrees,
           NEW r \in Requests, FreshBook(r), BookOffset(r)
    PROVE  PaymentsAgree' /\ BookAgrees'
<1> SUFFICES ASSUME NEW t, t = req[r].tx, NEW i, i = ledger[t].inv, NEW a, a = ledger[t].amount
             PROVE  PaymentsAgree' /\ BookAgrees'
  OBVIOUS
<1>0. StructInv /\ TypeOK /\ LedgerStep
  BY DEF LedgerSerialInv, StructInv, Shape
<1>1. /\ t \in Txs /\ ledger[t] \in TxRow /\ req[r].user \in Users
      /\ ledger[t].kind = "offset_to_invoice" /\ ledger[t].status = "pending_approval"
      /\ ledger[t].reversedBy = NoTx
  <2>1. t \in Txs /\ ledger[t] \in TxRow /\ req[r].user \in Users
    BY <1>0, RequestRow, RequestType DEF BookOffset
  <2>2. ledger[t].kind = "offset_to_invoice" /\ ledger[t].status = "pending_approval"
    BY <1>0 DEF BookOffset, LedgerSerialInv, Fresh, StructInv, RequestsWellFormed, RequestWellFormed
  <2> QED BY <2>1, <2>2 DEF LedgerSerialInv, RowsAgree, MarkedByStorno
<1>2. i \in Invoices /\ a \in Amounts
  BY <1>0, <1>1 DEF StructInv, RowsWellFormed, RowWellFormed, TxRow
<1>3. PICK id \in PaymentIds :
        /\ FreshId(id)
        /\ payments' = payments \cup {[id |-> id, inv |-> i, amount |-> a, ref |-> t]}
  BY DEF BookOffset
<1>4. PICK p \in PaymentRow :
        p.id = id /\ p.inv = i /\ p.amount = a /\ p.ref = t /\ payments' = payments \cup {p}
  BY <1>1, <1>2, <1>3 DEF PaymentRow
<1>5. /\ Room(i, a)
      /\ WriteStatus(i, invoice[i].status, StatusAfter(i, invoice[i].status, Paid(i) + a))
  BY DEF BookOffset, FreshBook, BookSeen
<1>6. BookAgrees'
  BY <1>0, <1>3, <1>4, <1>5, AddedAgrees
<1>7. ASSUME NEW q \in payments
      PROVE  BackedBy(q)' /\ (q.ref # NoTx => q.ref # t)
  <2>1. BackedBy(q)
    BY DEF PaymentsAgree
  <2>2. q.ref # NoTx => q.ref \in Txs
    BY <1>0 DEF TypeOK, BookTypeOK, PaymentRow
  <2>3. BackedBy(q)'
    BY <1>0, <2>1, <2>2, BackingStays, KeepsBooked DEF BackedBy
  <2> QED BY <1>1, <2>1, <2>3 DEF BackedBy, Booked
<1>8. BackedBy(p)'
  <2>1. ledger'[t].status = "approved"
    <3>1. ledger'[t] = Approved(t, req[r].user)
      BY <1>0, <1>1 DEF BookOffset, TypeOK
    <3>2. Approved(t, req[r].user).status = "approved"
      BY <1>1, ApprovedType
    <3> QED BY <3>1, <3>2
  <2>2. ledger'[t].reversedBy = NoTx
    <3>1. Decides(t)
      <4>1. ledger' = [ledger EXCEPT ![t] = Approved(t, req[r].user)]
        BY DEF BookOffset
      <4> QED BY <1>0, <1>1, <4>1, ApprovedEffect DEF Debits
    <3> QED BY <1>1, <3>1 DEF Decides
  <2>3. Existing(t)
    BY <1>0, <1>1 DEF LedgerStep, Created
  <2> QED BY <1>1, <1>4, <2>1, <2>2, <2>3 DEF BackedBy, Booked, Existing
<1>9. OffsetBookedOnce'
  BY <1>1, <1>4, <1>7, NoTxAssumption DEF PaymentsAgree, OffsetBookedOnce
<1>10. \A q \in payments' : BackedBy(q)'
  BY <1>4, <1>7, <1>8
<1> QED BY <1>6, <1>9, <1>10 DEF PaymentsAgree

\* The reversal of an offset: its booking goes with it.
LEMMA FinalizeKeeps ==
    ASSUME LedgerSerialInv, Shape, PaymentsAgree, BookAgrees,
           NEW r \in Requests, FinalizeReversal(r),
           NEW x \in Txs, x = req[r].tx, NEW t \in Txs, t = ledger[x].reverses, Takes(x, t)
    PROVE  PaymentsAgree' /\ BookAgrees'
<1>0. StructInv /\ TypeOK /\ LedgerStep
  BY DEF LedgerSerialInv, StructInv, Shape
<1>1. ASSUME NEW s \in Txs \ {t}, Booked(s)
      PROVE  Booked(s)'
  <2>1. s # x
    BY <1>1 DEF Takes, Free, NoRow, Booked
  <2> QED BY <1>1, <2>1 DEF Takes, StillBut, Still, Booked
<1>2. ASSUME payments' \subseteq payments, \A p \in payments' : p.ref # t
      PROVE  PaymentsAgree'
  <2>1. ASSUME NEW p \in payments'
        PROVE  BackedBy(p)'
    <3>1. p \in payments /\ BackedBy(p) /\ p.ref # t
      BY <1>2 DEF PaymentsAgree
    <3>2. p.ref # NoTx => p.ref \in Txs
      BY <1>0, <3>1 DEF TypeOK, BookTypeOK, PaymentRow
    <3> QED BY <1>0, <1>1, <3>1, <3>2, BackingStays DEF BackedBy
  <2> QED BY <1>2, <2>1 DEF PaymentsAgree, OffsetBookedOnce
<1>3. CASE ledger[t].kind = "offset_to_invoice"
  <2> SUFFICES ASSUME NEW i, i = ledger[t].inv
               PROVE  PaymentsAgree' /\ BookAgrees'
    OBVIOUS
  <2>1. i \in Invoices
    BY <1>0, <1>3 DEF StructInv, RowsWellFormed, RowWellFormed
  <2>2. PICK gone : gone = {p \in PaymentsOn(i) : p.ref = t}
    OBVIOUS
  <2>3. PICK paid : paid = SumOf({p \in payments \ gone : p.inv = i}, RowAmount)
    OBVIOUS
  <2>4. /\ payments' = payments \ gone
        /\ WriteStatus(i, invoice[i].status, StatusAfter(i, invoice[i].status, paid))
    BY <1>3, <2>2, <2>3 DEF FinalizeReversal, Unbook
  <2>5. BookAgrees'
    BY <1>0, <2>1, <2>2, <2>3, <2>4, DroppedAgrees
  <2>6. \A p \in payments' : p.ref # t
    BY <2>2, <2>4, NoTxAssumption DEF PaymentsAgree, BackedBy, PaymentsOn
  <2> QED BY <1>2, <2>4, <2>5, <2>6
<1>4. CASE ledger[t].kind # "offset_to_invoice"
  <2>1. UNCHANGED bookVars
    BY <1>4 DEF FinalizeReversal
  <2>2. BookAgrees'
    BY <2>1, UntouchedAgrees DEF bookVars
  <2>3. \A p \in payments : p.ref # t
    BY <1>4, NoTxAssumption DEF PaymentsAgree, BackedBy
  <2> QED BY <1>2, <2>1, <2>2, <2>3 DEF bookVars
<1> QED BY <1>3, <1>4

\* A step of the ledger that books nothing on an invoice.
LEMMA OffBookKeeps ==
    ASSUME StructInv, LedgerStep, PaymentsAgree, BookAgrees, Keeps, UNCHANGED bookVars
    PROVE  PaymentsAgree' /\ BookAgrees'
<1>1. PaymentsAgree'
  BY KeepsPayments DEF bookVars
<1>2. BookAgrees'
  BY UntouchedAgrees DEF bookVars
<1> QED BY <1>1, <1>2

\* A step of the invoice book.
LEMMA BookStepKeeps ==
    ASSUME StructInv, PaymentsAgree, BookAgrees, \A r \in Requests : FreshBook(r),
           BookNext, UNCHANGED trustVars
    PROVE  PaymentsAgree' /\ BookAgrees'
<1>0. TypeOK
  BY DEF StructInv
<1>1. ledger' = ledger
  BY DEF trustVars
<1>2. ASSUME payments' = payments
      PROVE  PaymentsAgree'
  BY <1>1, <1>2 DEF PaymentsAgree, OffsetBookedOnce, BackedBy, Booked
<1>3. CASE UNCHANGED bookVars
  BY <1>2, <1>3, UntouchedAgrees DEF bookVars
<1>4. ASSUME NEW r \in Requests, Pay(r) \/ Unpay(r)
      PROVE  PaymentsAgree' /\ BookAgrees'
  BY <1>4, PayKeeps, UnpayKeeps
<1>5. ASSUME NEW r \in Requests, ChangeStatus(r)
      PROVE  PaymentsAgree' /\ BookAgrees'
  <2>1. payments' = payments
    BY <1>5 DEF ChangeStatus
  <2> QED BY <1>0, <1>2, <1>5, <2>1, ChangedAgrees
<1>6. ASSUME NEW i \in Invoices, DeleteInvoice(i)
      PROVE  PaymentsAgree' /\ BookAgrees'
  <2>1. payments' = payments
    BY <1>6 DEF DeleteInvoice
  <2>2. \A j \in Invoices : invoice'[j].status = invoice[j].status
    BY <1>0, <1>6 DEF DeleteInvoice, TypeOK, BookTypeOK
  <2> QED BY <1>2, <2>1, <2>2, UntouchedAgrees
<1> QED BY <1>3, <1>4, <1>5, <1>6
        DEF BookNext, BeginPay, BeginUnpay, BeginStatus, Abandon

LEMMA NextKeepsBook ==
    ASSUME LedgerSerialInv, BookSerialInv, Next
    PROVE  PaymentsAgree' /\ BookAgrees'
<1>0. /\ StructInv /\ Shape /\ LedgerStep /\ PaymentsAgree /\ BookAgrees
      /\ \A r \in Requests : FreshBook(r)
  BY NextShape DEF LedgerSerialInv, BookSerialInv, Shape
<1>1. CASE BookNext /\ UNCHANGED trustVars
  BY <1>0, <1>1, BookStepKeeps
<1>2. CASE Create
  <2>1. Keeps
    BY <1>0, <1>2, CreateEffect DEF Keeps
  <2>2. UNCHANGED bookVars
    BY <1>2 DEF Create, CreateDeposit, CreateDisbursement, CreateOffset
  <2> QED BY <1>0, <2>1, <2>2, OffBookKeeps
<1>3. ASSUME NEW r \in Requests, Approve(r)
      PROVE  PaymentsAgree' /\ BookAgrees'
  <2>1. CASE FinalizeReversal(r) /\ Takes(req[r].tx, ledger[req[r].tx].reverses)
    BY <1>0, <2>1, FinalizeKeeps DEF Takes
  <2>2. CASE Keeps /\ BookOffset(r)
    BY <1>0, <2>2, BookOffsetKeeps
  <2>3. CASE Keeps /\ UNCHANGED bookVars
    BY <1>0, <2>3, OffBookKeeps
  <2> QED
    BY <1>3, <2>1, <2>2, <2>3, ApproveEffect
       DEF Keeps, Approve, BeginApprove, FirstApproval, SecondApprovalOfDisbursement,
           CheckOffset, LoadOriginal
<1>4. ASSUME NEW r \in Requests, Reverse(r)
      PROVE  PaymentsAgree' /\ BookAgrees'
  <2>1. UNCHANGED bookVars
    BY <1>4 DEF Reverse, BeginReverse, ReverseDeposit, ReverseDebit
  <2>2. CASE Keeps
    BY <1>0, <2>1, <2>2, OffBookKeeps
  <2>3. ASSUME NEW x \in Txs, NEW t, t = req[r].tx, ReverseDeposit(r, x), Takes(x, t)
        PROVE  PaymentsAgree' /\ BookAgrees'
    <3>1. ledger[t].kind = "deposit"
      BY <2>3 DEF ReverseDeposit
    <3>2. ASSUME NEW p \in payments
          PROVE  BackedBy(p)'
      <4>1. BackedBy(p) /\ (p.ref # NoTx => p.ref \in Txs)
        BY <1>0 DEF PaymentsAgree, StructInv, TypeOK, BookTypeOK, PaymentRow
      <4>2. p.ref # NoTx => p.ref \notin {x, t}
        BY <2>3, <3>1, <4>1 DEF BackedBy, Booked, Takes, Free, NoRow
      <4>3. p.ref # NoTx => Booked(p.ref)'
        BY <2>3, <4>1, <4>2 DEF BackedBy, Booked, Takes, StillBut, Still
      <4> QED BY <1>0, <4>1, <4>3, BackingStays
    <3>3. PaymentsAgree'
      BY <1>0, <2>1, <3>2 DEF PaymentsAgree, OffsetBookedOnce, bookVars
    <3>4. BookAgrees'
      BY <1>0, <2>1, UntouchedAgrees DEF bookVars
    <3> QED BY <3>3, <3>4
  <2> QED BY <1>4, <2>2, <2>3, ReverseEffect DEF Keeps
<1>5. ASSUME NEW r \in Requests, (\E t \in Txs : BeginReject(r, t)) \/ Reject(r)
      PROVE  PaymentsAgree' /\ BookAgrees'
  <2>1. UNCHANGED bookVars
    BY <1>5 DEF BeginReject, Reject
  <2> QED BY <1>0, <1>5, <2>1, RejectEffect, OffBookKeeps DEF Keeps
<1>6. ASSUME NEW r \in Requests,
             (\E batch \in SUBSET Txs : BeginExport(r, batch)) \/ Export(r)
      PROVE  PaymentsAgree' /\ BookAgrees'
  <2>1. UNCHANGED bookVars
    BY <1>6 DEF BeginExport, Export
  <2>2. Keeps
    BY <1>0, <1>6, ExportEffect DEF Keeps, Proceeds
  <2> QED BY <1>0, <2>1, <2>2, OffBookKeeps
<1> QED BY <1>1, <1>2, <1>3, <1>4, <1>5, <1>6 DEF Next

-----------------------------------------------------------------------------
(* What a request has read about the invoices stays so until it commits.   *)

LEMMA LoadFreshBook ==
    ASSUME TypeOK, NEW r \in Requests, NEW seen, req' = [req EXCEPT ![r] = seen],
           ledger' = ledger, UNCHANGED bookVars, BookSeen(seen)
    PROVE  FreshBook(r)'
<1>1. req'[r] = seen
  BY DEF TypeOK
<1>2. \A i : Paid(i)' = Paid(i)
  BY SamePaid DEF bookVars
<1>3. BookSeen(seen)'
  BY <1>2 DEF BookSeen, Room, bookVars
<1> QED BY <1>1, <1>3 DEF FreshBook, BookSeen

LEMMA OwnStepFreshBook ==
    ASSUME LedgerSerialInv, NEW r \in Requests, Next, req' # req,
           \A s \in Requests : s = r
    PROVE  FreshBook(r)'
<1>0. TypeOK
  BY DEF LedgerSerialInv, StructInv
<1>1. CASE Done(r)
  BY <1>0, <1>1, DoneFresh
<1>2. ASSUME UNCHANGED trustVars, NEW i \in Invoices, NEW a \in Amounts, BeginPay(r, i, a)
      PROVE  FreshBook(r)'
  <2>1. BookSeen([op |-> "pay", inv |-> i, amount |-> a, status |-> invoice[i].status,
                  paid |-> Paid(i)])
    BY <1>2 DEF BookSeen, BeginPay
  <2> QED BY <1>0, <1>2, <2>1, LoadFreshBook DEF BeginPay, Load, trustVars
<1>3. ASSUME UNCHANGED trustVars, NEW p \in payments, BeginUnpay(r, p)
      PROVE  FreshBook(r)'
  <2>1. BookSeen([op |-> "unpay", row |-> p, status |-> invoice[p.inv].status])
    BY <1>3 DEF BookSeen
  <2> QED BY <1>0, <1>3, <2>1, LoadFreshBook DEF BeginUnpay, Load, trustVars
<1>4. ASSUME UNCHANGED trustVars, NEW i \in Invoices, NEW new \in InvoiceStatus,
             BeginStatus(r, i, new)
      PROVE  FreshBook(r)'
  <2>1. BookSeen([op |-> "status", inv |-> i, status |-> invoice[i].status, new |-> new])
    BY <1>4 DEF BookSeen, BeginStatus
  <2> QED BY <1>0, <1>4, <2>1, LoadFreshBook DEF BeginStatus, Load, trustVars
<1>5. ASSUME CheckOffset(r)
      PROVE  FreshBook(r)'
  <2> SUFFICES ASSUME NEW t, t = req[r].tx, NEW i, i = ledger[t].inv
               PROVE  FreshBook(r)'
    OBVIOUS
  <2>1. BookSeen([op |-> "book", tx |-> t, user |-> req[r].user,
                  status |-> invoice[i].status, paid |-> Paid(i)])
    BY <1>5 DEF BookSeen, CheckOffset, OffsetMayProceed
  <2> QED BY <1>0, <1>5, <2>1, LoadFreshBook DEF CheckOffset, Advance, trustVars
<1>6. ASSUME NEW seen, req' = [req EXCEPT ![r] = seen],
             seen.op \in {"approve", "storno", "reverse", "reject", "export"}
      PROVE  FreshBook(r)'
  <2>1. req'[r] = seen
    BY <1>0, <1>6 DEF TypeOK
  <2> QED BY <1>6, <2>1 DEF FreshBook, BookSeen
<1>7. CASE BookNext /\ UNCHANGED trustVars
  BY <1>1, <1>2, <1>3, <1>4, <1>7
     DEF BookNext, Pay, Unpay, ChangeStatus, Abandon, DeleteInvoice
<1>8. CASE Create
  BY <1>8 DEF Create, CreateDeposit, CreateDisbursement, CreateOffset
<1>9. CASE Approve(r)
  BY <1>1, <1>5, <1>6, <1>9
     DEF Approve, BeginApprove, FirstApproval, SecondApprovalOfDisbursement, BookOffset,
         LoadOriginal, FinalizeReversal, Load, Advance
<1>10. CASE Reverse(r)
  BY <1>1, <1>6, <1>10 DEF Reverse, BeginReverse, ReverseDeposit, ReverseDebit, Load
<1>11. CASE (\E t \in Txs : BeginReject(r, t)) \/ Reject(r)
  BY <1>1, <1>6, <1>11 DEF BeginReject, Reject, Load
<1>12. CASE (\E batch \in SUBSET Txs : BeginExport(r, batch)) \/ Export(r)
  BY <1>1, <1>6, <1>12 DEF BeginExport, Export, Load
<1> QED BY <1>7, <1>8, <1>9, <1>10, <1>11, <1>12 DEF Next

LEMMA IdleStepFreshBook ==
    ASSUME LedgerSerialInv, NEW r \in Requests, FreshBook(r), Next, req' = req
    PROVE  FreshBook(r)'
<1>0. TypeOK /\ StructInv
  BY DEF LedgerSerialInv, StructInv
<1>1. ASSUME payments' = payments, \A i \in Invoices : invoice'[i].status = invoice[i].status,
             req[r].op = "book" => Existing(req[r].tx)
      PROVE  FreshBook(r)'
  <2>1. \A i : Paid(i)' = Paid(i)
    BY <1>1, SamePaid
  <2>2. /\ req[r].op = "book" => ledger[req[r].tx].inv \in Invoices
        /\ req[r].op \in {"pay", "status"} => req[r].inv \in Invoices
        /\ req[r].op = "unpay" => req[r].row.inv \in Invoices
    <3>1. req[r] \in BookRequest \cup TrustRequest
      BY <1>0 DEF TypeOK
    <3>2. req[r].op = "book" => ledger[req[r].tx].inv \in Invoices
      BY <1>0, RequestType
         DEF StructInv, RequestsWellFormed, RequestWellFormed, RowsWellFormed, RowWellFormed
    <3> QED BY <3>1, <3>2 DEF BookRequest, TrustRequest, PaymentRow
  <2>3. CASE req[r].op = "book"
    BY <1>1, <2>1, <2>2, <2>3 DEF FreshBook, BookSeen, Room, Existing
  <2>4. CASE req[r].op # "book"
    BY <1>1, <2>1, <2>2, <2>4 DEF FreshBook, BookSeen, Room
  <2> QED BY <2>3, <2>4
<1>2. CASE Create
  <2>1. payments' = payments /\ invoice' = invoice
    BY <1>2 DEF Create, CreateDeposit, CreateDisbursement, CreateOffset, bookVars
  <2>2. req[r].op = "book" => Existing(req[r].tx)
    <3>1. LedgerStep
      BY <1>0, NextShape DEF Shape
    <3> QED BY <1>0, <3>1, RequestType
            DEF LedgerStep, Created, StructInv, RequestsWellFormed, RequestWellFormed
  <2> QED BY <1>1, <2>1, <2>2
<1>3. ASSUME NEW i \in Invoices, DeleteInvoice(i), UNCHANGED trustVars
      PROVE  FreshBook(r)'
  <2>1. payments' = payments /\ ledger' = ledger
    BY <1>3 DEF DeleteInvoice, trustVars
  <2>2. \A j \in Invoices : invoice'[j].status = invoice[j].status
    BY <1>0, <1>3 DEF DeleteInvoice, TypeOK, BookTypeOK
  <2> QED BY <1>1, <2>1, <2>2 DEF Existing
<1>4. CASE UNCHANGED bookVars /\ ledger' = ledger
  BY <1>1, <1>4 DEF bookVars, Existing
<1>5. ASSUME NEW s \in Requests, Done(s), req[s].op # "idle"
      PROVE  FALSE
  BY <1>0, <1>5, IdleType DEF Done, TypeOK
<1>6. CASE BookNext /\ UNCHANGED trustVars
  BY <1>3, <1>4, <1>5, <1>6
     DEF BookNext, BeginPay, Pay, BeginUnpay, Unpay, BeginStatus, ChangeStatus, Abandon, trustVars
<1>7. ASSUME NEW s \in Requests, Approve(s) \/ Reverse(s)
      PROVE  FreshBook(r)'
  BY <1>4, <1>5, <1>7
     DEF Approve, Reverse, BeginApprove, FirstApproval, CheckOffset, LoadOriginal,
         SecondApprovalOfDisbursement, SecondSlot, BookOffset, FinalizeReversal, BeginReverse,
         ReverseDeposit, ReverseDebit, trustVars
<1>8. ASSUME NEW s \in Requests,
             \/ \E t \in Txs : BeginReject(s, t)
             \/ Reject(s)
             \/ \E batch \in SUBSET Txs : BeginExport(s, batch)
             \/ Export(s)
      PROVE  FreshBook(r)'
  BY <1>4, <1>5, <1>8 DEF BeginReject, Reject, BeginExport, Export, trustVars
<1> QED BY <1>2, <1>6, <1>7, <1>8 DEF Next

-----------------------------------------------------------------------------
(* Ledger and invoices of one request at a time.                           *)

LEMMA InitPaidSerial == Init => PaidSerialInv
<1> SUFFICES ASSUME Init PROVE PaidSerialInv
  OBVIOUS
<1>1. LedgerSerialInv
  BY InitLedgerSerial
<1>2. payments = {} /\ \A i \in Invoices : invoice[i].status = "concept"
  BY DEF Init, BookInit
<1>3. PaymentsAgree
  BY <1>2 DEF PaymentsAgree, OffsetBookedOnce
<1>4. ASSUME NEW i
      PROVE  Paid(i) = 0
  <2>1. PaymentsOn(i) = {}
    BY <1>2 DEF PaymentsOn
  <2> QED BY <2>1, SumEmpty DEF Paid
<1>5. BookAgrees
  BY <1>2, <1>4 DEF BookAgrees, StatusMatchesPayments, NeverOverpaid
<1>6. \A r \in Requests : FreshBook(r)
  BY IdleType DEF Init, BookInit, FreshBook, BookSeen
<1> QED BY <1>1, <1>3, <1>5, <1>6 DEF PaidSerialInv, BookSerialInv

LEMMA PaidSerialStep ==
    ASSUME OneAtATime
    PROVE  PaidSerialInv /\ [Next]_vars => PaidSerialInv'
<1> SUFFICES ASSUME PaidSerialInv, [Next]_vars PROVE PaidSerialInv'
  OBVIOUS
<1>0. LedgerSerialInv /\ BookSerialInv /\ TypeOK
  BY DEF PaidSerialInv, LedgerSerialInv, StructInv
<1>1. LedgerSerialInv'
  BY <1>0, LedgerSerialStep
<1>2. CASE Next
  <2>1. PaymentsAgree' /\ BookAgrees'
    BY <1>0, <1>2, NextKeepsBook
  <2>2. ASSUME NEW r \in Requests
        PROVE  FreshBook(r)'
    <3>1. CASE req' = req
      BY <1>0, <1>2, <3>1, IdleStepFreshBook DEF BookSerialInv
    <3>2. CASE req' # req
      BY <1>0, <1>2, <3>2, OwnStepFreshBook DEF OneAtATime
    <3> QED BY <3>1, <3>2
  <2> QED BY <1>1, <2>1, <2>2 DEF PaidSerialInv, BookSerialInv
<1>3. CASE UNCHANGED vars
  <2>1. UNCHANGED bookVars /\ ledger' = ledger /\ req' = req
    BY <1>3 DEF vars, trustVars
  <2>2. \A i : Paid(i)' = Paid(i)
    BY <2>1, SamePaid DEF bookVars
  <2>3. PaymentsAgree' /\ BookAgrees'
    BY <1>0, <2>1, <2>2
       DEF BookSerialInv, PaymentsAgree, OffsetBookedOnce, BackedBy, Booked, BookAgrees,
           StatusMatchesPayments, NeverOverpaid, bookVars
  <2>4. \A r \in Requests : FreshBook(r)'
    BY <1>0, <2>1, <2>2 DEF BookSerialInv, FreshBook, BookSeen, Room, bookVars
  <2> QED BY <1>1, <2>3, <2>4 DEF PaidSerialInv, BookSerialInv
<1> QED BY <1>2, <1>3

\* As long as requests do not overlap, a payment that refers to an offset is the one
\* booking of an approved, unreversed offset, of its amount and on its invoice.
THEOREM OffsetsBackPayments ==
    ASSUME OneAtATime
    PROVE  Spec => []PaymentsBackedByOffsets
<1>1. PaidSerialInv => PaymentsBackedByOffsets
  BY DEF PaidSerialInv, BookSerialInv, PaymentsAgree, BackedBy, PaymentsBackedByOffsets
<1> QED BY <1>1, InitPaidSerial, PaidSerialStep, PTL DEF Spec

\* As long as requests do not overlap, the status of an invoice says what its payments
\* say: through payments and their removal, offsets and their reversal, and the workflow.
THEOREM StatusTellsPayments ==
    ASSUME OneAtATime
    PROVE  Spec => []StatusMatchesPayments
<1>1. PaidSerialInv => StatusMatchesPayments
  BY DEF PaidSerialInv, BookSerialInv, BookAgrees
<1> QED BY <1>1, InitPaidSerial, PaidSerialStep, PTL DEF Spec

\* As long as requests do not overlap, no invoice is paid more than its total, by
\* clients and by offsets together.
THEOREM InvoicesNotOverpaid ==
    ASSUME OneAtATime
    PROVE  Spec => []NeverOverpaid
<1>1. PaidSerialInv => NeverOverpaid
  BY DEF PaidSerialInv, BookSerialInv, BookAgrees
<1> QED BY <1>1, InitPaidSerial, PaidSerialStep, PTL DEF Spec

-----------------------------------------------------------------------------
(* What is available: deposits less the debits that are booked or wait.    *)

Waits(t) == ledger[t].kind \in Debits /\ ledger[t].status = "pending_approval"

\* Row s weighs the same after the step, ...
Weighs(s) == Steady(s) /\ (Waits(s)' <=> Waits(s))

\* ... or it weighs less on what is available.
Eases(t) ==
    /\ CountsIn(t) => CountsIn(t)'
    /\ CountsOut(t)' \/ Waits(t)' => CountsOut(t) \/ Waits(t)

OnlyWeight(t) == t \in Txs /\ \A s \in Txs \ {t} : Weighs(s)

\* A row that weighs the same waits on the same case for the same amount.
LEMMA WaitingRow ==
    ASSUME StructInv, LedgerStep, NEW s \in Txs, Weighs(s), NEW c
    PROVE  /\ s \in PendingDebits(c) <=> s \in PendingDebits(c)'
           /\ s \in PendingDebits(c) => LedgerAmount[s] = LedgerAmount'[s]
<1>1. Waits(s)' <=> Waits(s)
  BY DEF Weighs
<1>2. CASE ledger[s].kind = "none"
  <2>1. ~Waits(s)
    BY <1>2 DEF Waits, Debits
  <2> QED BY <1>1, <2>1 DEF Waits, PendingDebits
<1>3. CASE ledger[s].kind # "none"
  <2>1. ledger'[s].case = ledger[s].case /\ ledger'[s].amount = ledger[s].amount
    BY <1>3 DEF LedgerStep, Created, Existing
  <2> QED BY <1>1, <2>1 DEF Waits, PendingDebits, LedgerAmount
<1> QED BY <1>2, <1>3

LEMMA AvailableStays ==
    ASSUME StructInv, LedgerStep, \A s \in Txs : Weighs(s), NEW c
    PROVE  Available(c)' = Available(c)
<1> DEFINE amount1 == LedgerAmount'
<1>1. TotalBalance(c)' = TotalBalance(c)
  BY BalanceStays DEF Weighs
<1>2. PendingDebits(c)' = PendingDebits(c) /\ \A s \in PendingDebits(c) : amount1[s] = LedgerAmount[s]
  BY WaitingRow DEF PendingDebits
<1>3. SumOf(PendingDebits(c), LedgerAmount)' = SumOf(PendingDebits(c), amount1)
  BY <1>2 DEF SumOf, Coins
<1> HIDE DEF amount1
<1>4. SumOf(PendingDebits(c), amount1) = SumOf(PendingDebits(c), LedgerAmount)
  BY <1>2, SumCongruent
<1> QED BY <1>1, <1>3, <1>4 DEF Available

\* The waiting debits of case c when no row but t weighs otherwise.
LEMMA WaitingMoves ==
    ASSUME StructInv, LedgerStep, NEW t, OnlyWeight(t), NEW a \in Amounts,
           ledger'[t].amount = a, NEW c
    PROVE  MovedBy(PendingDebits(c), LedgerAmount, PendingDebits(c)', LedgerAmount', t, a)
<1> DEFINE Wait1 == PendingDebits(c)'
           amount1 == LedgerAmount'
<1>1. t \in Txs /\ \A s \in Txs \ {t} : Weighs(s)
  BY DEF OnlyWeight
<1>2. PendingDebits(c) \subseteq Txs /\ Wait1 \subseteq Txs
  BY DEF PendingDebits
<1>3. IsFiniteSet(PendingDebits(c)) /\ IsFiniteSet(Wait1)
  BY <1>2, TxsAssumption, FS_Subset
<1>4. \A s \in Txs \ {t} : /\ s \in PendingDebits(c) <=> s \in Wait1
                           /\ s \in PendingDebits(c) => LedgerAmount[s] = amount1[s]
  BY <1>1, WaitingRow
<1>5. amount1[t] = a
  BY <1>1 DEF LedgerAmount
<1>6. ASSUME t \in PendingDebits(c)
      PROVE  LedgerAmount[t] = a
  <2>1. ledger[t].kind # "none"
    BY <1>6 DEF PendingDebits, Debits
  <2>2. ledger'[t].amount = ledger[t].amount
    BY <1>1, <2>1 DEF LedgerStep, Created, Existing
  <2> QED BY <1>1, <2>2 DEF LedgerAmount
<1> HIDE DEF Wait1, amount1
<1>7. PendingDebits(c) \ {t} = Wait1 \ {t}
  BY <1>2, <1>4
<1>8. \A y \in PendingDebits(c) \ {t} : LedgerAmount[y] = amount1[y]
  BY <1>2, <1>4
<1>9. MovedBy(PendingDebits(c), LedgerAmount, Wait1, amount1, t, a)
  BY <1>3, <1>5, <1>6, <1>7, <1>8, SumMoves
<1> QED BY <1>9 DEF Wait1, amount1

\* What is available stays covered when row t eases it, belongs to another case, or
\* asks for no more than is available.
LEMMA AvailableMoves ==
    ASSUME StructInv, LedgerStep, NEW t, OnlyWeight(t), ledger'[t] \in TxRow,
           NEW c, Available(c) >= 0,
           Eases(t) \/ ledger'[t].case # c \/ Available(c) >= ledger'[t].amount
    PROVE  Available(c)' >= 0
<1> SUFFICES ASSUME NEW a, a = ledger'[t].amount
             PROVE  Available(c)' >= 0
  OBVIOUS
<1>0. t \in Txs /\ a \in Amounts /\ a \in Nat /\ (Existing(t) \/ Created(t))
  BY MaxAmountAssumption DEF TxRow, OnlyWeight, LedgerStep, Amounts
<1>1. /\ MovedBy(Deposited(c), LedgerAmount, Deposited(c)', LedgerAmount', t, a)
      /\ MovedBy(Debited(c), LedgerAmount, Debited(c)', LedgerAmount', t, a)
  BY <1>0, SumsMove DEF OnlyWeight, OnlyRow, Weighs
<1>2. MovedBy(PendingDebits(c), LedgerAmount, PendingDebits(c)', LedgerAmount', t, a)
  BY <1>0, WaitingMoves
<1>3. /\ Available(c) = SumOf(Deposited(c), LedgerAmount) - SumOf(Debited(c), LedgerAmount)
                          - SumOf(PendingDebits(c), LedgerAmount)
      /\ Available(c)' = SumOf(Deposited(c)', LedgerAmount') - SumOf(Debited(c)', LedgerAmount')
                           - SumOf(PendingDebits(c)', LedgerAmount')
  BY DEF Available, TotalBalance, SumOf, Coins
<1>4. /\ ~(t \in Debited(c) /\ t \in PendingDebits(c))
      /\ ~(t \in Debited(c)' /\ t \in PendingDebits(c)')
      /\ t \in Deposited(c)' => t \notin Debited(c)' \cup PendingDebits(c)'
      /\ t \in Deposited(c) => t \notin Debited(c) \cup PendingDebits(c)
                                        \cup Debited(c)' \cup PendingDebits(c)'
  BY <1>0 DEF Deposited, Debited, PendingDebits, Existing, Created, Debits, Booked
<1>5. CASE ledger'[t].case # c
  <2>1. t \notin Deposited(c) \cup Debited(c) \cup PendingDebits(c)
    BY <1>0, <1>5 DEF Deposited, Debited, PendingDebits, Existing, Created, Debits
  <2>2. t \notin Deposited(c)' \cup Debited(c)' \cup PendingDebits(c)'
    BY <1>5 DEF Deposited, Debited, PendingDebits
  <2> QED BY <1>1, <1>2, <1>3, <2>1, <2>2 DEF MovedBy
<1>6. CASE Eases(t) /\ ledger'[t].case = c
  <2>1. ledger[t].kind # "none" => ledger[t].case = c
    BY <1>0, <1>6 DEF Existing, Created
  <2>2. t \in Deposited(c) => t \in Deposited(c)'
    BY <1>0, <1>6 DEF Eases, CountsIn, Deposited, Booked
  <2>3. t \in Debited(c)' \cup PendingDebits(c)' => t \in Debited(c) \cup PendingDebits(c)
    BY <1>0, <1>6, <2>1 DEF Eases, CountsOut, Waits, Debited, PendingDebits, Booked, Debits
  <2> QED BY <1>0, <1>1, <1>2, <1>3, <1>4, <2>2, <2>3 DEF MovedBy
<1>7. CASE Available(c) >= a
  BY <1>0, <1>1, <1>2, <1>3, <1>4, <1>7 DEF MovedBy
<1> QED BY <1>5, <1>6, <1>7

\* Rows that stay weigh the same, and so does a storno.
LEMMA StillWeighs ==
    ASSUME NEW s, Still(s)
    PROVE  Weighs(s)
BY DEF Still, Existing, Weighs, Waits, Steady, CountsIn, CountsOut, Booked

LEMMA StornoWeighs ==
    ASSUME NEW s, ledger[s].kind \in {"none", "reversal"}, ledger'[s].kind = "reversal"
    PROVE  Weighs(s)
BY DEF Weighs, Waits, Steady, CountsIn, CountsOut, Debits

LEMMA ProceedsAvailable ==
    ASSUME StructInv, Shape, Proceeds, NEW c, Available(c) >= 0
    PROVE  Available(c)' >= 0
<1>0. LedgerStep /\ TypeOK /\ TypeOK'
  BY DEF Shape, StructInv
<1>1. CASE StillBut({})
  BY <1>0, <1>1, StillWeighs, AvailableStays DEF StillBut
<1>2. ASSUME NEW t \in Txs, Decides(t)
      PROVE  Available(c)' >= 0
  <2>1. OnlyWeight(t)
    BY <1>2, StillWeighs DEF OnlyWeight, Decides, StillBut
  <2>2. ledger'[t] \in TxRow
    <3>1. ledger[t].kind # "none"
      BY <1>0, <1>2, RowType DEF Decides
    <3>2. ledger'[t].kind # "none"
      BY <1>2, <3>1 DEF Decides, Existing
    <3>3. ledger'[t] \in TxRow \cup {NoRow}
      BY <1>0 DEF TypeOK
    <3> QED BY <3>2, <3>3 DEF NoRow
  <2>3. Eases(t)
    BY <1>2 DEF Decides, Eases, CountsIn, CountsOut, Waits, Booked, Existing
  <2> QED BY <1>0, <2>1, <2>2, <2>3, AvailableMoves
<1>3. ASSUME NEW x \in Txs, NEW t \in Txs, Asks(x, t)
      PROVE  Available(c)' >= 0
  <2>1. ledger[x].kind = "none" /\ ledger'[x].kind = "reversal"
    BY <1>3 DEF Asks, Free, NoRow
  <2>2. \A s \in Txs : Weighs(s)
    BY <1>3, <2>1, StillWeighs, StornoWeighs DEF Asks, StillBut
  <2> QED BY <1>0, <2>2, AvailableStays
<1> QED BY <1>1, <1>2, <1>3 DEF Proceeds

\* A new transaction is a deposit, or fits in what is available on its case.
LEMMA CreateAvailable ==
    ASSUME StructInv, Shape, Create, NEW c, Available(c) >= 0
    PROVE  Available(c)' >= 0
<1>0. LedgerStep /\ TypeOK
  BY DEF Shape, StructInv
<1>1. PICK t \in Txs, d \in Cases, u \in Users, a \in Amounts :
        \/ CreateDeposit(t, d, u, a)
        \/ CreateDisbursement(t, d, u, a)
        \/ \E i \in Invoices : CreateOffset(t, d, u, a, i)
  BY DEF Create
<1> DEFINE Fits(row) ==
             /\ row \in TxRow
             /\ row.kind = "deposit" \/ row.case # c \/ Available(c) >= row.amount
<1>2. \E row : ledger' = [ledger EXCEPT ![t] = row] /\ Fits(row)
  <2>1. CASE CreateDeposit(t, d, u, a)
    <3>1. Row("deposit", "approved", a, d, u) \in TxRow
          /\ Row("deposit", "approved", a, d, u).kind = "deposit"
      BY NewRowType
    <3> QED BY <2>1, <3>1 DEF CreateDeposit
  <2>2. CASE CreateDisbursement(t, d, u, a)
    <3>1. /\ Row("disbursement", "pending_approval", a, d, u) \in TxRow
          /\ Row("disbursement", "pending_approval", a, d, u).case = d
      BY NewRowType DEF Debits
    <3>2. Row("disbursement", "pending_approval", a, d, u).amount = a
      BY DEF Row, NoRow
    <3> QED BY <2>2, <3>1, <3>2 DEF CreateDisbursement, Reservable
  <2>3. ASSUME NEW i \in Invoices, CreateOffset(t, d, u, a, i)
        PROVE  \E row : ledger' = [ledger EXCEPT ![t] = row] /\ Fits(row)
    <3>1. Row("offset_to_invoice", "pending_approval", a, d, u) \in TxRow
      BY NewRowType DEF Debits
    <3>2. PICK row \in TxRow :
            /\ row = [Row("offset_to_invoice", "pending_approval", a, d, u) EXCEPT !.inv = i]
            /\ row.case = d /\ row.amount = a
      <4>1. /\ [Row("offset_to_invoice", "pending_approval", a, d, u) EXCEPT !.inv = i] \in TxRow
            /\ [Row("offset_to_invoice", "pending_approval", a, d, u) EXCEPT !.inv = i].case = d
            /\ [Row("offset_to_invoice", "pending_approval", a, d, u) EXCEPT !.inv = i].amount = a
        BY <3>1, ZenonT(60) DEF Row, NoRow, TxRow
      <4> QED BY <4>1
    <3> QED BY <2>3, <3>2 DEF CreateOffset, Reservable
  <2> QED BY <1>1, <2>1, <2>2, <2>3
<1>3. PICK row : ledger' = [ledger EXCEPT ![t] = row] /\ Fits(row)
  BY <1>2
<1>4. ledger'[t] = row /\ \A s \in Txs \ {t} : ledger'[s] = ledger[s]
  BY <1>0, <1>3 DEF TypeOK
<1>5. OnlyWeight(t)
  BY <1>4, SameIsStill, StillWeighs DEF OnlyWeight
<1>6. ledger[t].kind = "none"
  BY <1>1 DEF CreateDeposit, CreateDisbursement, CreateOffset, Free, NoRow
<1>7. row.kind = "deposit" => Eases(t)
  BY <1>4, <1>6 DEF Eases, CountsIn, CountsOut, Waits, Debits
<1> QED BY <1>0, <1>3, <1>4, <1>5, <1>7, AvailableMoves

\* A reversal gives back what a debit took, or takes a deposit that is still available.
LEMMA TakesAvailable ==
    ASSUME StructInv, Shape, NEW x \in Txs, NEW t \in Txs, Takes(x, t), ledger[t] \in TxRow,
           NEW c, Available(c) >= 0,
           \/ ledger[t].kind \in Debits
           \/ ledger[t].case = c => Available(c) >= ledger[t].amount
    PROVE  Available(c)' >= 0
<1>0. LedgerStep /\ TypeOK'
  BY DEF Shape
<1>1. Weighs(x)
  BY StornoWeighs DEF Takes, Free, NoRow
<1>2. OnlyWeight(t)
  BY <1>1, StillWeighs DEF OnlyWeight, Takes, StillBut
<1>3. Existing(t)
  BY DEF Takes
<1>4. ledger'[t] \in TxRow
  <2>1. ledger'[t].kind # "none"
    BY <1>3 DEF Existing, TxRow, Debits
  <2>2. ledger'[t] \in TxRow \cup {NoRow}
    BY <1>0 DEF TypeOK
  <2> QED BY <2>1, <2>2 DEF NoRow
<1>5. ledger[t].kind \in Debits => Eases(t)
  BY <1>3 DEF Eases, CountsIn, CountsOut, Waits, Debits, Booked, Takes, Existing
<1>6. Eases(t) \/ ledger'[t].case # c \/ Available(c) >= ledger'[t].amount
  BY <1>3, <1>5 DEF Existing
<1> QED BY <1>0, <1>2, <1>4, <1>6, AvailableMoves

LEMMA NextAvailable ==
    ASSUME LedgerSerialInv, Next, NEW c, Available(c) >= 0
    PROVE  Available(c)' >= 0
<1>0. StructInv /\ TypeOK /\ Shape
  BY NextShape DEF LedgerSerialInv, StructInv
<1>1. CASE BookNext /\ UNCHANGED trustVars
  <2>1. ledger' = ledger
    BY <1>1 DEF trustVars
  <2>2. Proceeds
    BY <2>1, SameIsStill DEF Proceeds, StillBut
  <2> QED BY <1>0, <2>2, ProceedsAvailable
<1>2. CASE Create
  BY <1>0, <1>2, CreateAvailable
<1>3. ASSUME NEW r \in Requests, Approve(r)
      PROVE  Available(c)' >= 0
  <2>1. CASE FinalizeReversal(r)
    <3> SUFFICES ASSUME NEW x, x = req[r].tx, NEW t, t = ledger[x].reverses
                 PROVE  Available(c)' >= 0
      OBVIOUS
    <3>1. Takes(x, t)
      BY <1>3, <2>1, ApproveEffect
    <3>2. x \in Txs /\ t \in Txs /\ ledger[t] \in TxRow /\ ledger[t].kind \in Debits
      BY <1>0, <2>1, StornoRows DEF FinalizeReversal
    <3> QED BY <1>0, <3>1, <3>2, TakesAvailable
  <2>2. CASE Proceeds
    BY <1>0, <2>2, ProceedsAvailable
  <2> QED BY <1>3, <2>1, <2>2, ApproveEffect
<1>4. ASSUME NEW r \in Requests, Reverse(r)
      PROVE  Available(c)' >= 0
  <2>1. CASE Proceeds
    BY <1>0, <2>1, ProceedsAvailable
  <2>2. ASSUME NEW x \in Txs, NEW t, t = req[r].tx, ReverseDeposit(r, x), Takes(x, t)
        PROVE  Available(c)' >= 0
    <3>1. t \in Txs /\ ledger[t] \in TxRow
      BY <1>0, <2>2, RequestRow DEF ReverseDeposit
    <3>2. Available(ledger[t].case) >= ledger[t].amount
      BY <2>2 DEF ReverseDeposit
    <3> QED BY <1>0, <2>2, <3>1, <3>2, TakesAvailable
  <2> QED BY <1>4, <2>1, <2>2, ReverseEffect
<1>5. ASSUME NEW r \in Requests, (\E t \in Txs : BeginReject(r, t)) \/ Reject(r)
      PROVE  Available(c)' >= 0
  BY <1>0, <1>5, RejectEffect, ProceedsAvailable
<1>6. ASSUME NEW r \in Requests,
             (\E batch \in SUBSET Txs : BeginExport(r, batch)) \/ Export(r)
      PROVE  Available(c)' >= 0
  BY <1>0, <1>6, ExportEffect, ProceedsAvailable DEF Proceeds
<1> QED BY <1>1, <1>2, <1>3, <1>4, <1>5, <1>6 DEF Next

\* As long as requests do not overlap, what is booked on a case covers the debits that
\* wait there for approval, so none of them has to be refused for want of money.
THEOREM PendingIsReserved ==
    ASSUME OneAtATime
    PROVE  Spec => []AvailableNonNegative
<1>1. Init => LedgerSerialInv /\ AvailableNonNegative
  <2> SUFFICES ASSUME Init, NEW c \in Cases PROVE Available(c) >= 0
    BY InitLedgerSerial DEF AvailableNonNegative
  <2>1. Deposited(c) = {} /\ Debited(c) = {} /\ PendingDebits(c) = {}
    BY DEF Init, Deposited, Debited, PendingDebits, Booked, NoRow
  <2> QED BY <2>1, SumEmpty DEF Available, TotalBalance
<1>2. LedgerSerialInv /\ AvailableNonNegative /\ [Next]_vars
        => LedgerSerialInv' /\ AvailableNonNegative'
  <2> SUFFICES ASSUME LedgerSerialInv, AvailableNonNegative, [Next]_vars
               PROVE  LedgerSerialInv' /\ AvailableNonNegative'
    OBVIOUS
  <2>1. LedgerSerialInv'
    BY LedgerSerialStep
  <2>2. CASE Next
    BY <2>1, <2>2, NextAvailable DEF AvailableNonNegative
  <2>3. CASE UNCHANGED vars
    <3>1. ledger' = ledger
      BY <2>3 DEF vars, trustVars
    <3> QED BY <2>1, <3>1
            DEF AvailableNonNegative, Available, TotalBalance, Deposited, Debited, PendingDebits,
                Booked, LedgerAmount, SumOf, Coins
  <2> QED BY <2>2, <2>3
<1> QED BY <1>1, <1>2, PTL DEF Spec
=============================================================================
