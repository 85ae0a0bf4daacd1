------------------------------ MODULE BillingProofs ------------------------------
(***************************************************************************)
(* For any number of invoices, hours, expenses, lines and VAT rates:       *)
(* nothing stays marked as invoiced without an invoice that counts, the    *)
(* cached totals are those of the lines, what was approved bills           *)
(* something, and nothing is billed twice.                                 *)
(*                                                                         *)
(* The third is not inductive as it stands: deleting a payment takes a     *)
(* cancelled invoice back to partially_paid, so an invoice that ever had a *)
(* payment must keep its lines.  PaidBillsSomething adds that.             *)
(***************************************************************************)
EXTENDS Billing, TLAPS

Lines ==
    [id : Items \cup Nat, item : Items \cup {NoItem}, rate : Rates, sign : {1, -1}]

AllTotals == {Totals(lines) : lines \in SUBSET Lines}

Kinds == {"none", "invoice", "credit_note", "deleted"}

Rows ==
    [kind : Kinds, status : Statuses, active : BOOLEAN, rate : Rates \cup {NoRate},
     lines : SUBSET Lines, total : AllTotals, pays : Nat]

\* The keys of lines tell them apart.
Keyed(lines) == \A l, k \in lines : l.id = k.id => l = k

Shape ==
    /\ inv \in [InvoiceIds -> Rows]
    /\ invoiced \subseteq Items /\ offered \subseteq Items

PaidBillsSomething ==
    \A i \in InvoiceIds : inv[i].pays > 0 => inv[i].status # "concept" /\ inv[i].lines # {}

LinesKeyed == \A i \in InvoiceIds : Keyed(inv[i].lines)

BillingInv ==
    Shape /\ LinesKeyed /\ NothingStuck /\ TotalsAgree /\ SentBillsSomething /\ PaidBillsSomething

\* What a row that replaces another must be for the invariant to survive,
\* apart from the marks.
GoodRow(row) ==
    /\ row \in Rows
    /\ Keyed(row.lines)
    /\ row.total = Totals(row.lines)
    /\ row.status \notin {"concept", "cancelled"} => row.lines # {}
    /\ row.pays > 0 => row.status # "concept" /\ row.lines # {}

\* A row that keeps its items and does not stop counting keeps every mark.
Keeps(row, new) ==
    /\ {l.item : l \in row.lines} \subseteq {l.item : l \in new.lines}
    /\ (row.active /\ row.status # "cancelled") => (new.active /\ new.status # "cancelled")

-----------------------------------------------------------------------------
\* The row of a number that is not used yet.
LEMMA EmptyRow ==
    /\ NoInvoice \in Rows /\ NoInvoice.pays = 0 /\ NoInvoice.status = "concept"
    /\ Keyed(NoInvoice.lines) /\ NoInvoice.total = Totals(NoInvoice.lines)
  <1> DEFINE t == Totals({})
  <1>1. {} \in SUBSET Lines
        OBVIOUS
  <1>2. t \in AllTotals
        BY <1>1 DEF AllTotals
  <1>3. NoInvoice = [kind |-> "none", status |-> "concept", active |-> FALSE, rate |-> NoRate,
                     lines |-> {}, total |-> t, pays |-> 0]
        BY DEF NoInvoice
  <1>4. NoInvoice.total = t /\ t = Totals(NoInvoice.lines) /\ Keyed(NoInvoice.lines)
        BY <1>3 DEF Keyed
  <1> HIDE DEF t
  <1>5. QED BY <1>1, <1>2, <1>3, <1>4 DEF Rows, Kinds, Statuses

\* The initial state has no invoice and no mark.
LEMMA InitInv == Init => BillingInv
  <1>1. Init => inv = [i \in InvoiceIds |-> NoInvoice]
        BY DEF Init
  <1>2. NoInvoice \in Rows /\ NoInvoice.pays = 0 /\ NoInvoice.total = Totals(NoInvoice.lines)
            /\ NoInvoice.status = "concept" /\ Keyed(NoInvoice.lines)
        BY EmptyRow
  <1>3. QED
        BY <1>1, <1>2 DEF Init, BillingInv, Shape, LinesKeyed, NothingStuck, TotalsAgree, SentBillsSomething,
                          PaidBillsSomething, BilledOn

\* Replacing one row by a good one keeps everything but the marks.
LEMMA OneRow ==
    ASSUME BillingInv, NEW i \in InvoiceIds, NEW new, GoodRow(new),
           inv' = [inv EXCEPT ![i] = new],
           invoiced' \subseteq Items, offered' \subseteq Items
    PROVE  Shape' /\ LinesKeyed' /\ TotalsAgree' /\ SentBillsSomething' /\ PaidBillsSomething'
  <1>1. /\ inv' = [j \in InvoiceIds |-> inv'[j]]
        /\ \A j \in InvoiceIds : inv'[j] = IF j = i THEN new ELSE inv[j]
        BY DEF BillingInv, Shape
  <1>2. \A j \in InvoiceIds : GoodRow(inv[j])
        BY DEF BillingInv, Shape, LinesKeyed, TotalsAgree, SentBillsSomething, PaidBillsSomething,
               GoodRow
  <1>3. \A j \in InvoiceIds : GoodRow(inv'[j])
        BY <1>1, <1>2
  <1>4. QED
        BY <1>1, <1>3 DEF Shape, LinesKeyed, TotalsAgree, SentBillsSomething, PaidBillsSomething,
                              GoodRow

\* ... and the marks, if each of them is on the new row or on another that counts.
LEMMA MarksKept ==
    ASSUME BillingInv, NEW i \in InvoiceIds, NEW new,
           inv' = [inv EXCEPT ![i] = new],
           \A x \in invoiced' :
              \/ x \in invoiced /\ Keeps(inv[i], new)
              \/ x \in invoiced /\ ~(x \in On(i) /\ Live(i))
              \/ /\ x # NoItem /\ x \in {l.item : l \in new.lines}
                 /\ new.active /\ new.status # "cancelled"
    PROVE  NothingStuck'
  <1> SUFFICES ASSUME NEW x \in invoiced' PROVE \E j \in InvoiceIds : Live(j)' /\ x \in On(j)'
      BY DEF NothingStuck, BilledOn
  <1>1. \A j \in InvoiceIds : inv'[j] = IF j = i THEN new ELSE inv[j]
        BY DEF BillingInv, Shape
  <1>2. CASE x \in invoiced
    <2>1. PICK j \in InvoiceIds : Live(j) /\ x \in On(j)
          BY <1>2 DEF BillingInv, NothingStuck, BilledOn
    <2>2. CASE j # i
          BY <2>1, <2>2, <1>1 DEF Live, On
    <2>3. CASE j = i
      <3>1. CASE Keeps(inv[i], new)
            BY <2>1, <2>3, <3>1, <1>1 DEF Keeps, Live, On
      <3>2. CASE ~Keeps(inv[i], new)
        <4>1. x # NoItem /\ x \in {l.item : l \in new.lines} /\ new.active /\ new.status # "cancelled"
              BY <2>1, <2>3, <3>2
        <4>2. QED BY <4>1, <1>1 DEF Live, On
      <3>3. QED BY <3>1, <3>2
    <2>4. QED BY <2>2, <2>3
  <1>3. CASE x \notin invoiced
    <2>1. x # NoItem /\ x \in {l.item : l \in new.lines} /\ new.active /\ new.status # "cancelled"
          BY <1>3
    <2>2. QED BY <2>1, <1>1 DEF Live, On
  <1>4. QED BY <1>2, <1>3

\* A row that keeps its items, while no mark is added.
LEMMA Kept ==
    ASSUME BillingInv, NEW i \in InvoiceIds, NEW new, GoodRow(new), Keeps(inv[i], new),
           inv' = [inv EXCEPT ![i] = new],
           invoiced' \subseteq invoiced, offered' \subseteq Items
    PROVE  BillingInv'
  <1>1. invoiced' \subseteq Items
        BY DEF BillingInv, Shape
  <1>2. Shape' /\ LinesKeyed' /\ TotalsAgree' /\ SentBillsSomething' /\ PaidBillsSomething'
        BY <1>1, OneRow
  <1>3. NothingStuck'
        BY MarksKept
  <1>4. QED BY <1>2, <1>3 DEF BillingInv

-----------------------------------------------------------------------------
(* One lemma per operation.                                                *)

\* What WithLines makes of a row.
LEMMA Recalculated ==
    ASSUME NEW row \in Rows, NEW lines \in SUBSET Lines
    PROVE  /\ WithLines(row, lines) \in Rows
           /\ WithLines(row, lines).lines = lines
           /\ WithLines(row, lines).total = Totals(lines)
           /\ WithLines(row, lines).status = row.status
           /\ WithLines(row, lines).active = row.active
           /\ WithLines(row, lines).pays = row.pays
  <1> DEFINE t == Totals(lines)
  <1>1. t \in AllTotals
        BY DEF AllTotals
  <1>2. WithLines(row, lines) = [row EXCEPT !.lines = lines, !.total = t]
        BY DEF WithLines
  <1> HIDE DEF t
  <1>3. QED
    <2>1. t = Totals(lines)
          BY DEF t
    <2>2. QED BY <1>1, <1>2, <2>1 DEF Rows

\* Lines of an editable invoice may change at will: nothing was paid on it.
LEMMA EditedRow ==
    ASSUME BillingInv, NEW i \in InvoiceIds, Editable(i), NEW lines \in SUBSET Lines, Keyed(lines)
    PROVE  GoodRow(WithLines(inv[i], lines))
  <1>1. inv[i] \in Rows /\ inv[i].pays \in Nat /\ inv[i].status = "concept"
        BY DEF BillingInv, Shape, Editable, Rows
  <1>2. inv[i].pays = 0
        BY <1>1 DEF BillingInv, PaidBillsSomething
  <1>3. QED BY <1>1, <1>2, Recalculated DEF GoodRow

\* A fresh invoice is a good row, whatever its lines.
LEMMA FreshRow ==
    ASSUME NEW kind \in Kinds, NEW r \in Rates, NEW lines \in SUBSET Lines,
           Keyed(lines)
    PROVE  /\ GoodRow(NewInvoice(kind, r, lines))
           /\ NewInvoice(kind, r, lines).lines = lines
           /\ NewInvoice(kind, r, lines).active
           /\ NewInvoice(kind, r, lines).status = "concept"
  <1> DEFINE row == [NoInvoice EXCEPT !.kind = kind, !.active = TRUE, !.rate = r]
  <1>1. NoInvoice \in Rows /\ NoInvoice.status = "concept" /\ NoInvoice.pays = 0
        BY EmptyRow
  <1>2. row \in Rows /\ row.status = "concept" /\ row.pays = 0 /\ row.active
        BY <1>1 DEF Rows
  <1>3. NewInvoice(kind, r, lines) = WithLines(row, lines)
        BY DEF NewInvoice
  <1> HIDE DEF row
  <1>4. QED BY <1>2, <1>3, Recalculated DEF GoodRow

\* Drawing up an invoice over a row that does not count yet.
LEMMA DrawnUp ==
    ASSUME BillingInv, NEW i \in InvoiceIds, NextNumber(i), NEW kind \in Kinds, NEW r \in Rates,
           NEW lines \in SUBSET Lines, Keyed(lines),
           inv' = [inv EXCEPT ![i] = NewInvoice(kind, r, lines)],
           NEW items \in SUBSET Items, items \subseteq {l.item : l \in lines},
           invoiced' = invoiced \cup items, offered' = offered
    PROVE  BillingInv'
  <1>1. invoiced' \subseteq Items /\ offered' \subseteq Items
        BY DEF BillingInv, Shape
  <1>2. Shape' /\ LinesKeyed' /\ TotalsAgree' /\ SentBillsSomething' /\ PaidBillsSomething'
        BY <1>1, OneRow, FreshRow
  <1>3. ~Live(i)
        BY DEF NextNumber, NoInvoice, Live
  <1>4. NothingStuck'
    <2> DEFINE new == NewInvoice(kind, r, lines)
    <2>1. new.active /\ new.status # "cancelled" /\ new.lines = lines
          BY FreshRow
    <2> HIDE DEF new
    <2>2. \A x \in invoiced' :
              \/ x \in invoiced /\ ~(x \in On(i) /\ Live(i))
              \/ x # NoItem /\ x \in {l.item : l \in new.lines} /\ new.active /\ new.status # "cancelled"
          BY <1>3, <2>1, BillingAssumption DEF Items
    <2>3. inv' = [inv EXCEPT ![i] = new]
          BY DEF new
    <2>4. QED BY <2>2, <2>3, MarksKept
  <1>5. QED BY <1>2, <1>4 DEF BillingInv

LEMMA CreateInvoice ==
    ASSUME BillingInv, NEW i \in InvoiceIds, NEW r \in Rates, NEW chosen \in SUBSET offered,
           create_invoice(i, chosen, r)
    PROVE  BillingInv'
  <1> DEFINE lines == {Line(x, x, r, 1) : x \in chosen}
  <1>1. inv' = [inv EXCEPT ![i] = NewInvoice("invoice", r, lines)]
        BY DEF create_invoice
  <1>2. chosen \subseteq Items /\ NoItem \notin chosen
        BY BillingAssumption DEF BillingInv, Shape, Items
  <1>3. lines \in SUBSET Lines /\ Keyed(lines)
        BY <1>2 DEF Line, Lines, Keyed
  <1>4. chosen \subseteq {l.item : l \in lines}
    <2> SUFFICES ASSUME NEW x \in chosen PROVE \E l \in lines : l.item = x
        OBVIOUS
    <2>1. Line(x, x, r, 1) \in lines /\ Line(x, x, r, 1).item = x
          BY DEF Line
    <2>2. QED BY <2>1
  <1> HIDE DEF lines
  <1>5. invoiced' = invoiced \cup chosen /\ offered' = offered /\ NextNumber(i)
        BY DEF create_invoice, MarkInvoiced
  <1>6. "invoice" \in Kinds /\ chosen \in SUBSET Items
        BY <1>2 DEF Kinds
  <1>7. QED BY ONLY BillingInv, <1>1, <1>3, <1>4, <1>5, <1>6, DrawnUp

LEMMA CreateAdvance ==
    ASSUME BillingInv, NEW i \in InvoiceIds, NEW r \in Rates, create_voorschotnota(i, r)
    PROVE  BillingInv'
  <1>1. /\ inv' = [inv EXCEPT ![i] = NewInvoice("invoice", r, {Line(1, NoItem, r, 1)})]
        /\ invoiced' = invoiced \cup {} /\ offered' = offered /\ NextNumber(i)
        BY DEF create_voorschotnota
  <1>2. {Line(1, NoItem, r, 1)} \in SUBSET Lines /\ Keyed({Line(1, NoItem, r, 1)})
        BY DEF Line, Lines, Keyed
  <1>3. {} \subseteq {l.item : l \in {Line(1, NoItem, r, 1)}} /\ {} \in SUBSET Items
            /\ "invoice" \in Kinds
        BY DEF Kinds
  <1>4. QED BY <1>1, <1>2, <1>3, DrawnUp

LEMMA CreateCreditNote ==
    ASSUME BillingInv, NEW i \in InvoiceIds, NEW j \in InvoiceIds, NEW n \in 1..MaxLines,
           NEW r \in Rates, create_credit_note(i, j, n, r)
    PROVE  BillingInv'
  <1> DEFINE lines == {Line(k, NoItem, r, -1) : k \in 1..n}
  <1>1. /\ inv' = [inv EXCEPT ![i] = NewInvoice("credit_note", r, lines)]
        /\ invoiced' = invoiced \cup {} /\ offered' = offered /\ NextNumber(i)
        BY DEF create_credit_note
  <1>2. lines \in SUBSET Lines /\ Keyed(lines)
        BY DEF Line, Lines, Keyed
  <1> HIDE DEF lines
  <1>3. {} \subseteq {l.item : l \in lines} /\ {} \in SUBSET Items /\ "credit_note" \in Kinds
        BY DEF Kinds
  <1>4. QED BY <1>1, <1>2, <1>3, DrawnUp

LEMMA AddLine ==
    ASSUME BillingInv, NEW i \in InvoiceIds, NEW r \in Rates, NEW x \in Items \cup {NoItem},
           add_line(i, x, r)
    PROVE  BillingInv'
  <1>1. PICK n \in 1..MaxLines :
            /\ {k \in 1..n : \A l \in inv[i].lines : l.id # k} = {n}
            /\ inv' = [inv EXCEPT ![i] = WithLines(@, @.lines \cup {Line(n, x, r, 1)})]
        BY DEF add_line
  <1> DEFINE lines == inv[i].lines \cup {Line(n, x, r, 1)}
             new == WithLines(inv[i], lines)
  <1>2. Editable(i) /\ inv' = [inv EXCEPT ![i] = new]
        BY <1>1 DEF add_line
  <1>0. lines \in SUBSET Lines
        BY BillingAssumption DEF Line, Lines, BillingInv, Shape, Rows
  <1>12. Keyed(lines)
        BY <1>1 DEF Keyed, Line, BillingInv, LinesKeyed
  <1>3. GoodRow(new)
        BY <1>0, <1>2, <1>12, EditedRow
  <1>4. invoiced' \subseteq Items /\ offered' \subseteq Items
        BY BillingAssumption DEF add_line, BillingInv, Shape, Items
  <1>5. new.lines = lines /\ new.active /\ new.status # "cancelled"
        BY <1>0, <1>2, Recalculated DEF BillingInv, Shape, Editable
  <1>6. x \in {l.item : l \in lines} /\ {l.item : l \in inv[i].lines} \subseteq {l.item : l \in lines}
    <2>1. Line(n, x, r, 1) \in lines /\ Line(n, x, r, 1).item = x
          BY DEF Line
    <2>2. QED BY <2>1
  <1> HIDE DEF lines, new
  <1>7. Shape' /\ LinesKeyed' /\ TotalsAgree' /\ SentBillsSomething' /\ PaidBillsSomething'
        BY <1>2, <1>3, <1>4, OneRow
  <1>8. Keeps(inv[i], new)
        BY <1>5, <1>6 DEF Keeps
  <1>9. \A y \in invoiced' : y \in invoiced \/ (y = x /\ x # NoItem)
        BY BillingAssumption DEF add_line
  <1>10. NothingStuck'
    <2>1. \A y \in invoiced' :
              \/ y \in invoiced /\ Keeps(inv[i], new)
              \/ y # NoItem /\ y \in {l.item : l \in new.lines} /\ new.active /\ new.status # "cancelled"
          BY <1>5, <1>6, <1>8, <1>9
    <2>2. QED BY <1>2, <2>1, MarksKept
  <1>11. QED BY <1>7, <1>10 DEF BillingInv

\* The item of the line is given back; the others keep theirs.
LEMMA RemoveLine ==
    ASSUME BillingInv, NEW i \in InvoiceIds, NEW l \in inv[i].lines, remove_line(i, l)
    PROVE  BillingInv'
  <1> DEFINE lines == inv[i].lines \ {l}
             new == WithLines(inv[i], lines)
  <1>1. Editable(i) /\ inv' = [inv EXCEPT ![i] = new] /\ invoiced' = invoiced \ {l.item}
        BY DEF remove_line, Freed
  <1>0. lines \in SUBSET Lines /\ Keyed(lines)
        BY DEF BillingInv, Shape, Rows, LinesKeyed, Keyed
  <1>2. GoodRow(new)
        BY <1>0, <1>1, EditedRow
  <1>3. invoiced' \subseteq Items /\ offered' \subseteq Items
        BY <1>1 DEF remove_line, BillingInv, Shape
  <1>4. new.lines = lines /\ new.active /\ new.status # "cancelled"
        BY <1>0, <1>1, Recalculated DEF BillingInv, Shape, Editable
  <1>5. \A x \in On(i) : x # l.item => x # NoItem /\ x \in {k.item : k \in lines}
        BY DEF On
  <1> HIDE DEF lines, new
  <1>6. Shape' /\ LinesKeyed' /\ TotalsAgree' /\ SentBillsSomething' /\ PaidBillsSomething'
        BY <1>1, <1>2, <1>3, OneRow
  <1>7. NothingStuck'
    <2>1. \A x \in invoiced' :
              \/ x \in invoiced /\ ~(x \in On(i) /\ Live(i))
              \/ x # NoItem /\ x \in {k.item : k \in new.lines} /\ new.active /\ new.status # "cancelled"
          BY <1>1, <1>4, <1>5
    <2>2. QED BY <1>1, <2>1, MarksKept
  <1>8. QED BY <1>6, <1>7 DEF BillingInv

\* The rate of a line changes, its item does not.
LEMMA UpdateInvoice ==
    ASSUME BillingInv, NEW i \in InvoiceIds, NEW r \in Rates, update_invoice(i, r)
    PROVE  BillingInv'
  <1> DEFINE lines == {IF l.rate = inv[i].rate THEN [l EXCEPT !.rate = r] ELSE l : l \in inv[i].lines}
             row == [inv[i] EXCEPT !.rate = r]
             new == WithLines(row, lines)
  <1>1. Editable(i) /\ inv' = [inv EXCEPT ![i] = new]
        BY DEF update_invoice
  <1>2. inv[i] \in Rows /\ row \in Rows /\ row.status = inv[i].status /\ row.pays = inv[i].pays
            /\ row.active = inv[i].active /\ inv[i].pays \in Nat
        BY DEF Rows, BillingInv, Shape
  <1> HIDE DEF lines, row, new
  <1>3. inv[i].pays = 0 /\ inv[i].status = "concept"
        BY <1>1, <1>2 DEF BillingInv, PaidBillsSomething, Editable
  <1> USE DEF lines
  <1>0. lines \in SUBSET Lines
        BY <1>2 DEF Lines, Rows
  <1>10. Keyed(lines)
    <2>1. \A l \in inv[i].lines : l \in Lines
          BY <1>2 DEF Rows
    <2>2. \A l \in Lines : [l EXCEPT !.rate = r].id = l.id
          BY DEF Lines
    <2>3. SUFFICES ASSUME NEW a \in lines, NEW b \in lines, a.id = b.id PROVE a = b
          BY DEF Keyed
    <2>4. PICK l \in inv[i].lines : a = IF l.rate = inv[i].rate THEN [l EXCEPT !.rate = r] ELSE l
          OBVIOUS
    <2>5. PICK k \in inv[i].lines : b = IF k.rate = inv[i].rate THEN [k EXCEPT !.rate = r] ELSE k
          OBVIOUS
    <2>6. l.id = k.id
          BY <2>1, <2>2, <2>3, <2>4, <2>5
    <2>7. l = k
          BY <2>6 DEF Keyed, BillingInv, LinesKeyed
    <2>8. QED BY <2>4, <2>5, <2>7
  <1> HIDE DEF lines
  <1>9. /\ new \in Rows /\ new.lines = lines /\ new.total = Totals(lines)
        /\ new.status = row.status /\ new.active = row.active /\ new.pays = row.pays
        BY <1>0, <1>2, Recalculated DEF new
  <1>4. GoodRow(new) /\ new.lines = lines /\ new.active = inv[i].active /\ new.status = "concept"
        BY <1>2, <1>3, <1>9, <1>10 DEF GoodRow
  <1> USE DEF lines
  <1>5. {l.item : l \in inv[i].lines} \subseteq {l.item : l \in lines}
    <2> SUFFICES ASSUME NEW l \in inv[i].lines PROVE \E k \in lines : k.item = l.item
        OBVIOUS
    <2>1. [l EXCEPT !.rate = r].item = l.item
          OBVIOUS
    <2>2. CASE l.rate = inv[i].rate
          BY <2>1, <2>2
    <2>3. CASE l.rate # inv[i].rate
          BY <2>3
    <2>4. QED BY <2>2, <2>3
  <1> HIDE DEF lines, row, new
  <1>6. Keeps(inv[i], new)
        BY <1>1, <1>4, <1>5 DEF Keeps, Editable
  <1>7. invoiced' = invoiced /\ offered' \subseteq Items
        BY DEF update_invoice, BillingInv, Shape
  <1>8. QED BY <1>1, <1>4, <1>6, <1>7, Kept

\* A new status that needs lines, on an invoice that has them.
LEMMA NewStatus ==
    ASSUME BillingInv, NEW i \in InvoiceIds, NEW status \in Statuses, inv[i].lines # {},
           status \notin {"concept", "cancelled"}, inv[i].status # "cancelled", SetStatus(i, status)
    PROVE  BillingInv'
  <1> DEFINE new == [inv[i] EXCEPT !.status = status]
  <1>1. inv' = [inv EXCEPT ![i] = new]
        BY DEF SetStatus
  <1>2. GoodRow(new) /\ Keeps(inv[i], new)
        BY DEF GoodRow, Keeps, Rows, Statuses, BillingInv, Shape, LinesKeyed, TotalsAgree
  <1> HIDE DEF new
  <1>3. invoiced' = invoiced /\ offered' \subseteq Items
        BY DEF SetStatus, BillingInv, Shape
  <1>4. QED BY <1>1, <1>2, <1>3, Kept

LEMMA StatusHandlers ==
    ASSUME BillingInv, NEW i \in InvoiceIds,
           \/ approve_invoice(i) \/ send_invoice(i) \/ process_overdue_invoices(i) \/ mark_paid(i)
    PROVE  BillingInv'
  <1>1. PICK status \in {"approved", "sent", "overdue", "paid"} :
            SetStatus(i, status) /\ inv[i].lines # {} /\ inv[i].status # "cancelled"
    <2>1. CASE approve_invoice(i)
          BY <2>1 DEF approve_invoice, MayApprove
    <2>2. CASE send_invoice(i)
          BY <2>2 DEF send_invoice, BillingInv, SentBillsSomething
    <2>3. CASE process_overdue_invoices(i)
          BY <2>3 DEF process_overdue_invoices, BillingInv, SentBillsSomething
    <2>4. CASE mark_paid(i)
          BY <2>4 DEF mark_paid, Payable, BillingInv, SentBillsSomething
    <2>5. QED BY <2>1, <2>2, <2>3, <2>4
  <1>2. status \in Statuses /\ status \notin {"concept", "cancelled"}
        BY DEF Statuses
  <1>3. QED BY <1>1, <1>2, NewStatus

LEMMA CreatePayment ==
    ASSUME BillingInv, NEW i \in InvoiceIds, NEW covered \in BOOLEAN,
           create_invoice_payment(i, covered)
    PROVE  BillingInv'
  <1> DEFINE status == IF covered THEN "paid" ELSE "partially_paid"
             left == inv[i].pays + 1
             new == [inv[i] EXCEPT !.pays = left, !.status = status]
  <1>1. inv' = [inv EXCEPT ![i] = new]
        BY DEF create_invoice_payment, BillingInv, Shape
  <1>2. inv[i].lines # {} /\ inv[i].status # "cancelled"
        BY DEF create_invoice_payment, Payable, BillingInv, SentBillsSomething
  <1>3. status \in Statuses /\ status \notin {"concept", "cancelled"}
        BY DEF Statuses
  <1> HIDE DEF status
  <1>7. inv[i] \in Rows /\ Keyed(inv[i].lines) /\ inv[i].total = Totals(inv[i].lines)
        BY DEF BillingInv, Shape, LinesKeyed, TotalsAgree
  <1>9. left \in Nat
        BY <1>2, <1>7 DEF Rows
  <1> HIDE DEF left
  <1>8. new \in Rows /\ new.lines = inv[i].lines /\ new.total = inv[i].total
            /\ new.status = status /\ new.active = inv[i].active
        BY <1>3, <1>7, <1>9 DEF Rows
  <1>4. GoodRow(new) /\ Keeps(inv[i], new)
        BY <1>2, <1>3, <1>7, <1>8 DEF GoodRow, Keeps
  <1> HIDE DEF new
  <1>5. invoiced' = invoiced /\ offered' \subseteq Items
        BY DEF create_invoice_payment, BillingInv, Shape
  <1>6. QED BY <1>1, <1>4, <1>5, Kept

\* Also when the invoice was cancelled: it was paid on, so it has lines.
LEMMA DeletePayment ==
    ASSUME BillingInv, NEW i \in InvoiceIds, delete_invoice_payment(i)
    PROVE  BillingInv'
  <1> DEFINE status == StatusOnDeletion(i)
             left == inv[i].pays - 1
             new == [inv[i] EXCEPT !.pays = left, !.status = status]
  <1>1. inv' = [inv EXCEPT ![i] = new]
        BY DEF delete_invoice_payment, BillingInv, Shape
  <1>2. inv[i].pays > 0 /\ inv[i].lines # {} /\ inv[i].status # "concept" /\ inv[i].pays \in Nat
        BY DEF delete_invoice_payment, BillingInv, PaidBillsSomething, Shape, Rows
  <1>3. status \in Statuses /\ status # "concept" /\ (inv[i].status # "cancelled" => status # "cancelled")
        BY <1>2 DEF StatusOnDeletion, Statuses, BillingInv, Shape, Rows
  <1> HIDE DEF status
  <1>7. inv[i] \in Rows /\ Keyed(inv[i].lines) /\ inv[i].total = Totals(inv[i].lines)
        BY DEF BillingInv, Shape, LinesKeyed, TotalsAgree
  <1>9. left \in Nat
        BY <1>2, <1>7 DEF Rows
  <1> HIDE DEF left
  <1>8. new \in Rows /\ new.lines = inv[i].lines /\ new.total = inv[i].total
            /\ new.status = status /\ new.active = inv[i].active
        BY <1>3, <1>7, <1>9 DEF Rows
  <1>4. GoodRow(new) /\ Keeps(inv[i], new)
        BY <1>2, <1>3, <1>7, <1>8 DEF GoodRow, Keeps
  <1> HIDE DEF new
  <1>5. invoiced' = invoiced /\ offered' \subseteq Items
        BY DEF delete_invoice_payment, BillingInv, Shape
  <1>6. QED BY <1>1, <1>4, <1>5, Kept

\* Cancelled or deleted, an invoice gives back all it bills.
LEMMA GivenBack ==
    ASSUME BillingInv, NEW i \in InvoiceIds, NEW new, GoodRow(new),
           inv' = [inv EXCEPT ![i] = new],
           invoiced' = Released(i), offered' = offered
    PROVE  BillingInv'
  <1>1. invoiced' \subseteq Items /\ offered' \subseteq Items
        BY DEF Released, BillingInv, Shape
  <1>2. Shape' /\ LinesKeyed' /\ TotalsAgree' /\ SentBillsSomething' /\ PaidBillsSomething'
        BY <1>1, OneRow
  <1>3. \A x \in invoiced' : x \in invoiced /\ ~(x \in On(i) /\ Live(i))
        BY DEF Released
  <1>4. NothingStuck'
        BY <1>3, MarksKept
  <1>5. QED BY <1>2, <1>4 DEF BillingInv

LEMMA CancelInvoice ==
    ASSUME BillingInv, NEW i \in InvoiceIds, cancel_invoice(i)
    PROVE  BillingInv'
  <1>1. inv' = [inv EXCEPT ![i] = [inv[i] EXCEPT !.status = "cancelled"]]
        BY DEF cancel_invoice
  <1>2. GoodRow([inv[i] EXCEPT !.status = "cancelled"])
    <2>1. inv[i] \in Rows /\ Keyed(inv[i].lines) /\ inv[i].total = Totals(inv[i].lines)
              /\ (inv[i].pays > 0 => inv[i].lines # {})
          BY DEF BillingInv, Shape, LinesKeyed, TotalsAgree, PaidBillsSomething
    <2>2. [inv[i] EXCEPT !.status = "cancelled"] \in Rows
          BY <2>1 DEF Rows, Statuses
    <2>3. QED BY <2>1, <2>2 DEF GoodRow, Rows
  <1>3. invoiced' = Released(i) /\ offered' = offered
        BY DEF cancel_invoice
  <1>4. QED BY <1>1, <1>2, <1>3, GivenBack

LEMMA DeleteInvoice ==
    ASSUME BillingInv, NEW i \in InvoiceIds, delete_invoice(i)
    PROVE  BillingInv'
  <1> DEFINE new == [NoInvoice EXCEPT !.kind = "deleted", !.lines = inv[i].lines,
                                      !.total = inv[i].total]
  <1>1. inv' = [inv EXCEPT ![i] = new]
        BY DEF delete_invoice
  <1>2. GoodRow(new)
    <2>1. inv[i] \in Rows /\ Keyed(inv[i].lines) /\ inv[i].total = Totals(inv[i].lines)
          BY DEF BillingInv, Shape, LinesKeyed, TotalsAgree
    <2>2. new \in Rows /\ new.lines = inv[i].lines /\ new.total = inv[i].total
              /\ new.status = "concept" /\ new.pays = 0
          BY <2>1, EmptyRow DEF Rows, Kinds
    <2>3. QED BY <2>1, <2>2 DEF GoodRow
  <1>3. invoiced' = Released(i) /\ offered' = offered
        BY DEF delete_invoice
  <1> HIDE DEF new
  <1>4. QED BY <1>1, <1>2, <1>3, GivenBack

-----------------------------------------------------------------------------
\* The invariant survives every step.
LEMMA StepInv == BillingInv /\ [Next]_vars => BillingInv'
  <1> SUFFICES ASSUME BillingInv, [Next]_vars PROVE BillingInv'
      OBVIOUS
  <1>1. CASE open_page
        BY <1>1, BillingAssumption
        DEF open_page, Items, BillingInv, Shape, LinesKeyed, NothingStuck, TotalsAgree, SentBillsSomething,
            PaidBillsSomething, BilledOn, Live, On
  <1>2. CASE \E x \in Items : delete_time_entry(x) \/ delete_expense(x)
        BY <1>2 DEF delete_time_entry, delete_expense, BillingInv, Shape, LinesKeyed, NothingStuck, TotalsAgree,
                    SentBillsSomething, PaidBillsSomething, BilledOn, Live, On
  <1>3. CASE \E i \in InvoiceIds, r \in Rates :
                \/ \E chosen \in SUBSET offered : create_invoice(i, chosen, r)
                \/ create_voorschotnota(i, r)
                \/ \E j \in InvoiceIds, n \in 1..MaxLines : create_credit_note(i, j, n, r)
                \/ \E x \in Items \cup {NoItem} : add_line(i, x, r)
                \/ update_invoice(i, r)
        BY <1>3, CreateInvoice, CreateAdvance, CreateCreditNote, AddLine, UpdateInvoice
  <1>4. CASE \E i \in InvoiceIds :
                \/ \E l \in inv[i].lines : remove_line(i, l)
                \/ approve_invoice(i) \/ send_invoice(i) \/ process_overdue_invoices(i)
                \/ mark_paid(i)
                \/ \E covered \in BOOLEAN : create_invoice_payment(i, covered)
                \/ delete_invoice_payment(i)
                \/ cancel_invoice(i) \/ delete_invoice(i)
        BY <1>4, RemoveLine, StatusHandlers, CreatePayment, DeletePayment, CancelInvoice, DeleteInvoice
  <1>5. CASE UNCHANGED vars
        BY <1>5 DEF vars, BillingInv, Shape, LinesKeyed, NothingStuck, TotalsAgree, SentBillsSomething,
                    PaidBillsSomething, BilledOn, Live, On
  <1>6. QED BY <1>1, <1>2, <1>3, <1>4, <1>5 DEF Next

\* What is deleted or loose is an item too.
ItemsOnly == gone \subseteq Items /\ loose \subseteq Items

LEMMA StepItems == BillingInv /\ ItemsOnly /\ [Next]_vars => ItemsOnly'
  <1> SUFFICES ASSUME BillingInv, ItemsOnly, [Next]_vars PROVE ItemsOnly'
      OBVIOUS
  <1>0. /\ offered \subseteq Items
        /\ \A i \in InvoiceIds : On(i) \subseteq Items
        BY DEF BillingInv, Shape, Rows, Lines, On
  <1>1. CASE open_page \/ UNCHANGED vars
        BY <1>1 DEF open_page, vars, ItemsOnly
  <1>2. CASE \E x \in Items : delete_time_entry(x) \/ delete_expense(x)
        BY <1>2 DEF delete_time_entry, delete_expense, ItemsOnly
  <1>3. CASE \E i \in InvoiceIds, r \in Rates :
                \/ create_voorschotnota(i, r)
                \/ \E j \in InvoiceIds, n \in 1..MaxLines : create_credit_note(i, j, n, r)
                \/ update_invoice(i, r)
        BY <1>3 DEF create_voorschotnota, create_credit_note, update_invoice, ItemsOnly
  <1>4. CASE \E i \in InvoiceIds, r \in Rates :
                \/ \E chosen \in SUBSET offered : create_invoice(i, chosen, r)
                \/ \E x \in Items \cup {NoItem} : add_line(i, x, r)
    <2>1. \A items : Loosened(items) \subseteq items
          BY DEF Loosened
    <2>2. \A x : {x} \cap Items \subseteq Items /\ {x} \cap Hours \subseteq Items
          BY DEF Items
    <2>3. QED BY <1>0, <1>4, <2>1, <2>2 DEF create_invoice, add_line, ItemsOnly
  <1>5. CASE \E i \in InvoiceIds :
                \/ \E l \in inv[i].lines : remove_line(i, l)
                \/ approve_invoice(i) \/ send_invoice(i) \/ process_overdue_invoices(i)
                \/ mark_paid(i)
                \/ \E covered \in BOOLEAN : create_invoice_payment(i, covered)
                \/ delete_invoice_payment(i)
                \/ cancel_invoice(i) \/ delete_invoice(i)
    <2>1. PICK i \in InvoiceIds :
            gone' = gone /\ (loose' \subseteq loose \cup On(i))
          BY <1>5 DEF remove_line, approve_invoice, send_invoice, process_overdue_invoices, mark_paid,
                      SetStatus, create_invoice_payment, delete_invoice_payment, cancel_invoice,
                      delete_invoice
    <2>2. QED BY <1>0, <2>1 DEF ItemsOnly
  <1>6. QED BY <1>1, <1>2, <1>3, <1>4, <1>5 DEF Next

LEMMA Invariant == Spec => [](BillingInv /\ ItemsOnly)
  <1>1. Init => ItemsOnly
        BY DEF Init, ItemsOnly
  <1>2. QED BY <1>1, InitInv, StepInv, StepItems, PTL DEF Spec

\* Every column keeps a value its schema allows, and lines keep their keys.
THEOREM BillingTypeCorrect == Spec => []TypeOK
  <1>1. BillingInv /\ ItemsOnly => TypeOK
        BY DEF BillingInv, ItemsOnly, Shape, LinesKeyed, Keyed, Rows, Kinds, TypeOK
  <1>2. QED BY <1>1, Invariant, PTL

\* Nothing that is marked as invoiced is ever stuck (_release_invoiced_items).
THEOREM MarksAreReleased == Spec => []NothingStuck
  <1>1. BillingInv => NothingStuck
        BY DEF BillingInv
  <1>2. QED BY <1>1, Invariant, PTL

\* The totals cached on an invoice never lag behind its lines.
THEOREM TotalsFollowLines == Spec => []TotalsAgree
  <1>1. BillingInv => TotalsAgree
        BY DEF BillingInv
  <1>2. QED BY <1>1, Invariant, PTL

\* No invoice without lines leaves the office, payments taken back included.
THEOREM NoEmptyInvoice == Spec => []SentBillsSomething
  <1>1. BillingInv => SentBillsSomething
        BY DEF BillingInv
  <1>2. QED BY <1>1, Invariant, PTL

-----------------------------------------------------------------------------
(* Nothing is billed twice: outside the four routes that BilledOnce names, *)
(* no item is on two invoices that count, and none is offered or deleted   *)
(* while it is billed.  BilledOnce is not inductive: a removed line gives  *)
(* its item back, so the item must not be on a second line of the same     *)
(* invoice.  OneLineEach adds that.                                        *)

\* A row that counts bills what its lines name.
Bills(row, x) ==
    /\ row.active /\ row.status # "cancelled"
    /\ x # NoItem /\ \E l \in row.lines : l.item = x

OneEach(row, free) ==
    row.active /\ row.status # "cancelled" =>
        \A l, k \in row.lines : l.item = k.item /\ l.item \in Items \ free => l = k

OneLineEach == \A i \in InvoiceIds : OneEach(inv[i], loose)

OnceInv == BillingInv /\ BilledOnce /\ OneLineEach

-----------------------------------------------------------------------------
\* BilledOnce in terms of rows.
LEMMA BilledOnRows ==
    ASSUME NEW x PROVE BilledOn(x) = {i \in InvoiceIds : Bills(inv[i], x)}
  <1>1. \A i \in InvoiceIds : (Live(i) /\ x \in On(i)) <=> Bills(inv[i], x)
        BY DEF Live, On, Bills
  <1>2. QED BY <1>1 DEF BilledOn

LEMMA OnceOnRows ==
    BilledOnce <=>
      \A x \in Items \ loose :
          /\ \A i, j \in InvoiceIds : Bills(inv[i], x) /\ Bills(inv[j], x) => i = j
          /\ \A i \in InvoiceIds : Bills(inv[i], x) => x \in invoiced \ gone
  <1>1. \A x : BilledOn(x) = {i \in InvoiceIds : Bills(inv[i], x)}
        BY BilledOnRows
  <1>2. QED BY <1>1 DEF BilledOnce

\* Replacing one row: what it bills anew nobody else bills, all of it is
\* marked, and no mark of another invoice is lost.
LEMMA OnceStep ==
    ASSUME OnceInv, NEW i \in InvoiceIds, NEW new,
           inv' = [inv EXCEPT ![i] = new], loose \subseteq loose',
           \A x \in Items \ loose' :
              Bills(new, x) => /\ x \in invoiced' \ gone'
                               /\ \/ Bills(inv[i], x)
                                  \/ \A j \in InvoiceIds : ~Bills(inv[j], x),
           \A x \in Items \ loose' : \A j \in InvoiceIds \ {i} :
              Bills(inv[j], x) /\ x \in invoiced \ gone => x \in invoiced' \ gone',
           OneEach(new, loose')
    PROVE  (BilledOnce /\ OneLineEach)'
  <1>1. \A j \in InvoiceIds : inv'[j] = IF j = i THEN new ELSE inv[j]
        BY DEF OnceInv, BillingInv, Shape
  <1>2. ASSUME NEW x \in Items \ loose'
        PROVE  /\ \A j, k \in InvoiceIds : Bills(inv'[j], x) /\ Bills(inv'[k], x) => j = k
               /\ \A j \in InvoiceIds : Bills(inv'[j], x) => x \in invoiced' \ gone'
    <2>1. x \in Items \ loose
          OBVIOUS
    <2>2. /\ \A j, k \in InvoiceIds : Bills(inv[j], x) /\ Bills(inv[k], x) => j = k
          /\ \A j \in InvoiceIds : Bills(inv[j], x) => x \in invoiced \ gone
          BY <2>1, OnceOnRows DEF OnceInv
    <2>3. QED BY <1>1, <2>2
  <1>3. BilledOnce'
    <2>1. \A x : BilledOn(x)' = {j \in InvoiceIds : Bills(inv'[j], x)}
      <3>1. \A x : \A j \in InvoiceIds : (Live(j) /\ x \in On(j))' <=> Bills(inv'[j], x)
            BY DEF Live, On, Bills
      <3>2. QED BY <3>1 DEF BilledOn
    <2>2. QED BY <1>2, <2>1 DEF BilledOnce
  <1>4. OneLineEach'
    <2>1. \A j \in InvoiceIds : OneEach(inv[j], loose')
          BY DEF OnceInv, OneLineEach, OneEach
    <2>2. QED BY <1>1, <2>1 DEF OneLineEach
  <1>5. QED BY <1>3, <1>4

\* A row that bills no more than before, with every mark in place.
LEMMA NoMore ==
    ASSUME OnceInv, NEW i \in InvoiceIds, NEW new,
           inv' = [inv EXCEPT ![i] = new], loose \subseteq loose',
           invoiced' = invoiced, gone' = gone,
           \A x \in Items \ loose' : Bills(new, x) => Bills(inv[i], x),
           OneEach(new, loose')
    PROVE  (BilledOnce /\ OneLineEach)'
  <1>1. \A x \in Items \ loose' : Bills(inv[i], x) => x \in invoiced \ gone
        BY OnceOnRows DEF OnceInv
  <1>2. QED BY <1>1, OnceStep

\* What changes only the columns beside the lines.
LEMMA SameLines ==
    ASSUME OnceInv, NEW i \in InvoiceIds, NEW new,
           inv' = [inv EXCEPT ![i] = new], loose' = loose, invoiced' = invoiced, gone' = gone,
           new.lines = inv[i].lines, new.active = inv[i].active, inv[i].status # "cancelled"
    PROVE  (BilledOnce /\ OneLineEach)'
  <1>1. \A x : Bills(new, x) => Bills(inv[i], x)
        BY DEF Bills
  <1>2. OneEach(new, loose')
        BY DEF OneEach, OnceInv, OneLineEach
  <1>3. QED BY <1>1, <1>2, NoMore

\* A row that stops counting gives back what it billed; nobody else bills it.
LEMMA Stops ==
    ASSUME OnceInv, NEW i \in InvoiceIds, NEW new,
           inv' = [inv EXCEPT ![i] = new], invoiced' = Released(i), gone' = gone,
           loose \subseteq loose', ~(new.active /\ new.status # "cancelled"),
           \A x \in (Items \ loose') \cap On(i) : \A j \in InvoiceIds \ {i} : ~Bills(inv[j], x)
    PROVE  (BilledOnce /\ OneLineEach)'
  <1>1. \A x : ~Bills(new, x)
        BY DEF Bills
  <1>2. OneEach(new, loose')
        BY DEF OneEach
  <1>3. \A x \in Items \ loose' : \A j \in InvoiceIds \ {i} :
            Bills(inv[j], x) /\ x \in invoiced \ gone => x \in invoiced' \ gone'
        BY DEF Released
  <1>4. QED BY <1>1, <1>2, <1>3, OnceStep

-----------------------------------------------------------------------------
(* One lemma per operation.                                                *)

\* A new invoice bills what was chosen, or nothing at all.
LEMMA OnceDrawnUp ==
    ASSUME OnceInv, NEW i \in InvoiceIds, NEW kind \in Kinds, NEW r \in Rates,
           NEW lines \in SUBSET Lines, Keyed(lines), NEW items,
           inv' = [inv EXCEPT ![i] = NewInvoice(kind, r, lines)],
           \A l \in lines : l.item \in items \cup {NoItem},
           \A l, k \in lines : l.item = k.item /\ l.item \in Items => l = k,
           invoiced' = invoiced \cup items, gone' = gone, loose' = loose \cup Loosened(items)
    PROVE  (BilledOnce /\ OneLineEach)'
  <1> DEFINE new == NewInvoice(kind, r, lines)
  <1>1. new.lines = lines
        BY FreshRow
  <1>2. inv' = [inv EXCEPT ![i] = new]
        OBVIOUS
  <1> HIDE DEF new
  <1>3. ASSUME NEW x \in Items \ loose', Bills(new, x)
        PROVE  x \in invoiced' \ gone' /\ \A j \in InvoiceIds : ~Bills(inv[j], x)
    <2>1. x \in items
          BY <1>1, <1>3 DEF Bills
    <2>2. BilledOn(x) = {} /\ x \notin gone
          BY <2>1, <1>3 DEF Loosened
    <2>3. QED BY <2>1, <2>2, BilledOnRows
  <1>4. OneEach(new, loose')
        BY <1>1 DEF OneEach
  <1>5. \A x : x \in invoiced \ gone => x \in invoiced' \ gone'
        OBVIOUS
  <1>6. QED BY <1>2, <1>3, <1>4, <1>5, OnceStep

LEMMA OnceCreate ==
    ASSUME OnceInv, NEW i \in InvoiceIds, NEW r \in Rates,
           \/ \E chosen \in SUBSET offered : create_invoice(i, chosen, r)
           \/ create_voorschotnota(i, r)
           \/ \E j \in InvoiceIds, n \in 1..MaxLines : create_credit_note(i, j, n, r)
    PROVE  (BilledOnce /\ OneLineEach)'
  <1>1. NoItem \notin Items /\ Kinds = {"none", "invoice", "credit_note", "deleted"}
        BY BillingAssumption DEF Items, Kinds
  <1>2. Loosened({}) = {}
        BY DEF Loosened
  <1>3. ASSUME NEW chosen \in SUBSET offered, create_invoice(i, chosen, r)
        PROVE  (BilledOnce /\ OneLineEach)'
    <2> DEFINE lines == {Line(x, x, r, 1) : x \in chosen}
    <2>1. chosen \subseteq Items
          BY DEF OnceInv, BillingInv, Shape
    <2>2. /\ lines \in SUBSET Lines /\ Keyed(lines)
          /\ \A l \in lines : l.item \in chosen \cup {NoItem}
          /\ \A l, k \in lines : l.item = k.item /\ l.item \in Items => l = k
          BY <2>1 DEF Line, Lines, Keyed
    <2>3. /\ inv' = [inv EXCEPT ![i] = NewInvoice("invoice", r, lines)]
          /\ invoiced' = invoiced \cup chosen /\ gone' = gone
          /\ loose' = loose \cup Loosened(chosen)
          BY <1>3 DEF create_invoice, MarkInvoiced
    <2> HIDE DEF lines
    <2>4. QED BY <1>1, <2>2, <2>3, OnceDrawnUp
  <1>4. ASSUME NEW kind \in Kinds, NEW lines \in SUBSET Lines, Keyed(lines),
               inv' = [inv EXCEPT ![i] = NewInvoice(kind, r, lines)],
               \A l \in lines : l.item = NoItem,
               invoiced' = invoiced, gone' = gone, loose' = loose
        PROVE  (BilledOnce /\ OneLineEach)'
    <2>1. /\ invoiced' = invoiced \cup {} /\ loose' = loose \cup Loosened({})
          /\ \A l \in lines : l.item \in {} \cup {NoItem}
          /\ \A l, k \in lines : l.item = k.item /\ l.item \in Items => l = k
          BY <1>1, <1>2, <1>4
    <2>2. QED BY <1>4, <2>1, OnceDrawnUp
  <1>5. CASE create_voorschotnota(i, r)
    <2>1. {Line(1, NoItem, r, 1)} \in SUBSET Lines /\ Keyed({Line(1, NoItem, r, 1)})
              /\ \A l \in {Line(1, NoItem, r, 1)} : l.item = NoItem
          BY DEF Line, Lines, Keyed
    <2>2. QED BY <1>1, <1>4, <1>5, <2>1 DEF create_voorschotnota
  <1>6. ASSUME NEW j \in InvoiceIds, NEW n \in 1..MaxLines, create_credit_note(i, j, n, r)
        PROVE  (BilledOnce /\ OneLineEach)'
    <2> DEFINE lines == {Line(k, NoItem, r, -1) : k \in 1..n}
    <2>1. lines \in SUBSET Lines /\ Keyed(lines) /\ \A l \in lines : l.item = NoItem
          BY DEF Line, Lines, Keyed
    <2>2. inv' = [inv EXCEPT ![i] = NewInvoice("credit_note", r, lines)]
              /\ invoiced' = invoiced /\ gone' = gone /\ loose' = loose
          BY <1>6 DEF create_credit_note
    <2> HIDE DEF lines
    <2>3. QED BY <1>1, <1>4, <2>1, <2>2
  <1>7. QED BY <1>3, <1>5, <1>6

\* An hour on a new line is loose; an expense is marked, and was billed nowhere.
LEMMA OnceAddLine ==
    ASSUME OnceInv, NEW i \in InvoiceIds, NEW r \in Rates, NEW y \in Items \cup {NoItem},
           add_line(i, y, r)
    PROVE  (BilledOnce /\ OneLineEach)'
  <1>1. PICK n \in 1..MaxLines :
            inv' = [inv EXCEPT ![i] = WithLines(@, @.lines \cup {Line(n, y, r, 1)})]
        BY DEF add_line
  <1> DEFINE line == Line(n, y, r, 1)
             lines == inv[i].lines \cup {line}
             new == WithLines(inv[i], lines)
  <1>2. /\ Editable(i) /\ inv' = [inv EXCEPT ![i] = new] /\ gone' = gone
        /\ invoiced' = invoiced \cup ({y} \cap Expenses)
        /\ loose' = loose \cup Loosened({y} \cap Items) \cup ({y} \cap Hours)
        BY <1>1 DEF add_line
  <1>3. line.item = y
        BY DEF Line
  <1>4. lines \in SUBSET Lines
        BY BillingAssumption DEF Line, Lines, OnceInv, BillingInv, Shape, Rows
  <1>5. new.lines = lines /\ new.active = inv[i].active /\ new.status = inv[i].status
        BY <1>4, Recalculated DEF OnceInv, BillingInv, Shape
  <1>6. y \in Items \ loose' => /\ y \in invoiced' \ gone'
                                 /\ \A j \in InvoiceIds : ~Bills(inv[j], y)
        BY <1>2, BilledOnRows DEF Loosened, Items
  <1> HIDE DEF line, new
  <1>7. ASSUME NEW x \in Items \ loose', Bills(new, x)
        PROVE  x \in invoiced' \ gone'
                  /\ (Bills(inv[i], x) \/ \A j \in InvoiceIds : ~Bills(inv[j], x))
    <2>1. CASE x = y
          BY <1>6, <2>1
    <2>2. CASE x # y
      <3>1. Bills(inv[i], x)
            BY <1>3, <1>5, <1>7, <2>2 DEF Bills
      <3>2. x \in invoiced \ gone
            BY <1>2, <3>1, OnceOnRows DEF OnceInv
      <3>3. QED BY <1>2, <3>1, <3>2
    <2>3. QED BY <2>1, <2>2
  <1>8. OneEach(new, loose')
    <2>1. OneEach(inv[i], loose) /\ inv[i].active /\ inv[i].status # "cancelled"
          BY <1>2 DEF OnceInv, OneLineEach, Editable
    <2>2. \A l \in inv[i].lines : l.item = y => y \notin Items \ loose'
          BY <1>6, <2>1, BillingAssumption DEF Bills, Items
    <2>3. QED BY <1>2, <1>3, <1>5, <2>1, <2>2 DEF OneEach
  <1>9. QED BY <1>2, <1>7, <1>8, OnceStep

\* No other line has the item that is given back.
LEMMA OnceRemoveLine ==
    ASSUME OnceInv, NEW i \in InvoiceIds, NEW l \in inv[i].lines, remove_line(i, l)
    PROVE  (BilledOnce /\ OneLineEach)'
  <1> DEFINE lines == inv[i].lines \ {l}
             new == WithLines(inv[i], lines)
  <1>1. /\ Editable(i) /\ inv' = [inv EXCEPT ![i] = new] /\ invoiced' = invoiced \ {l.item}
        /\ gone' = gone /\ loose' = loose
        BY DEF remove_line, Freed
  <1>2. lines \in SUBSET Lines
        BY DEF OnceInv, BillingInv, Shape, Rows
  <1>3. new.lines = lines /\ new.active = inv[i].active /\ new.status = inv[i].status
        BY <1>2, Recalculated DEF OnceInv, BillingInv, Shape
  <1> HIDE DEF new
  <1>4. OneEach(inv[i], loose) /\ inv[i].active /\ inv[i].status # "cancelled"
        BY <1>1 DEF OnceInv, OneLineEach, Editable
  <1>5. \A x \in Items \ loose : Bills(new, x) => Bills(inv[i], x) /\ x # l.item
        BY <1>3, <1>4 DEF Bills, OneEach
  <1>6. \A x \in Items \ loose : \A j \in InvoiceIds \ {i} : Bills(inv[j], x) => x # l.item
    <2> SUFFICES ASSUME NEW x \in Items \ loose, NEW j \in InvoiceIds \ {i}, Bills(inv[j], x),
                        x = l.item
                 PROVE  FALSE
        OBVIOUS
    <2>1. Bills(inv[i], x)
          BY <1>4 DEF Bills
    <2>2. QED BY <2>1, OnceOnRows DEF OnceInv
  <1>7. \A x \in Items \ loose : Bills(inv[i], x) => x \in invoiced \ gone
        BY OnceOnRows DEF OnceInv
  <1>8. OneEach(new, loose')
        BY <1>1, <1>3, <1>4 DEF OneEach
  <1>9. QED BY <1>1, <1>5, <1>6, <1>7, <1>8, OnceStep

\* Rates change, items do not.
LEMMA OnceUpdate ==
    ASSUME OnceInv, NEW i \in InvoiceIds, NEW r \in Rates, update_invoice(i, r)
    PROVE  (BilledOnce /\ OneLineEach)'
  <1> DEFINE Rerated(l) == IF l.rate = inv[i].rate THEN [l EXCEPT !.rate = r] ELSE l
             lines == {Rerated(l) : l \in inv[i].lines}
             row == [inv[i] EXCEPT !.rate = r]
             new == WithLines(row, lines)
  <1>1. /\ Editable(i) /\ inv' = [inv EXCEPT ![i] = new] /\ invoiced' = invoiced
        /\ gone' = gone /\ loose' = loose
        BY DEF update_invoice
  <1>2. inv[i] \in Rows /\ row \in Rows /\ row.status = inv[i].status /\ row.active = inv[i].active
        BY DEF Rows, OnceInv, BillingInv, Shape
  <1>3. \A l \in inv[i].lines : Rerated(l) \in Lines /\ Rerated(l).item = l.item
        BY <1>2 DEF Rows, Lines
  <1> HIDE DEF Rerated, row
  <1>4. lines \in SUBSET Lines
        BY <1>3
  <1>5. new.lines = lines /\ new.active = inv[i].active /\ new.status = inv[i].status
        BY <1>2, <1>4, Recalculated
  <1> HIDE DEF new
  <1>6. \A x : Bills(new, x) => Bills(inv[i], x)
        BY <1>3, <1>5 DEF Bills
  <1>7. OneEach(new, loose')
    <2>1. OneEach(inv[i], loose)
          BY DEF OnceInv, OneLineEach
    <2>2. QED BY <1>1, <1>3, <1>5, <2>1 DEF OneEach
  <1>8. QED BY <1>1, <1>6, <1>7, NoMore

LEMMA OnceStatus ==
    ASSUME OnceInv, NEW i \in InvoiceIds,
           \/ approve_invoice(i) \/ send_invoice(i) \/ process_overdue_invoices(i)
           \/ mark_paid(i) \/ \E covered \in BOOLEAN : create_invoice_payment(i, covered)
    PROVE  (BilledOnce /\ OneLineEach)'
  <1>0. inv[i] \in Rows /\ inv \in [InvoiceIds -> Rows]
        BY DEF OnceInv, BillingInv, Shape
  <1>1. PICK pays, status :
            /\ inv' = [inv EXCEPT ![i] = [inv[i] EXCEPT !.pays = pays, !.status = status]]
            /\ invoiced' = invoiced /\ gone' = gone /\ loose' = loose
            /\ inv[i].status # "cancelled"
    <2>1. CASE \E covered \in BOOLEAN : create_invoice_payment(i, covered)
      <3>1. PICK covered \in BOOLEAN : create_invoice_payment(i, covered)
            BY <2>1
      <3> DEFINE left == inv[i].pays + 1
                 status == IF covered THEN "paid" ELSE "partially_paid"
      <3>2. inv' = [inv EXCEPT ![i] = [inv[i] EXCEPT !.pays = left, !.status = status]]
            BY <1>0, <3>1 DEF create_invoice_payment
      <3> HIDE DEF left, status
      <3>3. QED BY <3>1, <3>2 DEF create_invoice_payment, Payable
    <2>2. CASE \/ approve_invoice(i) \/ send_invoice(i) \/ process_overdue_invoices(i) \/ mark_paid(i)
      <3>1. PICK status : SetStatus(i, status) /\ inv[i].status # "cancelled"
            BY <2>2 DEF approve_invoice, MayApprove, send_invoice, process_overdue_invoices, mark_paid,
                        Payable
      <3>2. inv' = [inv EXCEPT ![i] = [inv[i] EXCEPT !.pays = inv[i].pays, !.status = status]]
            BY <1>0, <3>1 DEF SetStatus, Rows
      <3>3. QED BY <3>1, <3>2 DEF SetStatus
    <2>3. QED BY <2>1, <2>2
  <1> DEFINE new == [inv[i] EXCEPT !.pays = pays, !.status = status]
  <1>2. new.lines = inv[i].lines /\ new.active = inv[i].active
        BY <1>0 DEF Rows
  <1> HIDE DEF new
  <1>3. QED BY <1>1, <1>2, SameLines DEF new

\* A cancelled invoice that comes back makes loose what it bills.
LEMMA OnceDeletePayment ==
    ASSUME OnceInv, NEW i \in InvoiceIds, delete_invoice_payment(i)
    PROVE  (BilledOnce /\ OneLineEach)'
  <1> DEFINE status == StatusOnDeletion(i)
             left == inv[i].pays - 1
             new == [inv[i] EXCEPT !.pays = left, !.status = status]
  <1>1. /\ inv' = [inv EXCEPT ![i] = new] /\ invoiced' = invoiced /\ gone' = gone
        /\ loose' = IF inv[i].status = "cancelled" /\ inv[i].pays > 1
                    THEN loose \cup On(i) ELSE loose
        BY DEF delete_invoice_payment, OnceInv, BillingInv, Shape
  <1>2. new.lines = inv[i].lines /\ new.active = inv[i].active /\ new.status = status
        BY DEF OnceInv, BillingInv, Shape, Rows
  <1>3. inv[i].status = "cancelled" /\ ~(inv[i].pays > 1) => status = "cancelled"
        BY DEF StatusOnDeletion
  <1> HIDE DEF new, status, left
  <1>4. CASE inv[i].status # "cancelled"
        BY <1>1, <1>2, <1>4, SameLines
  <1>5. CASE inv[i].status = "cancelled" /\ inv[i].pays > 1
    <2>1. \A x \in Items \ loose' : ~Bills(new, x)
          BY <1>1, <1>2, <1>5 DEF Bills, On
    <2>2. OneEach(new, loose')
          BY <1>1, <1>2, <1>5, BillingAssumption DEF OneEach, On, Items
    <2>3. QED BY <1>1, <2>1, <2>2, NoMore
  <1>6. CASE inv[i].status = "cancelled" /\ ~(inv[i].pays > 1)
    <2>1. (\A x : ~Bills(new, x)) /\ OneEach(new, loose')
          BY <1>2, <1>3, <1>6 DEF Bills, OneEach
    <2>2. QED BY <1>1, <2>1, NoMore
  <1>7. QED BY <1>4, <1>5, <1>6

\* Items of a cancelled invoice may be on another one by now: its deletion
\* makes those loose.
LEMMA OnceStops ==
    ASSUME OnceInv, NEW i \in InvoiceIds, cancel_invoice(i) \/ delete_invoice(i)
    PROVE  (BilledOnce /\ OneLineEach)'
  <1>1. CASE cancel_invoice(i)
    <2> DEFINE new == [inv[i] EXCEPT !.status = "cancelled"]
    <2>1. /\ inv' = [inv EXCEPT ![i] = new] /\ invoiced' = Released(i) /\ gone' = gone
          /\ loose' = loose /\ inv[i].active /\ inv[i].status # "cancelled"
          BY <1>1 DEF cancel_invoice
    <2>2. new.status = "cancelled"
          BY DEF OnceInv, BillingInv, Shape, Rows
    <2> HIDE DEF new
    <2>3. \A x \in Items \cap On(i) : Bills(inv[i], x)
          BY <2>1 DEF On, Bills
    <2>4. \A x \in (Items \ loose') \cap On(i) : \A j \in InvoiceIds \ {i} : ~Bills(inv[j], x)
          BY <2>1, <2>3, OnceOnRows DEF OnceInv
    <2>5. QED BY <2>1, <2>2, <2>4, Stops
  <1>2. CASE delete_invoice(i)
    <2> DEFINE new == [NoInvoice EXCEPT !.kind = "deleted", !.lines = inv[i].lines,
                                        !.total = inv[i].total]
    <2>1. /\ inv' = [inv EXCEPT ![i] = new] /\ invoiced' = Released(i) /\ gone' = gone
          /\ loose' = loose \cup {x \in On(i) : BilledOn(x) \ {i} # {}}
          BY <1>2 DEF delete_invoice
    <2>2. ~new.active
          BY DEF NoInvoice
    <2> HIDE DEF new
    <2>3. \A x \in (Items \ loose') \cap On(i) : \A j \in InvoiceIds \ {i} : ~Bills(inv[j], x)
      <3>1. \A x : BilledOn(x) = {j \in InvoiceIds : Bills(inv[j], x)}
            BY BilledOnRows
      <3>2. QED BY <2>1, <3>1
    <2>4. QED BY <2>1, <2>2, <2>3, Stops
  <1>3. QED BY <1>1, <1>2

\* Only what is on no invoice, or carries no mark, can be deleted.
LEMMA OnceGone ==
    ASSUME OnceInv, NEW y \in Items, delete_time_entry(y) \/ delete_expense(y)
    PROVE  (BilledOnce /\ OneLineEach)'
  <1>1. inv' = inv /\ invoiced' = invoiced /\ loose' = loose /\ gone' = gone \cup {y}
        BY DEF delete_time_entry, delete_expense
  <1>2. y \notin loose => \A j \in InvoiceIds : ~Bills(inv[j], y)
    <2>1. CASE delete_time_entry(y)
          BY <2>1 DEF delete_time_entry, Bills, On
    <2>2. CASE delete_expense(y)
          BY <2>2, OnceOnRows DEF delete_expense, OnceInv
    <2>3. QED BY <2>1, <2>2
  <1>3. \A x : BilledOn(x)' = {j \in InvoiceIds : Bills(inv[j], x)}
    <2>1. \A x : BilledOn(x)' = BilledOn(x)
          BY <1>1 DEF BilledOn, Live, On
    <2>2. QED BY <2>1, BilledOnRows
  <1>4. BilledOnce'
        BY <1>1, <1>2, <1>3, OnceOnRows DEF OnceInv, BilledOnce
  <1>5. OneLineEach'
        BY <1>1 DEF OnceInv, OneLineEach, OneEach
  <1>6. QED BY <1>4, <1>5

-----------------------------------------------------------------------------
LEMMA OnceNext == OnceInv /\ [Next]_vars => OnceInv'
  <1> SUFFICES ASSUME OnceInv, [Next]_vars PROVE OnceInv'
      OBVIOUS
  <1>0. BillingInv'
        BY StepInv DEF OnceInv
  <1>1. CASE open_page \/ UNCHANGED vars
    <2>1. inv' = inv /\ invoiced' = invoiced /\ gone' = gone /\ loose' = loose
          BY <1>1 DEF open_page, vars
    <2>2. QED BY <1>0, <2>1 DEF OnceInv, BilledOnce, BilledOn, Live, On, OneLineEach, OneEach
  <1>2. CASE \E x \in Items : delete_time_entry(x) \/ delete_expense(x)
        BY <1>0, <1>2, OnceGone DEF OnceInv
  <1>3. CASE \E i \in InvoiceIds, r \in Rates :
                \/ \E chosen \in SUBSET offered : create_invoice(i, chosen, r)
                \/ create_voorschotnota(i, r)
                \/ \E j \in InvoiceIds, n \in 1..MaxLines : create_credit_note(i, j, n, r)
                \/ \E x \in Items \cup {NoItem} : add_line(i, x, r)
                \/ update_invoice(i, r)
        BY <1>0, <1>3, OnceCreate, OnceAddLine, OnceUpdate DEF OnceInv
  <1>4. CASE \E i \in InvoiceIds :
                \/ \E l \in inv[i].lines : remove_line(i, l)
                \/ approve_invoice(i) \/ send_invoice(i) \/ process_overdue_invoices(i)
                \/ mark_paid(i)
                \/ \E covered \in BOOLEAN : create_invoice_payment(i, covered)
                \/ delete_invoice_payment(i)
                \/ cancel_invoice(i) \/ delete_invoice(i)
        BY <1>0, <1>4, OnceRemoveLine, OnceStatus, OnceDeletePayment, OnceStops DEF OnceInv
  <1>5. QED BY <1>1, <1>2, <1>3, <1>4 DEF Next

\* No hour and no expense is billed twice, or lost while it is billed, except
\* along the four routes that make it loose.
THEOREM NothingBilledTwice == Spec => []BilledOnce
  <1>1. Init => OnceInv
    <2>1. Init => BilledOnce /\ OneLineEach
          BY DEF Init, BilledOnce, BilledOn, Live, NoInvoice, OneLineEach, OneEach
    <2>2. QED BY <2>1, InitInv DEF OnceInv
  <1>2. OnceInv => BilledOnce
        BY DEF OnceInv
  <1>3. QED BY <1>1, <1>2, OnceNext, PTL DEF Spec
=============================================================================
