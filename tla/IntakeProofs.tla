------------------------------ MODULE IntakeProofs ------------------------------
(***************************************************************************)
(* For any number of mails, letters, cases and rows, while no two requests *)
(* are answered at once: what was decided of a mail stands, one mail is    *)
(* the source of one case, and linked answers go to the case of their      *)
(* letter.                                                                 *)
(*                                                                         *)
(* A synchronisation is a fold over the messages it fetched and a second   *)
(* fold over the rows.  What one round of the loop preserves the whole     *)
(* fold preserves (TakesStay, PassStays), by the minimum of a set of       *)
(* naturals; so each argument names a set of tables, Tables or Threaded,   *)
(* and shows that one message taken or one row matched stays in it.        *)
(*                                                                         *)
(* DecisionStands is not inductive: a row that a person decided on keeps   *)
(* its case only because a synchronisation leaves alone what hangs         *)
(* somewhere and what was laid aside, so Standing says that such a row is  *)
(* one of these.  Nor is OneCasePerMail: a second approval is refused by   *)
(* the status of the request, so the request behind a case must be         *)
(* approved (SoundSources), and a mail may have one row only (OncePer).    *)
(***************************************************************************)
EXTENDS Intake, FiniteSetTheorems, SequenceTheorems, WellFoundedInduction, TLAPS

\* A set of naturals that holds zero and every successor holds them all.
LEMMA NatSetInduction ==
    ASSUME NEW S, 0 \in S, \A n \in Nat : n \in S => n + 1 \in S
    PROVE  \A n \in Nat : n \in S
<1> DEFINE T == Nat \ S
<1>1. SUFFICES ASSUME T # {} PROVE FALSE
  OBVIOUS
<1>2. IsWellFoundedOn(OpToRel(<, Nat), Nat)
  BY NatLessThanWellFounded
<1>3. PICK x \in T : \A y \in T : ~ (<<y, x>> \in OpToRel(<, Nat))
  BY <1>1, <1>2, WFMin
<1>4. \A y \in T : ~(y < x)
  BY <1>3 DEF OpToRel
<1>5. x # 0 /\ x - 1 \in Nat /\ x - 1 < x /\ (x - 1) + 1 = x
  BY SMT
<1>6. x - 1 \in S
  BY <1>4, <1>5
<1> QED BY <1>5, <1>6

\* A set of naturals that is not empty has a least member.
LEMMA LeastOf ==
    ASSUME NEW S \in SUBSET Nat, S # {}
    PROVE  \E x \in S : \A y \in S : x <= y
<1>1. IsWellFoundedOn(OpToRel(<, Nat), Nat)
  BY NatLessThanWellFounded
<1>2. PICK x \in S : \A y \in S : ~ (<<y, x>> \in OpToRel(<, Nat))
  BY <1>1, WFMin
<1>3. \A y \in S : ~(y < x)
  BY <1>2 DEF OpToRel
<1> QED BY <1>3

\* A bounded one has a greatest member.
LEMMA GreatestOf ==
    ASSUME NEW n \in Nat, NEW S \in SUBSET (0 .. n), S # {}
    PROVE  \E x \in S : \A y \in S : y <= x
<1> DEFINE R == {n - x : x \in S}
<1>1. R \in SUBSET Nat /\ R # {}
  <2>1. \A x \in S : n - x \in Nat
    OBVIOUS
  <2> QED BY <2>1
<1>2. PICK r \in R : \A y \in R : r <= y
  BY <1>1, LeastOf
<1>3. PICK x \in S : r = n - x
  OBVIOUS
<1>4. \A y \in S : n - y \in R
  OBVIOUS
<1>5. \A y \in S : n - x <= n - y
  BY <1>2, <1>3, <1>4
<1> QED BY <1>5

\* The greatest of a set of positions is in it.
LEMMA MaxIsIn ==
    ASSUME NEW n \in Nat, NEW S \in SUBSET (1 .. n), S # {}
    PROVE  Max(S) \in S /\ \A y \in S : y <= Max(S)
<1>1. \E x \in S : \A y \in S : y <= x
  <2>1. S \in SUBSET (0 .. n)
    OBVIOUS
  <2> QED BY <2>1, GreatestOf
<1>2. \E x \in S : \A y \in S : x >= y
  BY <1>1
<1>3. Max(S) \in S /\ \A y \in S : Max(S) >= y
  BY <1>2 DEF Max
<1> QED BY <1>3

\* Without it, the positions end one earlier.
LEMMA WithoutMax ==
    ASSUME NEW k \in Nat, NEW S \in SUBSET (1 .. (k + 1)), S # {}
    PROVE  Max(S) \in S /\ S \ {Max(S)} \in SUBSET (1 .. k)
<1>1. k + 1 \in Nat
  OBVIOUS
<1>2. Max(S) \in S /\ \A y \in S : y <= Max(S)
  BY <1>1, MaxIsIn
<1>3. ASSUME NEW y \in S, y # Max(S) PROVE y \in 1 .. k
  <2>1. y \in 1 .. (k + 1) /\ Max(S) \in 1 .. (k + 1) /\ y <= Max(S)
    BY <1>2
  <2> QED BY <2>1, <1>3
<1> QED BY <1>2, <1>3

\* f is the function by which a fold over 1..n is computed.
Computes(f, n, T, base, step) ==
    /\ f \in [SUBSET (1 .. n) -> T]
    /\ \A s \in SUBSET (1 .. n) :
          f[s] = IF s = {} THEN base ELSE step[<<f[s \ {Max(s)}], Max(s)>>]

\* There is one.
LEMMA FoldExists ==
    ASSUME NEW n \in Nat, NEW T, NEW base \in T, NEW step \in [T \X (1 .. n) -> T]
    PROVE  \E f : Computes(f, n, T, base, step)
<1> DEFINE Good(k) == \E f : Computes(f, k, T, base, step)
           S == {k \in Nat : k <= n => Good(k)}
<1>1. 0 \in S
  <2> DEFINE f == [s \in SUBSET (1 .. 0) |-> base]
  <2>1. SUBSET (1 .. 0) = {{}}
    OBVIOUS
  <2>2. f \in [SUBSET (1 .. 0) -> T] /\ \A s \in SUBSET (1 .. 0) : s = {} /\ f[s] = base
    BY <2>1
  <2>3. Good(0)
    BY <2>2 DEF Computes
  <2> QED BY <2>3
<1>2. ASSUME NEW k \in Nat, k \in S PROVE k + 1 \in S
  <2> HIDE DEF Good
  <2>1. SUFFICES ASSUME k + 1 <= n PROVE Good(k + 1)
    OBVIOUS
  <2>2. k <= n /\ Good(k)
    BY <1>2, <2>1
  <2> USE DEF Good
  <2>a. PICK f : Computes(f, k, T, base, step)
    BY <2>2
  <2>3. /\ f \in [SUBSET (1 .. k) -> T]
        /\ \A s \in SUBSET (1 .. k) :
              f[s] = IF s = {} THEN base ELSE step[<<f[s \ {Max(s)}], Max(s)>>]
    BY <2>a DEF Computes
  <2> DEFINE g == [s \in SUBSET (1 .. (k + 1)) |->
                     IF s \in SUBSET (1 .. k) THEN f[s]
                     ELSE step[<<f[s \ {Max(s)}], Max(s)>>]]
  <2>4. SUBSET (1 .. k) \subseteq SUBSET (1 .. (k + 1))
    OBVIOUS
  <2>5. ASSUME NEW s \in SUBSET (1 .. (k + 1)), s \notin SUBSET (1 .. k)
        PROVE  /\ s # {} /\ s \ {Max(s)} \in SUBSET (1 .. k) /\ Max(s) \in 1 .. n
               /\ step[<<f[s \ {Max(s)}], Max(s)>>] \in T
    <3>1. s # {}
      BY <2>5
    <3>2. Max(s) \in s /\ s \ {Max(s)} \in SUBSET (1 .. k)
      BY <3>1, WithoutMax
    <3>3. Max(s) \in 1 .. n
      <4>1. Max(s) \in 1 .. (k + 1)
        BY <3>2
      <4> QED BY <4>1, <2>1
    <3>4. <<f[s \ {Max(s)}], Max(s)>> \in T \X (1 .. n)
      BY <3>2, <3>3, <2>3
    <3> HIDE DEF g
    <3>5. step[<<f[s \ {Max(s)}], Max(s)>>] \in T
      BY <3>4
    <3> QED BY <3>1, <3>2, <3>3, <3>5
  <2>6. \A s \in SUBSET (1 .. (k + 1)) : g[s] \in T
    BY <2>3, <2>5
  <2>7. g \in [SUBSET (1 .. (k + 1)) -> T]
    BY <2>6
  <2>8. ASSUME NEW s \in SUBSET (1 .. (k + 1))
        PROVE  g[s] = IF s = {} THEN base ELSE step[<<g[s \ {Max(s)}], Max(s)>>]
    <3>1. CASE s \in SUBSET (1 .. k)
      <4>1. g[s] = f[s]
        BY <3>1
      <4>2. CASE s = {}
        BY <4>1, <4>2, <3>1, <2>3
      <4>3. CASE s # {}
        <5>1. s \ {Max(s)} \in SUBSET (1 .. k)
          BY <3>1
        <5>2. g[s \ {Max(s)}] = f[s \ {Max(s)}]
          BY <5>1, <2>4
        <5> QED BY <4>1, <4>3, <5>2, <3>1, <2>3
      <4> QED BY <4>2, <4>3
    <3>2. CASE s \notin SUBSET (1 .. k)
      <4>1. s # {} /\ s \ {Max(s)} \in SUBSET (1 .. k)
        BY <2>5, <3>2
      <4>2. g[s \ {Max(s)}] = f[s \ {Max(s)}]
        BY <4>1, <2>4
      <4> QED BY <4>1, <4>2, <3>2
    <3> QED BY <3>1, <3>2
  <2> HIDE DEF g
  <2>9. Computes(g, k + 1, T, base, step)
    BY <2>7, <2>8 DEF Computes
  <2> QED BY <2>9
<1> HIDE DEF S
<1>3. n \in S
  BY <1>1, <1>2, NatSetInduction
<1>4. Good(n)
  <2> HIDE DEF Good
  <2> QED BY <1>3 DEF S
<1> QED BY <1>4

\* A fold stays where its steps stay.
LEMMA FoldStays ==
    ASSUME NEW n \in Nat, NEW T, NEW f, f[{}] \in T,
           \A s \in SUBSET (1 .. n) : (s # {} /\ f[s \ {Max(s)}] \in T) => f[s] \in T
    PROVE  f[1 .. n] \in T
<1> DEFINE S == {k \in Nat : k <= n => \A s \in SUBSET (1 .. k) : f[s] \in T}
<1>1. 0 \in S
  <2>1. \A s \in SUBSET (1 .. 0) : s = {}
    OBVIOUS
  <2> QED BY <2>1
<1>2. ASSUME NEW k \in Nat, k \in S PROVE k + 1 \in S
  <2>1. SUFFICES ASSUME k + 1 <= n, NEW s \in SUBSET (1 .. (k + 1)) PROVE f[s] \in T
    OBVIOUS
  <2>2. CASE s = {}
    BY <2>2
  <2>3. CASE s # {}
    <3>1. s \ {Max(s)} \in SUBSET (1 .. k)
      BY <2>3, WithoutMax
    <3>2. f[s \ {Max(s)}] \in T
      BY <1>2, <2>1, <3>1
    <3>3. s \in SUBSET (1 .. n)
      BY <2>1
    <3> QED BY <2>3, <3>2, <3>3
  <2> QED BY <2>2, <2>3
<1> HIDE DEF S
<1>3. n \in S
  BY <1>1, <1>2, NatSetInduction
<1> QED BY <1>3 DEF S

\* The loop over the messages, and the second pass.
Taken(table, messages, force, oldest) ==
    FoldLeft(LAMBDA t, x : Take(t, x, force, oldest), table, messages)

Passed(table) == FoldLeft(Rematch, table, [i \in DOMAIN table |-> i])

\* Taking messages one after the other stays where taking one stays.
LEMMA TakesStay ==
    ASSUME NEW T, NEW table \in T, NEW n \in Nat, NEW messages, DOMAIN messages = 1 .. n,
           NEW force, NEW oldest,
           \A t \in T, k \in 1 .. n : Take(t, messages[k], force, oldest) \in T
    PROVE  Taken(table, messages, force, oldest) \in T
<1> DEFINE Eq(f) == f = [s \in SUBSET DOMAIN messages |->
                           IF s = {} THEN table
                           ELSE Take(f[s \ {Max(s)}], messages[Max(s)], force, oldest)]
           F == CHOOSE f : Eq(f)
           step == [p \in T \X (1 .. n) |-> Take(p[1], messages[p[2]], force, oldest)]
<1>1. Taken(table, messages, force, oldest) = F[DOMAIN messages]
  BY DEF Taken, FoldLeft, MapThenFoldSet
<1>2. step \in [T \X (1 .. n) -> T]
  OBVIOUS
<1> HIDE DEF step
<1>a. PICK g : Computes(g, n, T, table, step)
  BY <1>2, FoldExists
<1>3. /\ g \in [SUBSET (1 .. n) -> T]
      /\ \A s \in SUBSET (1 .. n) :
            g[s] = IF s = {} THEN table ELSE step[<<g[s \ {Max(s)}], Max(s)>>]
  BY <1>a DEF Computes
<1>4. ASSUME NEW s \in SUBSET (1 .. n), s # {}
      PROVE  /\ Max(s) \in 1 .. n /\ s \ {Max(s)} \in SUBSET (1 .. n)
             /\ step[<<g[s \ {Max(s)}], Max(s)>>]
                   = Take(g[s \ {Max(s)}], messages[Max(s)], force, oldest)
  <2>1. Max(s) \in s
    BY <1>4, MaxIsIn
  <2>2. Max(s) \in 1 .. n /\ s \ {Max(s)} \in SUBSET (1 .. n)
    BY <2>1
  <2>3. g[s \ {Max(s)}] \in T
    BY <2>2, <1>3
  <2> QED BY <2>2, <2>3 DEF step
<1>5. Eq(g)
  <2>1. \A s \in SUBSET (1 .. n) :
           g[s] = IF s = {} THEN table
                  ELSE Take(g[s \ {Max(s)}], messages[Max(s)], force, oldest)
    BY <1>3, <1>4
  <2> QED BY <2>1, <1>3
<1>6. Eq(F)
  <2> HIDE DEF Eq
  <2> QED BY <1>5
<1> HIDE DEF F
<1>7. F[{}] \in T
  BY <1>6
<1>8. \A s \in SUBSET (1 .. n) : (s # {} /\ F[s \ {Max(s)}] \in T) => F[s] \in T
  <2> TAKE s \in SUBSET (1 .. n)
  <2> HAVE s # {} /\ F[s \ {Max(s)}] \in T
  <2>1. Max(s) \in 1 .. n
    BY <1>4
  <2>2. F[s] = Take(F[s \ {Max(s)}], messages[Max(s)], force, oldest)
    BY <1>6
  <2> QED BY <2>1, <2>2
<1>9. F[1 .. n] \in T
  BY <1>7, <1>8, FoldStays
<1> QED BY <1>1, <1>9

-----------------------------------------------------------------------------
(* The invariant.                                                          *)

\* How a row may have come to its case.
Signals == {"thread", "case_number", "force_case_id", "contact_email", "outbound_send", "none"}

Row == [msg : Messages \cup {Synthetic}, about : Messages, thread : Messages \cup {Synthetic},
        case : Cases \cup {NoCase}, by : Signals, bounce : BOOLEAN, dismissed : BOOLEAN]

\* The case was opened, if only to be deleted.
Exists(c) == c \in Cases /\ cases[c].state # "none"

\* The row of a letter that was sent from here.
Outbound(row) == row.by = "outbound_send"

\* A row is of a message that is there, names a case that exists exactly when a
\* signal gave it one, and is of its own thread; a letter's row may have got the
\* identity of another letter only where the subjects begin alike.
RowOK(row) ==
    /\ row.about \in Range(post)
    /\ row.case = NoCase => row.by = "none"
    /\ row.case # NoCase => Exists(row.case)
    /\ Outbound(row) =>
          /\ row.about \in Letters /\ row.thread = row.msg
          /\ row.msg # Synthetic => row.msg \in Letters /\ Prefix[row.msg] = Prefix[row.about]
    /\ ~Outbound(row) => row.msg = row.about /\ row.thread = Thread(row.about)

\* A message has one row as a letter sent and one as mail synchronised.
OncePer(t) ==
    \A i, j \in DOMAIN t :
        (t[i].about = t[j].about /\ (Outbound(t[i]) <=> Outbound(t[j]))) => i = j

SoundTable(t) == (\A i \in DOMAIN t : RowOK(t[i])) /\ OncePer(t)

SoundCases ==
    /\ DOMAIN cases = Cases
    /\ \A c \in Cases :
          /\ DOMAIN cases[c] = {"state", "client", "debtor", "party", "source"}
          /\ cases[c].state \in {"none", "open", "deleted"}

SoundMail == post \in Seq(Messages) /\ rows \in Seq(Row) /\ SoundTable(rows)

Decisions == [case : Cases \cup {NoCase}, by : {"nobody", "person", "intake"}, dismissed : BOOLEAN]

\* What was decided still holds, and no synchronisation may touch it: the row
\* hangs on a case, or it was laid aside by a person.
Standing(i) ==
    decided[i].by # "nobody" =>
        /\ i \in DOMAIN rows
        /\ rows[i].case = decided[i].case /\ rows[i].dismissed = decided[i].dismissed
        /\ rows[i].case # NoCase \/ (rows[i].dismissed /\ ~rows[i].bounce)

SoundDecisions ==
    /\ decided \in [1 .. MaxRows -> Decisions]
    /\ \A i \in 1 .. MaxRows : Standing(i)

Statuses == {"none", "detected", "processing", "pending_review", "failed", "approved", "rejected"}

SoundIntakes ==
    /\ DOMAIN intakes = 1 .. MaxRows
    /\ \A i \in 1 .. MaxRows :
          /\ DOMAIN intakes[i] = {"status", "client", "case"}
          /\ intakes[i].status \in Statuses
          /\ intakes[i].status # "none" => i \in DOMAIN rows

\* A case that stems from a mail has the approved request of its row behind it.
SoundSources ==
    /\ \A c \in Cases : cases[c].source \in Mails =>
          \E i \in DOMAIN rows : rows[i].about = cases[c].source /\ intakes[i].status = "approved"
    /\ OneCasePerMail

IInv ==
    /\ SoundMail /\ Len(rows) <= MaxRows
    /\ SoundCases /\ SoundDecisions /\ SoundIntakes /\ SoundSources

-----------------------------------------------------------------------------
(* Tables that a synchronisation may leave behind.                         *)

\* What stays of the table that a synchronisation began with.
Keeps(t) ==
    /\ Len(rows) <= Len(t)
    /\ \A i \in DOMAIN rows :
          /\ t[i].about = rows[i].about
          /\ t[i].dismissed = rows[i].dismissed /\ t[i].bounce = rows[i].bounce
          /\ rows[i].case # NoCase => t[i].case = rows[i].case
          /\ (rows[i].dismissed /\ ~rows[i].bounce) => t[i].case = rows[i].case

\* The tables that an invariant holds of, and that keep what was decided.
Tables == {t \in Seq(Row) : SoundTable(t) /\ Keeps(t)}

\* Only what exists is a signal's answer.
Fits(to) ==
    /\ to.case # NoCase /\ Exists(to.case) /\ to.case \in Cases
    /\ to.by \in Signals \ {"none", "outbound_send"}

\* Row i gets the case that a signal named.
Put(t, i, to) == [t EXCEPT ![i].case = to.case, ![i].by = to.by]

LEMMA PutRows ==
    ASSUME NEW t \in Seq(Row), NEW i \in DOMAIN t, NEW to,
           to.case \in Cases \cup {NoCase}, to.by \in Signals, NEW u, u = Put(t, i, to)
    PROVE  /\ u \in Seq(Row) /\ Len(u) = Len(t) /\ DOMAIN u = DOMAIN t
           /\ \A j \in DOMAIN t : j # i => u[j] = t[j]
           /\ u[i].case = to.case /\ u[i].by = to.by /\ u[i].msg = t[i].msg /\ u[i].about = t[i].about
           /\ u[i].thread = t[i].thread /\ u[i].bounce = t[i].bounce
           /\ u[i].dismissed = t[i].dismissed
<1> DEFINE c == to.case
           b == to.by
           r == [t[i] EXCEPT !.case = c, !.by = b]
           v == [t EXCEPT ![i] = r]
<1> HIDE DEF c, b
<1>0. c \in Cases \cup {NoCase} /\ b \in Signals
  BY DEF c, b
<1>1. t[i] \in Row
  OBVIOUS
<1>2. r \in Row /\ r.case = c /\ r.by = b /\ r.msg = t[i].msg /\ r.about = t[i].about
      /\ r.thread = t[i].thread /\ r.bounce = t[i].bounce /\ r.dismissed = t[i].dismissed
  BY <1>0, <1>1 DEF Row
<1>3. [t EXCEPT ![i].case = c, ![i].by = b] = v
  BY <1>1 DEF Row
<1>6. u = v
  BY <1>3 DEF Put, c, b
<1> HIDE DEF r
<1>4. v \in Seq(Row) /\ Len(v) = Len(t) /\ DOMAIN v = DOMAIN t
  BY <1>2
<1>5. v[i] = r /\ \A j \in DOMAIN t : j # i => v[j] = t[j]
  OBVIOUS
<1> HIDE DEF v
<1>7. to.case = c /\ to.by = b
  BY DEF c, b
<1> QED BY <1>2, <1>6, <1>4, <1>5, <1>7

LEMMA PutStays ==
    ASSUME NEW t \in Tables, NEW i \in DOMAIN t, t[i].case = NoCase,
           ~(t[i].dismissed /\ ~t[i].bounce), NEW to, Fits(to)
    PROVE  Put(t, i, to) \in Tables
<1> DEFINE u == Put(t, i, to)
<1> HIDE DEF u
<1>0. u = Put(t, i, to)
  BY DEF u
<1>1. t \in Seq(Row) /\ SoundTable(t) /\ Keeps(t)
  BY DEF Tables
<1>2. to.case \in Cases /\ to.by \in Signals /\ to.case # NoCase /\ Exists(to.case)
      /\ to.by # "outbound_send" /\ to.by # "none"
  BY DEF Fits
<1>3. /\ u \in Seq(Row) /\ Len(u) = Len(t) /\ DOMAIN u = DOMAIN t
      /\ \A j \in DOMAIN t : j # i => u[j] = t[j]
      /\ u[i].case = to.case /\ u[i].by = to.by /\ u[i].msg = t[i].msg
      /\ u[i].about = t[i].about /\ u[i].thread = t[i].thread /\ u[i].bounce = t[i].bounce
      /\ u[i].dismissed = t[i].dismissed
  BY <1>0, <1>1, <1>2, PutRows
<1>4. RowOK(t[i]) /\ ~Outbound(t[i]) /\ ~Outbound(u[i])
  BY <1>1, <1>2, <1>3 DEF SoundTable, RowOK, Outbound
<1>5. RowOK(u[i])
  BY <1>2, <1>3, <1>4 DEF RowOK, Outbound
<1>6. \A j \in DOMAIN u : RowOK(u[j])
  BY <1>1, <1>3, <1>5 DEF SoundTable
<1>7. \A j \in DOMAIN u : u[j].about = t[j].about /\ (Outbound(u[j]) <=> Outbound(t[j]))
  BY <1>3, <1>4
<1>8. OncePer(u)
  BY <1>1, <1>3, <1>7 DEF SoundTable, OncePer
<1>9. Keeps(u)
  <2>1. \A j \in DOMAIN rows : j \in DOMAIN t
    BY <1>1 DEF Keeps
  <2>2. ASSUME i \in DOMAIN rows
        PROVE  rows[i].case = NoCase /\ ~(rows[i].dismissed /\ ~rows[i].bounce)
    BY <1>1, <2>2 DEF Keeps
  <2> QED BY <1>1, <1>3, <2>1, <2>2 DEF Keeps
<1> QED BY <1>3, <1>6, <1>8, <1>9 DEF Tables, SoundTable, u

LEMMA AppendRange ==
    ASSUME NEW S, NEW s \in Seq(S), NEW x \in S
    PROVE  Range(Append(s, x)) = Range(s) \cup {x}
<1> DEFINE u == Append(s, x)
<1>1. u[Len(s) + 1] = x /\ (\A k \in DOMAIN s : u[k] = s[k]) /\ DOMAIN u = DOMAIN s \cup {Len(s) + 1}
  OBVIOUS
<1> HIDE DEF u
<1>2. Range(u) = Range(s) \cup {x}
  BY <1>1, ZenonT(60) DEF Range
<1> QED BY <1>2 DEF u

LEMMA DateType ==
    ASSUME post \in Seq(Messages), NEW x \in Range(post)
    PROVE  Date(x) \in 1 .. Len(post)
<1>1. \E n \in DOMAIN post : post[n] = x
  BY DEF Range
<1> QED BY <1>1 DEF Date

\* The newest of some rows is one of them.
LEMMA NewestIsOne ==
    ASSUME post \in Seq(Messages), NEW t, NEW linked, linked # {},
           \A i \in linked : t[i].about \in Range(post)
    PROVE  \E i \in linked : CaseOfNewest(t, linked) = t[i].case
<1> DEFINE S == {Date(t[i].about) : i \in linked}
<1>1. \A i \in linked : Date(t[i].about) \in 1 .. Len(post)
  BY DateType
<1>2. S \in SUBSET (0 .. Len(post)) /\ S # {} /\ Len(post) \in Nat
  BY <1>1
<1>3. PICK d \in S : \A e \in S : e <= d
  <2> HIDE DEF S
  <2> QED BY <1>2, GreatestOf
<1>4. PICK i \in linked : d = Date(t[i].about)
  OBVIOUS
<1>5. \A j \in linked : Date(t[j].about) <= Date(t[i].about)
  BY <1>3, <1>4
<1> DEFINE k == CHOOSE k \in linked : \A j \in linked : Date(t[j].about) <= Date(t[k].about)
<1>6. k \in linked
  BY <1>5
<1>7. CaseOfNewest(t, linked) = t[k].case
  BY DEF CaseOfNewest
<1> QED BY <1>6, <1>7

LEMMA ThreadCaseFrom ==
    ASSUME post \in Seq(Messages), NEW t \in Tables, NEW x
    PROVE  \/ ThreadCase(t, x) = NoCase
           \/ \E i \in DOMAIN t : /\ t[i].thread = Thread(x) /\ t[i].case # NoCase
                                  /\ ThreadCase(t, x) = t[i].case
<1> DEFINE linked == {i \in DOMAIN t : t[i].thread = Thread(x) /\ t[i].case # NoCase}
<1>1. ThreadCase(t, x) = CaseOfNewest(t, linked)
  BY DEF ThreadCase
<1>2. CASE linked = {}
  BY <1>1, <1>2 DEF CaseOfNewest
<1>3. CASE linked # {}
  <2>1. \A i \in linked : t[i].about \in Range(post)
    BY DEF Tables, SoundTable, RowOK
  <2> HIDE DEF linked
  <2>2. \E i \in linked : CaseOfNewest(t, linked) = t[i].case
    BY <1>3, <2>1, NewestIsOne
  <2> QED BY <1>1, <2>2 DEF linked
<1> QED BY <1>2, <1>3

LEMMA ContactCaseFrom ==
    ASSUME NEW x
    PROVE  ContactCase(x) = NoCase \/ Exists(ContactCase(x))
<1> DEFINE who == Participant(x)
           hits == {c \in Cases : \/ Live(c) /\ who \in {cases[c].client, cases[c].debtor}
                                  \/ cases[c].state # "none" /\ who = cases[c].party}
<1>1. ContactCase(x) = IF Cardinality(hits) = 1 THEN CHOOSE c \in hits : TRUE ELSE NoCase
  BY DEF ContactCase
<1>2. ASSUME Cardinality(hits) = 1 PROVE hits # {}
  <2> HIDE DEF hits
  <2> QED BY <1>2, FS_EmptySet
<1>3. \A c \in hits : Exists(c)
  BY DEF Exists, Live
<1> HIDE DEF hits
<1> QED BY <1>1, <1>2, <1>3

LEMMA NamedCaseFrom ==
    ASSUME NEW x \in Messages
    PROVE  NamedCase(x) = NoCase \/ Exists(NamedCase(x))
<1>1. Number(x) \in Cases \cup {NoCase}
  BY CasesAssumption DEF Number, Messages
<1> QED BY <1>1 DEF NamedCase, Live, Exists

\* A signal names a case that exists, or none.
LEMMA MatchFits ==
    ASSUME post \in Seq(Messages), NEW t \in Tables, NEW x \in Messages, NEW force,
           force = NoCase \/ Exists(force)
    PROVE  LET to == Match(t, x, force) IN Fits(to) \/ to = [case |-> NoCase, by |-> "none"]
<1> DEFINE byThread == ThreadCase(t, x)
           rest == IF force # NoCase THEN force ELSE ContactCase(x)
           restBy == IF force # NoCase THEN "force_case_id" ELSE "contact_email"
<1>1. byThread = NoCase \/ Exists(byThread)
  BY ThreadCaseFrom DEF Tables, SoundTable, RowOK
<1>2. rest = NoCase \/ Exists(rest)
  BY ContactCaseFrom
<1>3. NamedCase(x) = NoCase \/ Exists(NamedCase(x))
  BY NamedCaseFrom
<1>4. restBy \in {"force_case_id", "contact_email"}
  OBVIOUS
<1>5. Match(t, x, force) =
         CASE byThread # NoCase -> [case |-> byThread, by |-> "thread"]
           [] byThread = NoCase /\ NamedCase(x) # NoCase ->
                 [case |-> NamedCase(x), by |-> "case_number"]
           [] byThread = NoCase /\ NamedCase(x) = NoCase /\ ~Named(x) /\ x \notin System
                  /\ rest # NoCase ->
                 [case |-> rest, by |-> restBy]
           [] OTHER -> [case |-> NoCase, by |-> "none"]
  BY DEF Match
<1> HIDE DEF byThread, rest, restBy
<1> QED BY <1>1, <1>2, <1>3, <1>4, <1>5 DEF Fits, Exists, Signals

LEMMA RematchStays ==
    ASSUME post \in Seq(Messages), NEW t \in Tables, NEW i \in DOMAIN t
    PROVE  Rematch(t, i) \in Tables
<1> DEFINE to == Match(t, t[i].about, NoCase)
<1>1. t[i].about \in Messages
  <2>1. t[i] \in Row
    BY DEF Tables
  <2> QED BY <2>1 DEF Row
<1>2. Fits(to) \/ to = [case |-> NoCase, by |-> "none"]
  BY <1>1, MatchFits
<1>3. Rematch(t, i) =
         IF t[i].case = NoCase /\ ~t[i].bounce /\ ~t[i].dismissed /\ to.case # NoCase
         THEN Put(t, i, to) ELSE t
  BY DEF Rematch, Put
<1> HIDE DEF to
<1>4. CASE t[i].case = NoCase /\ ~t[i].bounce /\ ~t[i].dismissed /\ to.case # NoCase
  <2>1. Fits(to)
    BY <1>2, <1>4
  <2>2. Put(t, i, to) \in Tables
    BY <1>4, <2>1, PutStays
  <2> QED BY <1>3, <1>4, <2>2
<1>5. CASE ~(t[i].case = NoCase /\ ~t[i].bounce /\ ~t[i].dismissed /\ to.case # NoCase)
  BY <1>3, <1>5
<1> QED BY <1>4, <1>5

LEMMA AgainStays ==
    ASSUME NEW t \in Tables, NEW i \in DOMAIN t, NEW x \in Messages, NEW force,
           force = NoCase \/ Exists(force)
    PROVE  Again(t, i, x, force) \in Tables
<1> DEFINE to == CASE NamedCase(x) # NoCase -> [case |-> NamedCase(x), by |-> "case_number"]
                   [] ~Named(x) /\ x \notin System /\ force # NoCase ->
                         [case |-> force, by |-> "force_case_id"]
                   [] OTHER -> [case |-> NoCase, by |-> "none"]
<1>1. NamedCase(x) = NoCase \/ Exists(NamedCase(x))
  BY NamedCaseFrom
<1>2. Fits(to) \/ to = [case |-> NoCase, by |-> "none"]
  <2>1. NamedCase(x) # NoCase => Named(x)
    BY DEF NamedCase, Named
  <2> QED BY <1>1, <2>1 DEF Fits, Exists, Signals
<1>3. Again(t, i, x, force) =
         IF t[i].case = NoCase /\ ~(t[i].dismissed /\ ~t[i].bounce) /\ to.case # NoCase
         THEN Put(t, i, to) ELSE t
  BY DEF Again, Put
<1> HIDE DEF to
<1>4. CASE t[i].case = NoCase /\ ~(t[i].dismissed /\ ~t[i].bounce) /\ to.case # NoCase
  <2>1. Fits(to)
    BY <1>2, <1>4
  <2>2. Put(t, i, to) \in Tables
    BY <1>4, <2>1, PutStays
  <2> QED BY <1>3, <1>4, <2>2
<1>5. CASE ~(t[i].case = NoCase /\ ~(t[i].dismissed /\ ~t[i].bounce) /\ to.case # NoCase)
  BY <1>3, <1>5
<1> QED BY <1>4, <1>5

LEMMA MergedStays ==
    ASSUME NEW t \in Tables, NEW l \in Letters, NEW i \in Waiting(t, l)
    PROVE  Merged(t, i, l) \in Tables
<1> DEFINE r == [t[i] EXCEPT !.msg = l, !.thread = l]
           u == [t EXCEPT ![i] = r]
<1>1. t \in Seq(Row) /\ SoundTable(t) /\ Keeps(t)
  BY DEF Tables
<1>2. i \in DOMAIN t /\ t[i].msg = Synthetic /\ Prefix[t[i].about] = Prefix[l]
  BY DEF Waiting
<1>3. t[i] \in Row /\ RowOK(t[i])
  BY <1>1, <1>2 DEF SoundTable
<1>4. Outbound(t[i])
  BY <1>2, <1>3, CasesAssumption DEF RowOK, Row, Messages, Synthetic
<1>5. /\ r \in Row /\ r.msg = l /\ r.thread = l /\ r.about = t[i].about
      /\ r.case = t[i].case /\ r.by = t[i].by /\ r.bounce = t[i].bounce
      /\ r.dismissed = t[i].dismissed
  BY <1>3 DEF Row, Messages
<1>6. Merged(t, i, l) = u
  BY <1>3 DEF Merged, Row
<1> HIDE DEF r
<1>7. u \in Seq(Row) /\ Len(u) = Len(t) /\ DOMAIN u = DOMAIN t /\ u[i] = r
      /\ \A j \in DOMAIN t : j # i => u[j] = t[j]
  BY <1>1, <1>2, <1>5
<1> HIDE DEF u
<1>8. RowOK(r)
  BY <1>2, <1>3, <1>4, <1>5 DEF RowOK, Outbound
<1>9. \A j \in DOMAIN u : RowOK(u[j])
  BY <1>1, <1>7, <1>8 DEF SoundTable
<1>10. \A j \in DOMAIN u : u[j].about = t[j].about /\ u[j].by = t[j].by
  BY <1>5, <1>7
<1>11. OncePer(u)
  BY <1>1, <1>7, <1>10 DEF SoundTable, OncePer, Outbound
<1>12. Keeps(u)
  <2>1. \A j \in DOMAIN rows : j \in DOMAIN t
    BY <1>1 DEF Keeps
  <2> QED BY <1>1, <1>5, <1>7, <2>1 DEF Keeps
<1> QED BY <1>6, <1>7, <1>9, <1>11, <1>12 DEF Tables, SoundTable

LEMMA NewRowStays ==
    ASSUME post \in Seq(Messages), rows \in Seq(Row), NEW t \in Tables, NEW x \in Range(post),
           NEW force, force = NoCase \/ Exists(force), \A i \in DOMAIN t : t[i].msg # x
    PROVE  NewRow(t, x, force) \in Tables
<1> DEFINE to == Match(t, x, force)
           bounce == x \in System /\ to.by # "thread"
           r == [msg |-> x, about |-> x, thread |-> Thread(x), case |-> to.case,
                 by |-> to.by, bounce |-> bounce, dismissed |-> bounce]
           u == Append(t, r)
<1>0. x \in Messages
  BY DEF Range
<1>1. t \in Seq(Row) /\ SoundTable(t) /\ Keeps(t)
  BY DEF Tables
<1>2. Fits(to) \/ to = [case |-> NoCase, by |-> "none"]
  BY <1>0, MatchFits
<1>3. NewRow(t, x, force) = u
  BY DEF NewRow
<1>4. Thread(x) \in Messages
  BY <1>0, MailboxAssumption DEF Thread, Messages
<1> HIDE DEF to
<1>5. to.case \in Cases \cup {NoCase} /\ to.by \in Signals /\ to.by # "outbound_send"
      /\ (to.case = NoCase => to.by = "none") /\ (to.case # NoCase => Exists(to.case))
  BY <1>2 DEF Fits, Signals
<1>6. bounce \in BOOLEAN
  OBVIOUS
<1> HIDE DEF bounce
<1>7. r \in Row
  BY <1>0, <1>4, <1>5, <1>6 DEF Row
<1>8. RowOK(r) /\ ~Outbound(r)
  BY <1>5 DEF RowOK, Outbound
<1>9. r.about = x
  OBVIOUS
<1> HIDE DEF r
<1>10. /\ u \in Seq(Row) /\ Len(u) = Len(t) + 1 /\ DOMAIN u = DOMAIN t \cup {Len(t) + 1}
       /\ Len(t) + 1 \notin DOMAIN t /\ u[Len(t) + 1] = r
       /\ \A j \in DOMAIN t : u[j] = t[j]
  BY <1>1, <1>7
<1> HIDE DEF u
<1>11. \A j \in DOMAIN u : RowOK(u[j])
  BY <1>1, <1>8, <1>10 DEF SoundTable
<1>12. \A j \in DOMAIN t : t[j].about = x => Outbound(t[j])
  BY <1>1 DEF SoundTable, RowOK
<1>13. OncePer(u)
  BY <1>1, <1>8, <1>9, <1>10, <1>12 DEF SoundTable, OncePer
<1>14. Keeps(u)
  <2>1. \A j \in DOMAIN rows : j \in DOMAIN t
    BY <1>1 DEF Keeps
  <2>2. Len(rows) <= Len(t) + 1
    BY <1>1 DEF Keeps
  <2> QED BY <1>1, <1>10, <2>1, <2>2 DEF Keeps
<1> QED BY <1>3, <1>10, <1>11, <1>13, <1>14 DEF Tables, SoundTable

\* A message is a row's already, or gives a letter's row its identity, or is new.
LEMMA TakeCases ==
    ASSUME NEW t \in Seq(Row), NEW x, NEW force, NEW oldest \in BOOLEAN
    PROVE  \/ \E i \in DOMAIN t : t[i].msg = x /\ Take(t, x, force, oldest) = Again(t, i, x, force)
           \/ x \in Letters /\ \E i \in Waiting(t, x) : Take(t, x, force, oldest) = Merged(t, i, x)
           \/ /\ \A i \in DOMAIN t : t[i].msg # x
              /\ Take(t, x, force, oldest) = NewRow(t, x, force)
<1> DEFINE known == {i \in DOMAIN t : t[i].msg = x}
           waiting == IF x \in Letters THEN Waiting(t, x) ELSE {}
           k == CHOOSE i \in known : \A j \in known : i <= j
           w == CHOOSE i \in waiting : \A j \in waiting : IF oldest THEN i <= j ELSE j <= i
<1>1. Take(t, x, force, oldest) =
         CASE known # {} -> Again(t, k, x, force)
           [] known = {} /\ waiting # {} -> Merged(t, w, x)
           [] OTHER -> NewRow(t, x, force)
  BY DEF Take
<1>2. CASE known # {}
  <2>1. known \in SUBSET Nat
    OBVIOUS
  <2>2. \E i \in known : \A j \in known : i <= j
    <3> HIDE DEF known
    <3> QED BY <1>2, <2>1, LeastOf
  <2>3. k \in known
    BY <2>2
  <2>4. k \in DOMAIN t /\ t[k].msg = x
    BY <2>3
  <2> HIDE DEF k, known
  <2> QED BY <1>1, <1>2, <2>4
<1>3. CASE known = {} /\ waiting # {}
  <2>1. waiting \in SUBSET (0 .. Len(t)) /\ Len(t) \in Nat /\ waiting \in SUBSET Nat
    BY DEF Waiting
  <2>2. \E i \in waiting : \A j \in waiting : IF oldest THEN i <= j ELSE j <= i
    <3> HIDE DEF waiting
    <3>1. \E i \in waiting : \A j \in waiting : i <= j
      BY <1>3, <2>1, LeastOf
    <3>2. \E i \in waiting : \A j \in waiting : j <= i
      BY <1>3, <2>1, GreatestOf
    <3> QED BY <3>1, <3>2
  <2>3. w \in waiting
    BY <2>2
  <2>4. x \in Letters /\ w \in Waiting(t, x)
    BY <2>3
  <2> HIDE DEF w, known, waiting
  <2> QED BY <1>1, <1>3, <2>4
<1>4. CASE known = {} /\ waiting = {}
  <2>1. \A i \in DOMAIN t : t[i].msg # x
    BY <1>4
  <2> HIDE DEF known, waiting
  <2> QED BY <1>1, <1>4, <2>1
<1> QED BY <1>2, <1>3, <1>4

LEMMA TakeStays ==
    ASSUME post \in Seq(Messages), rows \in Seq(Row), NEW t \in Tables, NEW x \in Range(post),
           NEW force, force = NoCase \/ Exists(force), NEW oldest \in BOOLEAN
    PROVE  Take(t, x, force, oldest) \in Tables
<1>1. x \in Messages /\ t \in Seq(Row)
  BY DEF Range, Tables
<1>2. \A i \in DOMAIN t : Again(t, i, x, force) \in Tables
  BY <1>1, AgainStays
<1>3. x \in Letters => \A i \in Waiting(t, x) : Merged(t, i, x) \in Tables
  BY MergedStays
<1>4. (\A i \in DOMAIN t : t[i].msg # x) => NewRow(t, x, force) \in Tables
  BY NewRowStays
<1> QED BY <1>1, <1>2, <1>3, <1>4, TakeCases

\* The second pass leaves the rows where they are and stays where it is.
LEMMA PassStays ==
    ASSUME NEW T, NEW table \in T, NEW n \in Nat, DOMAIN table = 1 .. n,
           \A t \in T, k \in 1 .. n : Rematch(t, k) \in T
    PROVE  Passed(table) \in T
<1> DEFINE D == [i \in DOMAIN table |-> i]
           Eq(f) == f = [s \in SUBSET DOMAIN D |->
                           IF s = {} THEN table ELSE Rematch(f[s \ {Max(s)}], D[Max(s)])]
           F == CHOOSE f : Eq(f)
           step == [p \in T \X (1 .. n) |-> Rematch(p[1], p[2])]
<1>1. Passed(table) = F[DOMAIN D]
  BY DEF Passed, FoldLeft, MapThenFoldSet
<1>2. step \in [T \X (1 .. n) -> T]
  OBVIOUS
<1>3. DOMAIN D = 1 .. n /\ \A i \in 1 .. n : D[i] = i
  OBVIOUS
<1> HIDE DEF step, D
<1>4. PICK g : Computes(g, n, T, table, step)
  BY <1>2, FoldExists
<1>5. /\ g \in [SUBSET (1 .. n) -> T]
      /\ \A s \in SUBSET (1 .. n) :
            g[s] = IF s = {} THEN table ELSE step[<<g[s \ {Max(s)}], Max(s)>>]
  BY <1>4 DEF Computes
<1>6. ASSUME NEW s \in SUBSET (1 .. n), s # {}
      PROVE  /\ Max(s) \in 1 .. n /\ s \ {Max(s)} \in SUBSET (1 .. n)
             /\ step[<<g[s \ {Max(s)}], Max(s)>>] = Rematch(g[s \ {Max(s)}], D[Max(s)])
  <2>1. Max(s) \in s
    BY <1>6, MaxIsIn
  <2>2. Max(s) \in 1 .. n /\ s \ {Max(s)} \in SUBSET (1 .. n)
    BY <2>1
  <2>3. g[s \ {Max(s)}] \in T
    BY <2>2, <1>5
  <2> QED BY <2>2, <2>3, <1>3 DEF step
<1>7. Eq(g)
  <2>1. \A s \in SUBSET (1 .. n) :
           g[s] = IF s = {} THEN table ELSE Rematch(g[s \ {Max(s)}], D[Max(s)])
    BY <1>5, <1>6
  <2> QED BY <2>1, <1>3, <1>5
<1>8. Eq(F)
  <2> HIDE DEF Eq
  <2> QED BY <1>7
<1> HIDE DEF F
<1>9. F[{}] \in T
  BY <1>8, <1>3
<1>10. \A s \in SUBSET (1 .. n) : (s # {} /\ F[s \ {Max(s)}] \in T) => F[s] \in T
  <2> TAKE s \in SUBSET (1 .. n)
  <2> HAVE s # {} /\ F[s \ {Max(s)}] \in T
  <2>1. Max(s) \in 1 .. n
    BY <1>6
  <2>2. F[s] = Rematch(F[s \ {Max(s)}], D[Max(s)])
    BY <1>8, <1>3
  <2> QED BY <2>1, <2>2, <1>3
<1>11. F[1 .. n] \in T
  BY <1>9, <1>10, FoldStays
<1> QED BY <1>1, <1>3, <1>11

\* What a synchronisation works through are messages that were sent or came in.
LEMMA ReturnedType ==
    ASSUME post \in Seq(Messages), NEW force, NEW messages \in Returned(force)
    PROVE  /\ \E n \in Nat : DOMAIN messages = 1 .. n
           /\ \A k \in DOMAIN messages : messages[k] \in Range(post)
<1>1. CASE force # NoCase /\ Graph /\ Parties(force) # {}
  <2> DEFINE found == {x \in Range(post) : Participant(x) \in Parties(force)}
  <2>1. messages \in SetToAllKPermutations(found)
    BY <1>1 DEF Returned
  <2>2. PICK S \in SUBSET found : messages \in SetToSeqs(S)
    BY <2>1 DEF SetToAllKPermutations
  <2>3. messages \in [1 .. Cardinality(S) -> S]
    BY <2>2 DEF SetToSeqs
  <2>4. IsFiniteSet(Range(post))
    <3>1. IsFiniteSet(Mails \cup Letters)
      BY CasesAssumption, FS_Union
    <3>2. Range(post) \in SUBSET (Mails \cup Letters)
      BY DEF Range, Messages
    <3> QED BY <3>1, <3>2, FS_Subset
  <2>5. S \in SUBSET Range(post)
    OBVIOUS
  <2>6. Cardinality(S) \in Nat
    BY <2>4, <2>5, FS_Subset, FS_CardinalityType
  <2> QED BY <2>3, <2>5, <2>6
<1>2. CASE ~(force # NoCase /\ Graph /\ Parties(force) # {})
  <2> DEFINE first == Max({1, Len(post) - Window + 1})
             kept == SubSeq(post, first, Len(post))
  <2>1. messages = Reverse(kept)
    BY <1>2 DEF Returned
  <2>2. first \in Nat \ {0}
    <3>1. Len(post) - Window + 1 \in Int
      BY MailboxAssumption
    <3>2. \E x \in {1, Len(post) - Window + 1} : \A y \in {1, Len(post) - Window + 1} : x >= y
      BY <3>1
    <3>3. first \in {1, Len(post) - Window + 1} /\ first >= 1
      BY <3>2 DEF Max
    <3> QED BY <3>1, <3>3
  <2> HIDE DEF first
  <2>3. kept \in Seq(Range(post))
    <3>1. \A k \in first .. Len(post) : post[k] \in Range(post)
      BY <2>2 DEF Range
    <3>2. /\ DOMAIN kept = 1 .. Len(kept) /\ Len(kept) \in Nat
          /\ \A k \in 1 .. Len(kept) : kept[k] = post[first + k - 1]
                                        /\ first + k - 1 \in first .. Len(post)
      BY <2>2
    <3>3. \A k \in 1 .. Len(kept) : kept[k] \in Range(post)
      BY <3>1, <3>2
    <3>4. post \in Seq(Range(post))
      BY DEF Range
    <3> QED BY <2>2, <3>4
  <2> HIDE DEF kept
  <2>4. Len(kept) \in Nat /\ \A k \in 1 .. Len(kept) : kept[k] \in Range(post)
    BY <2>3
  <2>5. DOMAIN messages = 1 .. Len(kept)
    BY <2>1 DEF Reverse
  <2>6. \A k \in 1 .. Len(kept) : messages[k] = kept[(Len(kept) - k) + 1]
                                  /\ (Len(kept) - k) + 1 \in 1 .. Len(kept)
    BY <2>1, <2>4 DEF Reverse
  <2> QED BY <2>4, <2>5, <2>6
<1> QED BY <1>1, <1>2

LEMMA RowsAreATable ==
    ASSUME rows \in Seq(Row), SoundTable(rows)
    PROVE  rows \in Tables
BY DEF Tables, Keeps

LEMMA SyncedStays ==
    ASSUME post \in Seq(Messages), rows \in Seq(Row), SoundTable(rows),
           NEW force, force = NoCase \/ Exists(force),
           NEW messages \in Returned(force), NEW oldest \in BOOLEAN
    PROVE  Synced(rows, messages, force, oldest) \in Tables
<1> DEFINE taken == Taken(rows, messages, force, oldest)
<1>1. PICK n \in Nat : DOMAIN messages = 1 .. n
  BY ReturnedType
<1>2. \A t \in Tables, k \in 1 .. n : Take(t, messages[k], force, oldest) \in Tables
  <2> TAKE t \in Tables, k \in 1 .. n
  <2>1. messages[k] \in Range(post)
    BY <1>1, ReturnedType
  <2> QED BY <2>1, TakeStays
<1>3. taken \in Tables
  BY <1>1, <1>2, RowsAreATable, TakesStay
<1>4. Synced(rows, messages, force, oldest) = Passed(taken)
  BY DEF Synced, Taken, Passed
<1> HIDE DEF taken
<1> DEFINE Same == {t \in Tables : Len(t) = Len(taken)}
<1>5. taken \in Seq(Row) /\ taken \in Same
  BY <1>3 DEF Tables
<1>6. Len(taken) \in Nat /\ DOMAIN taken = 1 .. Len(taken)
  BY <1>5
<1>7. \A t \in Same, k \in 1 .. Len(taken) : Rematch(t, k) \in Same
  <2> TAKE t \in Same, k \in 1 .. Len(taken)
  <2>1. t \in Tables /\ t \in Seq(Row) /\ Len(t) = Len(taken) /\ k \in DOMAIN t
    BY DEF Tables
  <2>2. Rematch(t, k) \in Tables
    BY <2>1, RematchStays
  <2>3. Len(Rematch(t, k)) = Len(t)
    BY <2>1 DEF Rematch
  <2> QED BY <2>1, <2>2, <2>3
<1> HIDE DEF Same
<1>8. Passed(taken) \in Same
  BY <1>5, <1>6, <1>7, PassStays
<1> QED BY <1>4, <1>8 DEF Same

-----------------------------------------------------------------------------
(* What the steps do to the rows.                                          *)

\* A request that reads the rows as they are writes back what it computed.
LEMMA FlushSerial ==
    ASSUME rows \in Seq(Row), NEW t \in Seq(Row), Len(rows) <= Len(t)
    PROVE  FlushRows(rows, t) = t
<1> DEFINE both(i) == [f \in DOMAIN rows[i] |-> IF t[i][f] = rows[i][f] THEN rows[i][f] ELSE t[i][f]]
           old == [i \in DOMAIN rows |-> IF i \in DOMAIN rows THEN both(i) ELSE rows[i]]
           new == SubSeq(t, Len(rows) + 1, Len(t))
<1>1. ASSUME NEW i \in DOMAIN rows PROVE both(i) = t[i]
  <2>1. rows[i] \in Row /\ t[i] \in Row
    BY <1>1
  <2>2. DOMAIN rows[i] = DOMAIN t[i] /\ t[i] = [f \in DOMAIN t[i] |-> t[i][f]]
    BY <2>1 DEF Row
  <2>3. \A f \in DOMAIN rows[i] : both(i)[f] = t[i][f]
    OBVIOUS
  <2> QED BY <2>2, <2>3
<1>2. FlushRows(rows, t) = old \o new
  BY DEF FlushRows
<1> HIDE DEF both
<1>3. old \in Seq(Row) /\ Len(old) = Len(rows) /\ \A i \in 1 .. Len(rows) : old[i] = t[i]
  BY <1>1
<1>4. new \in Seq(Row) /\ Len(new) = Len(t) - Len(rows)
      /\ \A i \in 1 .. (Len(t) - Len(rows)) : new[i] = t[Len(rows) + i]
  OBVIOUS
<1> HIDE DEF old, new
<1>5. /\ old \o new \in Seq(Row) /\ Len(old \o new) = Len(old) + Len(new)
      /\ \A i \in 1 .. Len(old) + Len(new) :
            (old \o new)[i] = IF i <= Len(old) THEN old[i] ELSE new[i - Len(old)]
  <2>1. old \in Seq(Row) /\ new \in Seq(Row)
    BY <1>3, <1>4
  <2> QED BY <2>1, ConcatProperties, Zenon
<1>6. Len(rows) \in Nat /\ Len(t) \in Nat /\ Len(old) + Len(new) = Len(t)
  BY <1>3, <1>4
<1>7. ASSUME NEW i \in 1 .. Len(t) PROVE (old \o new)[i] = t[i]
  <2>1. CASE i <= Len(old)
    BY <1>3, <1>5, <1>6, <2>1
  <2>2. CASE ~(i <= Len(old))
    <3>1. i - Len(old) \in 1 .. (Len(t) - Len(rows)) /\ Len(rows) + (i - Len(old)) = i
      BY <1>3, <1>6, <2>2
    <3> QED BY <1>4, <1>5, <1>6, <2>2, <3>1
  <2> QED BY <2>1, <2>2
<1>8. old \o new = t
  <2>1. old \o new \in Seq(Row) /\ Len(old \o new) = Len(t)
    BY <1>5, <1>6
  <2> QED BY <1>7, <2>1, SeqEqual
<1> QED BY <1>2, <1>8

\* A row i is edited: it gets case c and is laid aside or not, d.
Edited(u, i, c, d) ==
    /\ u \in Seq(Row) /\ Len(u) = Len(rows) /\ DOMAIN u = DOMAIN rows
    /\ \A j \in DOMAIN rows : j # i => u[j] = rows[j]
    /\ u[i].case = c /\ u[i].dismissed = d
    /\ u[i].msg = rows[i].msg /\ u[i].about = rows[i].about /\ u[i].thread = rows[i].thread
    /\ u[i].by = rows[i].by /\ u[i].bounce = rows[i].bounce

LEMMA EditedRow ==
    ASSUME rows \in Seq(Row), NEW i \in DOMAIN rows, NEW c \in Cases \cup {NoCase},
           NEW d \in BOOLEAN, NEW u, u = [rows EXCEPT ![i] = [@ EXCEPT !.case = c, !.dismissed = d]]
    PROVE  Edited(u, i, c, d)
<1> DEFINE r == [rows[i] EXCEPT !.case = c, !.dismissed = d]
<1>1. rows[i] \in Row
  OBVIOUS
<1>2. /\ r \in Row /\ r.case = c /\ r.dismissed = d /\ r.msg = rows[i].msg
      /\ r.about = rows[i].about /\ r.thread = rows[i].thread /\ r.by = rows[i].by
      /\ r.bounce = rows[i].bounce
  BY <1>1 DEF Row
<1>3. u = [rows EXCEPT ![i] = r]
  OBVIOUS
<1> HIDE DEF r
<1>4. u \in Seq(Row) /\ Len(u) = Len(rows) /\ DOMAIN u = DOMAIN rows
      /\ u[i] = r /\ \A j \in DOMAIN rows : j # i => u[j] = rows[j]
  BY <1>2, <1>3
<1> QED BY <1>2, <1>4 DEF Edited

\* Linking by hand, one mail or several, and the approval's link.
LEMMA LinksAreEdits ==
    ASSUME rows \in Seq(Row), NEW i \in DOMAIN rows, NEW c \in Cases
    PROVE  /\ Edited([rows EXCEPT ![i].case = c], i, c, rows[i].dismissed)
           /\ Edited([rows EXCEPT ![i].case = c, ![i].dismissed = FALSE], i, c, FALSE)
<1>1. rows[i] \in Row
  OBVIOUS
<1>2. rows[i].case \in Cases \cup {NoCase} /\ rows[i].dismissed \in BOOLEAN
  BY <1>1 DEF Row
<1>3. [rows EXCEPT ![i].case = c]
         = [rows EXCEPT ![i] = [@ EXCEPT !.case = c, !.dismissed = rows[i].dismissed]]
  BY <1>1 DEF Row
<1>4. [rows EXCEPT ![i].case = c, ![i].dismissed = FALSE]
         = [rows EXCEPT ![i] = [@ EXCEPT !.case = c, !.dismissed = FALSE]]
  BY <1>1 DEF Row
<1>6. Edited([rows EXCEPT ![i].case = c], i, c, rows[i].dismissed)
  BY <1>2, <1>3, EditedRow
<1>7. Edited([rows EXCEPT ![i].case = c, ![i].dismissed = FALSE], i, c, FALSE)
  BY <1>4, EditedRow
<1> QED BY <1>6, <1>7

\* Laying aside.
LEMMA DismissalIsEdit ==
    ASSUME rows \in Seq(Row), NEW i \in DOMAIN rows
    PROVE  Edited([rows EXCEPT ![i].dismissed = TRUE], i, rows[i].case, TRUE)
<1>1. rows[i] \in Row
  OBVIOUS
<1>2. rows[i].case \in Cases \cup {NoCase}
  BY <1>1 DEF Row
<1>3. [rows EXCEPT ![i].dismissed = TRUE]
         = [rows EXCEPT ![i] = [@ EXCEPT !.case = rows[i].case, !.dismissed = TRUE]]
  BY <1>1 DEF Row
<1> QED BY <1>2, <1>3, EditedRow

RowSound(i) == RowOK(rows[i])

ExistsNext(c) == c \in Cases /\ cases'[c].state # "none"

\* Rows come, and none goes or changes its message.
Grows ==
    /\ Len(rows) <= Len(rows')
    /\ \A i \in DOMAIN rows : i \in DOMAIN rows' /\ rows'[i].about = rows[i].about

\* No case that exists ceases to.
CasesStay == \A c \in Cases : Exists(c) => ExistsNext(c)

LEMMA EditedMail ==
    ASSUME SoundMail, NEW i \in DOMAIN rows, NEW c, NEW d, Edited(rows', i, c, d),
           post' = post, CasesStay, c = rows[i].case \/ (c # NoCase /\ ExistsNext(c))
    PROVE  SoundMail' /\ Grows
<1>1. post \in Seq(Messages) /\ rows \in Seq(Row) /\ SoundTable(rows)
  BY DEF SoundMail
<1>2. /\ rows' \in Seq(Row) /\ Len(rows') = Len(rows) /\ DOMAIN rows' = DOMAIN rows
      /\ \A j \in DOMAIN rows : j # i => rows'[j] = rows[j]
      /\ rows'[i].case = c /\ rows'[i].msg = rows[i].msg
      /\ rows'[i].about = rows[i].about /\ rows'[i].thread = rows[i].thread
      /\ rows'[i].by = rows[i].by
  BY DEF Edited
<1>3. \A j \in DOMAIN rows : rows[j].case # NoCase => ExistsNext(rows[j].case)
  BY <1>1 DEF CasesStay, SoundTable, RowOK, Exists
<1>4. ASSUME NEW j \in DOMAIN rows PROVE RowSound(j)'
  <2>1. RowOK(rows[j])
    BY <1>1 DEF SoundTable
  <2>2. CASE j # i
    <3>1. rows'[j] = rows[j] /\ (rows[j].case # NoCase => ExistsNext(rows[j].case))
      BY <1>2, <1>3, <2>2
    <3> QED BY <2>1, <3>1 DEF RowSound, RowOK, Outbound, Exists, ExistsNext
  <2>3. CASE j = i
    <3>1. rows'[i].case = NoCase => rows'[i].by = "none"
      BY <1>2, <2>1, <2>3 DEF RowOK, Exists
    <3>2. rows'[i].case # NoCase => ExistsNext(rows'[i].case)
      BY <1>2, <1>3
    <3>3. /\ rows'[i].msg = rows[i].msg /\ rows'[i].about = rows[i].about
          /\ rows'[i].thread = rows[i].thread /\ rows'[i].by = rows[i].by
      BY <1>2
    <3> QED BY <2>1, <2>3, <3>1, <3>2, <3>3 DEF RowSound, RowOK, Outbound, Exists, ExistsNext
  <2> QED BY <2>2, <2>3
<1>5. \A j \in DOMAIN rows : rows'[j].about = rows[j].about /\ rows'[j].by = rows[j].by
  BY <1>2
<1>6. OncePer(rows)'
  BY <1>1, <1>2, <1>5 DEF SoundTable, OncePer, Outbound
<1>7. SoundTable(rows)'
  BY <1>2, <1>4, <1>6 DEF SoundTable, RowSound
<1> QED BY <1>1, <1>2, <1>5, <1>7 DEF SoundMail, Grows

LEMMA SyncMail ==
    ASSUME SoundMail, NEW c \in Cases \cup {NoCase}, sync(InboxNow, c)
    PROVE  /\ SoundMail' /\ Grows /\ rows' \in Tables
           /\ UNCHANGED <<post, cases, decided>>
<1>1. post \in Seq(Messages) /\ rows \in Seq(Row) /\ SoundTable(rows)
  BY DEF SoundMail
<1>2. InboxNow.rows = rows
  BY DEF InboxNow
<1>3. PICK messages \in Returned(c), oldest \in FirstOrLast(rows) :
         rows' = FlushRows(rows, Synced(rows, messages, c, oldest))
  BY <1>2 DEF sync
<1>4. oldest \in BOOLEAN
  BY DEF FirstOrLast
<1>5. c = NoCase \/ Exists(c)
  BY DEF sync, Exists
<1>6. Synced(rows, messages, c, oldest) \in Tables
  BY <1>1, <1>4, <1>5, SyncedStays
<1>7. rows' = Synced(rows, messages, c, oldest)
  <2> DEFINE t == Synced(rows, messages, c, oldest)
  <2>1. t \in Seq(Row) /\ Len(rows) <= Len(t)
    BY <1>6 DEF Tables, Keeps
  <2> HIDE DEF t
  <2>2. FlushRows(rows, t) = t
    BY <1>1, <2>1, FlushSerial
  <2> QED BY <1>3, <2>2 DEF t
<1>8. rows' \in Tables
  BY <1>6, <1>7
<1>9. UNCHANGED <<post, cases, decided>>
  BY DEF sync
<1>10. rows' \in Seq(Row) /\ (\A i \in DOMAIN rows' : RowOK(rows'[i])) /\ OncePer(rows')
       /\ Keeps(rows')
  BY <1>8 DEF Tables, SoundTable
<1>11. \A i \in DOMAIN rows' : RowSound(i)'
  BY <1>9, <1>10 DEF RowSound, RowOK, Exists, Outbound
<1>12. OncePer(rows)'
  BY <1>10 DEF OncePer, Outbound
<1>13. SoundMail'
  BY <1>1, <1>9, <1>10, <1>11, <1>12 DEF SoundMail, SoundTable, RowSound
<1>14. Grows
  BY <1>1, <1>10 DEF Grows, Keeps
<1> QED BY <1>8, <1>9, <1>13, <1>14

LEMMA SendMail ==
    ASSUME SoundMail, SoundCases, NEW l \in Letters, NEW logged \in BOOLEAN, send_letter(l, logged)
    PROVE  SoundMail' /\ Grows /\ \A i \in DOMAIN rows : rows'[i] = rows[i]
<1> DEFINE mark == IF Graph THEN Synthetic ELSE l
           r == [msg |-> mark, about |-> l, thread |-> mark, case |-> About[l],
                 by |-> "outbound_send", bounce |-> FALSE, dismissed |-> FALSE]
<1>1. post \in Seq(Messages) /\ rows \in Seq(Row) /\ SoundTable(rows)
  BY DEF SoundMail
<1>2. /\ l \notin Range(post) /\ Live(About[l]) /\ post' = Append(post, l)
      /\ rows' = IF logged THEN Append(rows, r) ELSE rows
      /\ UNCHANGED <<cases, decided>>
  BY DEF send_letter
<1>3. About[l] \in Cases /\ About[l] # NoCase /\ Exists(About[l])
  BY <1>2, CasesAssumption, MailboxAssumption DEF Live, Exists
<1>4. mark \in Letters \cup {Synthetic}
  OBVIOUS
<1>5. mark # Synthetic => mark = l
  OBVIOUS
<1> HIDE DEF mark
<1>6. r \in Row /\ r.about = l /\ r.by = "outbound_send"
  BY <1>3, <1>4 DEF Row, Messages, Signals
<1>7. post' \in Seq(Messages) /\ Range(post') = Range(post) \cup {l}
  <2>1. l \in Messages
    BY DEF Messages
  <2>2. post' \in Seq(Messages) /\ Len(post') = Len(post) + 1
        /\ \A k \in 1 .. Len(post) : post'[k] = post[k]
        /\ post'[Len(post) + 1] = l
    BY <1>1, <1>2, <2>1, AppendProperties
  <2>3. DOMAIN post' = DOMAIN post \cup {Len(post) + 1}
    BY <1>1, <2>2
  <2>4. Range(post') = Range(post) \cup {l}
    BY <1>1, <1>2, <2>1, AppendRange
  <2> QED BY <2>2, <2>4
<1>8. \A i : rows'[i] = r => RowSound(i)'
  <2>1. r.case = About[l] /\ r.msg = mark /\ r.thread = mark
    BY <1>6
  <2>2. l \in Range(post')
    BY <1>7
  <2>3. ExistsNext(About[l])
    BY <1>2, <1>3 DEF Exists, ExistsNext
  <2> HIDE DEF r
  <2>4. TAKE i
  <2>5. HAVE rows'[i] = r
  <2> QED BY <1>3, <1>4, <1>5, <1>6, <2>1, <2>2, <2>3, <2>5
      DEF RowSound, RowOK, Outbound, Exists, ExistsNext
<1>9. \A i \in DOMAIN rows : rows'[i] = rows[i] => RowSound(i)'
  BY <1>1, <1>2, <1>7 DEF SoundTable, RowSound, RowOK, Exists, Outbound
<1>10. \A i \in DOMAIN rows : rows[i].about # l
  BY <1>1, <1>2 DEF SoundTable, RowOK
<1> HIDE DEF r
<1>11. CASE logged
  <2>1. /\ rows' \in Seq(Row) /\ Len(rows') = Len(rows) + 1
        /\ DOMAIN rows' = DOMAIN rows \cup {Len(rows) + 1}
        /\ rows'[Len(rows) + 1] = r /\ \A i \in DOMAIN rows : rows'[i] = rows[i]
    BY <1>1, <1>2, <1>6, <1>11
  <2>2. \A i \in DOMAIN rows' : RowSound(i)'
    BY <1>8, <1>9, <2>1
  <2>3. OncePer(rows)'
    BY <1>1, <1>6, <1>10, <2>1 DEF OncePer, SoundTable, Outbound
  <2>4. SoundMail'
    BY <1>7, <2>1, <2>2, <2>3 DEF SoundMail, SoundTable, RowSound
  <2> QED BY <1>1, <2>1, <2>4 DEF Grows
<1>12. CASE ~logged
  <2>1. rows' = rows
    BY <1>2, <1>12
  <2>2. SoundMail'
    BY <1>1, <1>7, <1>9, <2>1 DEF SoundMail, SoundTable, OncePer, Outbound, RowSound
  <2> QED BY <1>1, <2>1, <2>2 DEF Grows
<1> QED BY <1>11, <1>12

\* The rows stay while a message comes in or cases change.
LEMMA SameMail ==
    ASSUME SoundMail, rows' = rows, CasesStay,
           post' = post \/ \E x \in Messages : post' = Append(post, x)
    PROVE  SoundMail' /\ Grows
<1>1. post \in Seq(Messages) /\ rows \in Seq(Row) /\ SoundTable(rows)
  BY DEF SoundMail
<1>2. post' \in Seq(Messages) /\ Range(post) \subseteq Range(post')
  <2>1. CASE post' = post
    BY <1>1, <2>1 DEF Range
  <2>2. ASSUME NEW x \in Messages, post' = Append(post, x)
        PROVE  post' \in Seq(Messages) /\ Range(post) \subseteq Range(post')
    <3>1. post' \in Seq(Messages) /\ DOMAIN post \subseteq DOMAIN post'
          /\ \A k \in DOMAIN post : post'[k] = post[k]
      BY <1>1, <2>2
    <3> QED BY <3>1 DEF Range
  <2> QED BY <2>1, <2>2
<1>3. \A j \in DOMAIN rows : rows[j].case # NoCase => ExistsNext(rows[j].case)
  BY <1>1 DEF CasesStay, SoundTable, RowOK, Exists
<1>4. \A i \in DOMAIN rows : RowSound(i)'
  BY <1>1, <1>2, <1>3 DEF SoundTable, RowSound, RowOK, Outbound, Exists, ExistsNext
<1>5. SoundTable(rows)'
  BY <1>1, <1>4 DEF SoundTable, OncePer, Outbound, RowSound
<1> QED BY <1>1, <1>2, <1>5 DEF SoundMail, Grows

LEMMA MaxRowsType == MaxRows \in Nat
<1>1. IsFiniteSet(Messages)
  BY CasesAssumption, FS_Union DEF Messages
<1> QED BY <1>1, FS_CardinalityType DEF MaxRows

LEMMA CardinalityUpTo ==
    ASSUME NEW n \in Nat
    PROVE  IsFiniteSet(1 .. n) /\ Cardinality(1 .. n) = n
BY FS_Interval

\* The table never outgrows its bound: a letter leaves two rows at most, a
\* mail one.
LEMMA RowsBounded ==
    ASSUME SoundMail
    PROVE  Len(rows) <= MaxRows
<1> DEFINE key == [i \in 1 .. Len(rows) |->
                     <<rows[i].about, IF Outbound(rows[i]) THEN 1 ELSE 2>>]
           Keys == Messages \X (1 .. 2)
<1>1. rows \in Seq(Row) /\ OncePer(rows)
  BY DEF SoundMail, SoundTable
<1>2. \A i \in 1 .. Len(rows) : rows[i].about \in Messages
  <2>1. \A i \in 1 .. Len(rows) : rows[i] \in Row
    BY <1>1
  <2> QED BY <2>1 DEF Row
<1>3. key \in [1 .. Len(rows) -> Keys]
  BY <1>2
<1>4. \A i, j \in 1 .. Len(rows) : key[i] = key[j] => i = j
  <2> TAKE i, j \in 1 .. Len(rows)
  <2> HAVE key[i] = key[j]
  <2>1. rows[i].about = rows[j].about /\ (Outbound(rows[i]) <=> Outbound(rows[j]))
    OBVIOUS
  <2>2. i \in DOMAIN rows /\ j \in DOMAIN rows
    BY <1>1
  <2> QED BY <1>1, <2>1, <2>2 DEF OncePer
<1>5. key \in Injection(1 .. Len(rows), Keys)
  BY <1>3, <1>4 DEF Injection, IsInjective
<1>6. IsFiniteSet(Messages)
  BY CasesAssumption, FS_Union DEF Messages
<1>7. IsFiniteSet(1 .. 2) /\ Cardinality(1 .. 2) = 2
  <2>1. 2 \in Nat
    OBVIOUS
  <2> QED BY <2>1, CardinalityUpTo, Zenon
<1>8. IsFiniteSet(Keys) /\ Cardinality(Keys) = Cardinality(Messages) * 2
  BY <1>6, <1>7, FS_Product
<1>9. Cardinality(1 .. Len(rows)) = Len(rows)
  <2>1. Len(rows) \in Nat
    BY <1>1
  <2> QED BY <2>1, CardinalityUpTo
<1>10. Cardinality(1 .. Len(rows)) <= Cardinality(Keys)
  BY <1>5, <1>8, FS_Injection
<1>11. Cardinality(Messages) \in Nat
  BY <1>6, FS_CardinalityType
<1> QED BY <1>8, <1>9, <1>10, <1>11 DEF MaxRows

-----------------------------------------------------------------------------
(* What the steps do to decisions, requests and sources.                   *)

LEMMA DecisionRecorded ==
    ASSUME SoundMail, SoundDecisions, Len(rows) <= MaxRows, NEW i \in DOMAIN rows,
           NEW c \in Cases \cup {NoCase}, NEW d \in BOOLEAN, NEW b \in {"person", "intake"},
           Edited(rows', i, c, d), c # NoCase \/ (d /\ ~rows[i].bounce),
           decided' = [decided EXCEPT ![i] = [case |-> c, by |-> b, dismissed |-> d]]
    PROVE  SoundDecisions'
<1> DEFINE new == [case |-> c, by |-> b, dismissed |-> d]
<1>1. rows \in Seq(Row) /\ decided \in [1 .. MaxRows -> Decisions]
  BY DEF SoundMail, SoundDecisions
<1>2. MaxRows \in Nat
  BY MaxRowsType
<1>3. i \in 1 .. MaxRows /\ DOMAIN rows' = DOMAIN rows
  BY <1>1, <1>2 DEF Edited
<1>4. new \in Decisions
  BY DEF Decisions
<1>5. decided' \in [1 .. MaxRows -> Decisions]
  BY <1>1, <1>3, <1>4
<1>6. ASSUME NEW j \in 1 .. MaxRows PROVE Standing(j)'
  <2>1. CASE j = i
    <3>1. decided'[i] = new
      BY <1>1, <1>3
    <3> QED BY <1>3, <2>1, <3>1 DEF Standing, Edited
  <2>2. CASE j # i
    <3>1. decided'[j] = decided[j] /\ Standing(j)
      BY <1>1, <2>2 DEF SoundDecisions
    <3> QED BY <1>3, <2>2, <3>1 DEF Standing, Edited
  <2> QED BY <2>1, <2>2
<1> QED BY <1>5, <1>6 DEF SoundDecisions, MaxRows

\* A synchronisation may not touch a row that was decided on.
LEMMA DecisionsKept ==
    ASSUME SoundDecisions, Grows, decided' = decided,
           \A i \in DOMAIN rows :
              /\ rows'[i].dismissed = rows[i].dismissed /\ rows'[i].bounce = rows[i].bounce
              /\ (rows[i].case # NoCase \/ (rows[i].dismissed /\ ~rows[i].bounce))
                    => rows'[i].case = rows[i].case
    PROVE  SoundDecisions'
<1>1. ASSUME NEW i \in 1 .. MaxRows PROVE Standing(i)'
  <2>1. Standing(i)
    BY DEF SoundDecisions
  <2>2. i \in DOMAIN rows => i \in DOMAIN rows'
    BY DEF Grows
  <2> QED BY <2>1, <2>2 DEF Standing
<1> QED BY <1>1 DEF SoundDecisions, MaxRows

LEMMA RequestsKept ==
    ASSUME SoundIntakes, Grows, DOMAIN intakes' = DOMAIN intakes,
           \A i \in 1 .. MaxRows :
              \/ intakes'[i] = intakes[i]
              \/ /\ DOMAIN intakes'[i] = {"status", "client", "case"}
                 /\ intakes'[i].status \in Statuses /\ i \in DOMAIN rows
    PROVE  SoundIntakes'
BY DEF SoundIntakes, Grows, MaxRows

LEMMA SourcesKept ==
    ASSUME SoundSources, Grows, \A c \in Cases : cases'[c].source = cases[c].source,
           \A i \in DOMAIN rows : intakes[i].status = "approved" => intakes'[i].status = "approved"
    PROVE  SoundSources'
<1>1. ASSUME NEW c \in Cases, cases'[c].source \in Mails
      PROVE  \E i \in DOMAIN rows' :
                rows'[i].about = cases'[c].source /\ intakes'[i].status = "approved"
  <2>1. PICK i \in DOMAIN rows :
           rows[i].about = cases[c].source /\ intakes[i].status = "approved"
    BY <1>1 DEF SoundSources
  <2>2. i \in DOMAIN rows' /\ rows'[i].about = rows[i].about
    BY DEF Grows
  <2> QED BY <2>1, <2>2
<1>2. OneCasePerMail'
  BY DEF SoundSources, OneCasePerMail
<1> QED BY <1>1, <1>2 DEF SoundSources

\* Two rows of one mail are one row.
LEMMA OneRowOfAMail ==
    ASSUME SoundMail, NEW i \in DOMAIN rows, NEW j \in DOMAIN rows,
           rows[i].about = rows[j].about, rows[i].about \in Mails
    PROVE  i = j
<1>1. ~Outbound(rows[i]) /\ ~Outbound(rows[j])
  BY MailboxAssumption DEF SoundMail, SoundTable, RowOK
<1> QED BY <1>1 DEF SoundMail, SoundTable, OncePer

LEMMA SyncStep ==
    ASSUME IInv, NEW c \in Cases \cup {NoCase}, sync(InboxNow, c), intakes' = intakes
    PROVE  IInv'
<1>1. SoundMail' /\ Grows /\ rows' \in Tables /\ UNCHANGED <<post, cases, decided>>
  BY SyncMail DEF IInv
<1>2. Keeps(rows')
  BY <1>1 DEF Tables
<1>3. (Len(rows) <= MaxRows)'
  BY <1>1, RowsBounded, PTL
<1>4. SoundCases'
  BY <1>1 DEF IInv, SoundCases
<1>5. SoundDecisions'
  BY <1>1, <1>2, DecisionsKept DEF IInv, Keeps
<1>6. SoundIntakes'
  BY <1>1, RequestsKept DEF IInv
<1>7. SoundSources'
  BY <1>1, SourcesKept DEF IInv
<1> QED BY <1>1, <1>3, <1>4, <1>5, <1>6, <1>7 DEF IInv

\* One step of a person on row i: where it hangs, and whether it counts.
ByPerson(i, c, d, b) ==
    /\ Edited(rows', i, c, d)
    /\ c # NoCase \/ (d /\ ~rows[i].bounce)
    /\ decided' = [decided EXCEPT ![i] = [case |-> c, by |-> b, dismissed |-> d]]

LEMMA DecideEdits ==
    ASSUME rows \in Seq(Row), NEW i \in DOMAIN rows, NEW c, NEW d, NEW u,
           Edited(u, i, c, d), Decide(InboxNow, i, u), c # NoCase \/ (d /\ ~rows[i].bounce)
    PROVE  ByPerson(i, c, d, "person") /\ UNCHANGED <<post, cases>>
<1>1. /\ rows' = FlushRows(rows, u) /\ UNCHANGED <<post, cases>>
      /\ decided' = [decided EXCEPT ![i] = [case |-> u[i].case, by |-> "person",
                                            dismissed |-> u[i].dismissed]]
  BY DEF Decide, InboxNow
<1>2. u \in Seq(Row) /\ Len(rows) <= Len(u) /\ u[i].case = c /\ u[i].dismissed = d
  BY DEF Edited
<1>3. rows' = u
  BY <1>1, <1>2, FlushSerial
<1> QED BY <1>1, <1>2, <1>3 DEF ByPerson

LEMMA HandEdits ==
    ASSUME SoundMail, NEW i \in DOMAIN rows,
           \/ dismiss_emails(InboxNow, i)
           \/ \E c \in Cases : link_email_to_case(InboxNow, i, c) \/ bulk_link_emails(InboxNow, i, c)
    PROVE  \E c \in Cases \cup {NoCase}, d \in BOOLEAN :
              /\ c = rows[i].case \/ Exists(c)
              /\ ByPerson(i, c, d, "person") /\ UNCHANGED <<post, cases>>
<1>1. rows \in Seq(Row) /\ InboxNow.rows = rows
  BY DEF SoundMail, InboxNow
<1>2. rows[i] \in Row
  BY <1>1
<1>3. rows[i].case \in Cases \cup {NoCase} /\ rows[i].dismissed \in BOOLEAN
  BY <1>2 DEF Row
<1>4. CASE dismiss_emails(InboxNow, i)
  <2> DEFINE u == [rows EXCEPT ![i].dismissed = TRUE]
  <2>1. Decide(InboxNow, i, u) /\ ~rows[i].bounce
    BY <1>1, <1>4 DEF dismiss_emails
  <2>2. Edited(u, i, rows[i].case, TRUE)
    BY <1>1, DismissalIsEdit
  <2> HIDE DEF u
  <2>3. ByPerson(i, rows[i].case, TRUE, "person") /\ UNCHANGED <<post, cases>>
    BY <1>1, <2>1, <2>2, DecideEdits
  <2> QED BY <1>3, <2>3
<1>5. ASSUME NEW c \in Cases, link_email_to_case(InboxNow, i, c)
      PROVE  ByPerson(i, c, rows[i].dismissed, "person") /\ UNCHANGED <<post, cases>> /\ Exists(c)
  <2> DEFINE u == [rows EXCEPT ![i].case = c]
  <2>1. Decide(InboxNow, i, u) /\ Exists(c) /\ c # NoCase
    BY <1>1, <1>5, MailboxAssumption DEF link_email_to_case, Exists
  <2>2. Edited(u, i, c, rows[i].dismissed)
    BY <1>1, LinksAreEdits
  <2> HIDE DEF u
  <2> QED BY <1>1, <2>1, <2>2, DecideEdits
<1>6. ASSUME NEW c \in Cases, bulk_link_emails(InboxNow, i, c)
      PROVE  ByPerson(i, c, FALSE, "person") /\ UNCHANGED <<post, cases>> /\ Exists(c)
  <2> DEFINE u == [rows EXCEPT ![i].case = c, ![i].dismissed = FALSE]
  <2>1. Decide(InboxNow, i, u) /\ Exists(c) /\ c # NoCase
    BY <1>1, <1>6, MailboxAssumption DEF bulk_link_emails, Exists
  <2>2. Edited(u, i, c, FALSE)
    BY <1>1, LinksAreEdits
  <2> HIDE DEF u
  <2> QED BY <1>1, <2>1, <2>2, DecideEdits
<1> QED BY <1>3, <1>4, <1>5, <1>6

LEMMA HandStep ==
    ASSUME IInv, NEW i \in DOMAIN rows, intakes' = intakes,
           \/ dismiss_emails(InboxNow, i)
           \/ \E c \in Cases : link_email_to_case(InboxNow, i, c) \/ bulk_link_emails(InboxNow, i, c)
    PROVE  IInv'
<1>1. SoundMail /\ SoundDecisions /\ Len(rows) <= MaxRows
  BY DEF IInv
<1>2. PICK c \in Cases \cup {NoCase}, d \in BOOLEAN :
              /\ c = rows[i].case \/ Exists(c)
              /\ ByPerson(i, c, d, "person") /\ UNCHANGED <<post, cases>>
  BY <1>1, HandEdits
<1>3. CasesStay
  BY <1>2 DEF CasesStay, Exists, ExistsNext
<1>4. c = rows[i].case \/ (c # NoCase /\ ExistsNext(c))
  BY <1>2, MailboxAssumption DEF Exists, ExistsNext
<1>5. SoundMail' /\ Grows
  BY <1>1, <1>2, <1>3, <1>4, EditedMail DEF ByPerson
<1>6. (Len(rows) <= MaxRows)'
  BY <1>5, RowsBounded, PTL
<1>7. SoundCases'
  BY <1>2 DEF IInv, SoundCases
<1>8. SoundDecisions'
  BY <1>1, <1>2, DecisionRecorded DEF ByPerson
<1>9. SoundIntakes'
  BY <1>5, RequestsKept DEF IInv
<1>10. SoundSources'
  BY <1>2, <1>5, SourcesKept DEF IInv
<1> QED BY <1>5, <1>6, <1>7, <1>8, <1>9, <1>10 DEF IInv

LEMMA ApprovalEdits ==
    ASSUME SoundMail, NEW i \in DOMAIN rows, NEW c \in Cases, approve_intake(InboxNow, i, c)
    PROVE  rows[i].dismissed \in BOOLEAN /\ ByPerson(i, c, rows[i].dismissed, "intake")
<1> DEFINE d == rows[i].dismissed
           u == [rows EXCEPT ![i].case = c]
<1>1. /\ rows \in Seq(Row) /\ rows' = FlushRows(rows, u)
      /\ decided' = [decided EXCEPT ![i] = [case |-> c, by |-> "intake", dismissed |-> d]]
  BY DEF SoundMail, approve_intake, InboxNow
<1>2. d \in BOOLEAN /\ c # NoCase
  <2>1. rows[i] \in Row
    BY <1>1
  <2> QED BY <2>1, MailboxAssumption DEF Row
<1>3. Edited(u, i, c, d)
  BY <1>1, LinksAreEdits
<1> HIDE DEF u, d
<1>4. rows' = u
  <2>1. u \in Seq(Row) /\ Len(rows) <= Len(u)
    BY <1>1, <1>3 DEF Edited
  <2> QED BY <1>1, <2>1, FlushSerial
<1>5. d \in BOOLEAN /\ ByPerson(i, c, d, "intake")
  BY <1>1, <1>2, <1>3, <1>4 DEF ByPerson
<1> QED BY <1>5 DEF d

\* The approval of request i makes case c, the only one of its mail.
LEMMA ApprovalStep ==
    ASSUME IInv, NEW i \in DOMAIN rows, NEW c \in Cases, approve_intake(InboxNow, i, c)
    PROVE  IInv'
<1> DEFINE d == rows[i].dismissed
           file == [state |-> "open", client |-> intakes[i].client, debtor |-> DebtorIn[rows[i].about],
                    party |-> NoContact, source |-> rows[i].about]
<1>1. SoundMail /\ SoundDecisions /\ Len(rows) <= MaxRows /\ rows \in Seq(Row)
      /\ SoundCases /\ SoundIntakes /\ SoundSources
  BY DEF IInv, SoundMail
<1>2. /\ intakes[i].status = "pending_review" /\ cases[c].state = "none"
      /\ cases' = [cases EXCEPT ![c] = file]
      /\ intakes' = [intakes EXCEPT ![i].status = "approved", ![i].case = c]
      /\ post' = post
  BY DEF approve_intake, Pending, InboxNow
<1>3. d \in BOOLEAN /\ ByPerson(i, c, d, "intake")
  BY <1>1, ApprovalEdits
<1> HIDE DEF d
<1>4. c # NoCase
  BY MailboxAssumption
<1>6. /\ DOMAIN file = {"state", "client", "debtor", "party", "source"}
      /\ file.state = "open" /\ file.source = rows[i].about
  OBVIOUS
<1> HIDE DEF file
<1>7. /\ DOMAIN cases' = Cases /\ cases'[c] = file
      /\ \A e \in Cases : e # c => cases'[e] = cases[e]
  BY <1>1, <1>2 DEF SoundCases
<1>8. CasesStay /\ ExistsNext(c)
  BY <1>6, <1>7 DEF CasesStay, Exists, ExistsNext
<1>9. SoundMail' /\ Grows
  <2>1. Edited(rows', i, c, d)
    BY <1>3 DEF ByPerson
  <2> QED BY <1>1, <1>2, <1>4, <1>8, <2>1, EditedMail
<1>10. (Len(rows) <= MaxRows)'
  BY <1>9, RowsBounded, PTL
<1>11. SoundCases'
  BY <1>1, <1>6, <1>7 DEF SoundCases
<1>12. SoundDecisions'
  BY <1>1, <1>3, DecisionRecorded DEF ByPerson
<1>13. i \in 1 .. MaxRows
  BY <1>1, MaxRowsType
<1>14. /\ DOMAIN intakes' = DOMAIN intakes
       /\ \A j \in 1 .. MaxRows : j # i => intakes'[j] = intakes[j]
       /\ DOMAIN intakes'[i] = {"status", "client", "case"} /\ intakes'[i].status = "approved"
  BY <1>1, <1>2, <1>13 DEF SoundIntakes
<1>15. SoundIntakes'
  BY <1>1, <1>9, <1>14, RequestsKept DEF Statuses
<1>16. ASSUME NEW e \in Cases, cases'[e].source \in Mails
       PROVE  \E j \in DOMAIN rows' :
                 rows'[j].about = cases'[e].source /\ intakes'[j].status = "approved"
  <2>1. CASE e = c
    BY <1>6, <1>7, <1>9, <1>14, <2>1 DEF Grows
  <2>2. CASE e # c
    <3>1. cases'[e] = cases[e]
      BY <1>7, <2>2
    <3>2. PICK j \in DOMAIN rows :
             rows[j].about = cases[e].source /\ intakes[j].status = "approved"
      BY <1>1, <1>16, <3>1 DEF SoundSources
    <3>3. j \in 1 .. MaxRows
      BY <1>1, MaxRowsType
    <3>4. intakes'[j].status = "approved"
      BY <1>14, <3>2, <3>3
    <3> QED BY <1>9, <3>1, <3>2, <3>4 DEF Grows
  <2> QED BY <2>1, <2>2
<1>17. ASSUME NEW e \in Cases, e # c, rows[i].about \in Mails
       PROVE  cases[e].source # rows[i].about
  <2>1. SUFFICES ASSUME cases[e].source = rows[i].about PROVE FALSE
    OBVIOUS
  <2>2. PICK j \in DOMAIN rows :
           rows[j].about = cases[e].source /\ intakes[j].status = "approved"
    BY <1>1, <1>17, <2>1 DEF SoundSources
  <2>3. i = j
    BY <1>1, <1>17, <2>1, <2>2, OneRowOfAMail
  <2> QED BY <1>2, <2>2, <2>3
<1>18. OneCasePerMail'
  <2> SUFFICES ASSUME NEW e \in Cases, NEW f \in Cases,
                      cases'[e].source \in Mails, cases'[e].source = cases'[f].source
               PROVE  e = f
    BY DEF OneCasePerMail
  <2>1. CASE e = c /\ f # c
    BY <1>6, <1>7, <1>17, <2>1
  <2>2. CASE f = c /\ e # c
    BY <1>6, <1>7, <1>17, <2>2
  <2>3. CASE e # c /\ f # c
    BY <1>1, <1>7, <2>3 DEF SoundSources, OneCasePerMail
  <2> QED BY <2>1, <2>2, <2>3
<1>19. SoundSources'
  BY <1>16, <1>18 DEF SoundSources
<1> QED BY <1>9, <1>10, <1>11, <1>12, <1>15, <1>19 DEF IInv

LEMMA RejectionStep ==
    ASSUME IInv, NEW i \in DOMAIN rows, reject_intake(InboxNow, i), UNCHANGED mailVars
    PROVE  IInv'
<1>1. SoundMail' /\ Grows /\ UNCHANGED <<post, rows, cases, decided>>
  BY SameMail DEF IInv, mailVars, CasesStay, Exists, ExistsNext
<1>2. intakes[i].status = "pending_review" /\ intakes' = [intakes EXCEPT ![i].status = "rejected"]
  BY DEF reject_intake, Pending, InboxNow
<1>3. SoundIntakes' /\ SoundSources'
  <2>1. i \in 1 .. MaxRows
    BY MaxRowsType DEF IInv, SoundMail
  <2>2. /\ DOMAIN intakes' = DOMAIN intakes
        /\ \A j \in 1 .. MaxRows : j # i => intakes'[j] = intakes[j]
        /\ DOMAIN intakes'[i] = {"status", "client", "case"} /\ intakes'[i].status = "rejected"
    BY <1>2, <2>1 DEF IInv, SoundIntakes
  <2>3. SoundIntakes'
    BY <1>1, <2>2, RequestsKept DEF IInv, Statuses
  <2>4. \A j \in DOMAIN rows : intakes[j].status = "approved" => intakes'[j].status = "approved"
    BY <1>2, <2>2, MaxRowsType DEF IInv, SoundMail
  <2>5. SoundSources'
    BY <1>1, <2>4, SourcesKept DEF IInv
  <2> QED BY <2>3, <2>5
<1> QED BY <1>1, <1>3 DEF IInv, SoundCases, SoundDecisions, Standing, MaxRows

\* The requests that one reading leaves: none that was reviewed is touched.
LEMMA ReadingStep ==
    ASSUME IInv, Reading
    PROVE  IInv'
<1>1. SoundMail' /\ Grows /\ UNCHANGED <<post, rows, cases, decided>>
  BY SameMail DEF IInv, Reading, mailVars, CasesStay, Exists, ExistsNext
<1>2. /\ SoundIntakes /\ DOMAIN intakes = 1 .. MaxRows
      /\ \A i \in 1 .. MaxRows : /\ DOMAIN intakes[i] = {"status", "client", "case"}
                                 /\ intakes[i].status \in Statuses
                                 /\ intakes[i].status # "none" => i \in DOMAIN rows
  BY DEF IInv, SoundIntakes
<1> DEFINE Touched(t, i) ==
       \/ t[i] = intakes[i]
       \/ /\ DOMAIN t[i] = {"status", "client", "case"} /\ i \in DOMAIN rows
          /\ t[i].status \in Statuses /\ t[i].status # "approved"
          /\ intakes[i].status # "approved"
           Fine(t) == DOMAIN t = 1 .. MaxRows /\ \A i \in 1 .. MaxRows : Touched(t, i)
<1>3. ASSUME NEW t, Fine(t), NEW S, NEW read
      PROVE  Fine(Processed(t, S, read))
  <2> DEFINE u == Processed(t, S, read)
  <2>1. DOMAIN u = 1 .. MaxRows
    BY <1>3 DEF Processed
  <2>2. ASSUME NEW i \in 1 .. MaxRows PROVE Touched(u, i)
    <3>1. CASE i \in S /\ t[i].status = "detected"
      <4>1. \E s \in {"pending_review", "failed", "processing"} : u[i] = [t[i] EXCEPT !.status = s]
        BY <1>3, <2>2, <3>1 DEF Processed
      <4>2. Touched(t, i) /\ DOMAIN t[i] = {"status", "client", "case"}
            /\ i \in DOMAIN rows /\ intakes[i].status # "approved"
        BY <1>2, <1>3, <2>2, <3>1
      <4> QED BY <4>1, <4>2 DEF Statuses
    <3>2. CASE ~(i \in S /\ t[i].status = "detected")
      <4>1. u[i] = t[i]
        BY <1>3, <2>2, <3>2 DEF Processed
      <4> QED BY <1>3, <4>1
    <3> QED BY <3>1, <3>2
  <2> QED BY <2>1, <2>2
<1>4. ASSUME NEW i \in DOMAIN rows, intakes[i].status = "none", NEW c
      PROVE  /\ DOMAIN [NoIntake EXCEPT !.status = "detected", !.client = c]
                   = {"status", "client", "case"}
             /\ [NoIntake EXCEPT !.status = "detected", !.client = c].status = "detected"
  BY DEF NoIntake
<1>5. Fine(intakes')
  <2>1. CASE ai_intake_detection
    <3>1. PICK S, read : intakes' = Processed(Detected, S, read)
      BY <2>1 DEF ai_intake_detection
    <3>2. Fine(Detected)
      <4> DEFINE picked == Oldest(Candidates, Batch)
      <4>1. \A i \in picked : i \in DOMAIN rows /\ intakes[i].status = "none"
        BY DEF Oldest, Candidates
      <4>2. Detected = Requested(picked)
        BY DEF Detected
      <4> HIDE DEF picked
      <4>3. DOMAIN Detected = 1 .. MaxRows
        BY <1>2, <4>2 DEF Requested
      <4>4. ASSUME NEW i \in 1 .. MaxRows PROVE Touched(Detected, i)
        <5>1. CASE i \in picked
          <6>1. Detected[i] = [NoIntake EXCEPT !.status = "detected", !.client = From[rows[i].about]]
            BY <1>2, <4>2, <5>1 DEF Requested
          <6>2. i \in DOMAIN rows /\ intakes[i].status = "none"
            BY <4>1, <5>1
          <6> QED BY <1>4, <6>1, <6>2 DEF Statuses
        <5>2. CASE i \notin picked
          BY <1>2, <4>2, <5>2 DEF Requested
        <5> QED BY <5>1, <5>2
      <4> QED BY <4>3, <4>4
    <3> HIDE DEF Fine
    <3> QED BY <1>3, <3>1, <3>2
  <2>2. ASSUME NEW i \in DOMAIN rows, create_intake_from_email(i) PROVE Fine(intakes')
    <3> DEFINE writer == From[rows[i].about]
               c == IF writer \in Clients THEN writer ELSE NoContact
               t == [intakes EXCEPT ![i] = [NoIntake EXCEPT !.status = "detected", !.client = c]]
    <3>1. \E table, read : /\ intakes' = Processed(table, {i}, read)
                           /\ \/ intakes[i].status = "none" /\ table = t
                              \/ table = intakes
      BY <2>2 DEF create_intake_from_email, ReadNow
    <3> HIDE DEF c
    <3>2. ASSUME intakes[i].status = "none" PROVE Fine(t)
      <4>1. i \in 1 .. MaxRows
        BY MaxRowsType DEF IInv, SoundMail
      <4>2. DOMAIN t = 1 .. MaxRows /\ (\A j \in 1 .. MaxRows : j # i => t[j] = intakes[j])
            /\ t[i] = [NoIntake EXCEPT !.status = "detected", !.client = c]
        BY <1>2, <4>1
      <4> HIDE DEF t
      <4>3. Touched(t, i)
        BY <1>4, <3>2, <4>2 DEF Statuses
      <4> QED BY <4>2, <4>3
    <3>3. Fine(intakes)
      BY <1>2
    <3> HIDE DEF Fine, t
    <3> QED BY <1>3, <3>1, <3>2, <3>3
  <2>3. CASE ai_intake_lost
    BY <1>2, <2>3 DEF ai_intake_lost
  <2> HIDE DEF Fine
  <2> QED BY <2>1, <2>2, <2>3 DEF Reading
<1>6. SoundIntakes'
  BY <1>1, <1>2, <1>5, RequestsKept
<1>7. SoundSources'
  <2>1. \A i \in DOMAIN rows : intakes[i].status = "approved" => intakes'[i].status = "approved"
    BY <1>5, MaxRowsType DEF IInv, SoundMail
  <2> QED BY <1>1, <2>1, SourcesKept DEF IInv
<1> QED BY <1>1, <1>6, <1>7 DEF IInv, SoundCases, SoundDecisions, Standing, MaxRows

LEMMA WorldStep ==
    ASSUME IInv, World, intakes' = intakes
    PROVE  IInv'
<1>1. CASE \E l \in Letters, logged \in BOOLEAN : send_letter(l, logged)
  <2>1. SoundMail' /\ Grows /\ (\A i \in DOMAIN rows : rows'[i] = rows[i])
        /\ UNCHANGED <<cases, decided>>
    BY <1>1, SendMail DEF IInv, send_letter
  <2>2. (Len(rows) <= MaxRows)'
    BY <2>1, RowsBounded, PTL
  <2>3. SoundDecisions'
    BY <2>1, DecisionsKept DEF IInv
  <2>4. SoundIntakes' /\ SoundSources'
    BY <2>1, RequestsKept, SourcesKept DEF IInv
  <2> QED BY <2>1, <2>2, <2>3, <2>4 DEF IInv, SoundCases
<1>2. CASE \E m \in Mails : receive(m)
  <2>1. /\ UNCHANGED <<rows, cases, decided>>
        /\ \E x \in Messages : post' = Append(post, x)
    BY <1>2 DEF receive, Messages
  <2>2. SoundMail' /\ Grows
    BY <2>1, SameMail DEF IInv, CasesStay, Exists, ExistsNext
  <2>3. SoundIntakes' /\ SoundSources'
    BY <2>1, <2>2, RequestsKept, SourcesKept DEF IInv
  <2> QED BY <2>1, <2>2, <2>3 DEF IInv, SoundCases, SoundDecisions, Standing, MaxRows
<1>3. ASSUME NEW c \in MayDelete, delete_case(c) PROVE IInv'
  <2>1. c \in Cases /\ cases' = [cases EXCEPT ![c].state = "deleted"]
        /\ UNCHANGED <<post, rows, decided>>
    BY <1>3, CasesAssumption DEF delete_case
  <2>2. SoundCases
    BY DEF IInv
  <2>3. /\ DOMAIN cases' = Cases /\ \A e \in Cases : e # c => cases'[e] = cases[e]
        /\ DOMAIN cases'[c] = {"state", "client", "debtor", "party", "source"}
        /\ cases'[c].state = "deleted" /\ cases'[c].source = cases[c].source
    BY <2>1, <2>2 DEF SoundCases
  <2>4. SoundCases' /\ CasesStay /\ \A e \in Cases : cases'[e].source = cases[e].source
    BY <2>2, <2>3 DEF SoundCases, CasesStay, Exists, ExistsNext
  <2>5. SoundMail' /\ Grows
    BY <2>1, <2>4, SameMail DEF IInv
  <2>6. SoundIntakes' /\ SoundSources'
    BY <2>1, <2>4, <2>5, RequestsKept, SourcesKept DEF IInv
  <2> QED BY <2>1, <2>4, <2>5, <2>6 DEF IInv, SoundDecisions, Standing, MaxRows
<1> QED BY <1>1, <1>2, <1>3 DEF World

LEMMA InitIInv == Init => IInv
<1> SUFFICES ASSUME Init PROVE IInv
  OBVIOUS
<1>1. /\ post = <<>> /\ rows = <<>> /\ cases = FirstCases
      /\ decided = [i \in 1 .. MaxRows |-> Undecided]
      /\ intakes = [i \in 1 .. MaxRows |-> NoIntake]
  BY DEF Init, MailInit
<1>2. SoundMail /\ Len(rows) <= MaxRows
  BY <1>1, MaxRowsType DEF SoundMail, SoundTable, OncePer
<1>3. SoundCases /\ \A c \in Cases : cases[c].source \notin Mails
  BY <1>1, CasesAssumption DEF SoundCases
<1>4. SoundDecisions
  BY <1>1 DEF SoundDecisions, Standing, Decisions, Undecided
<1>5. SoundIntakes
  BY <1>1 DEF SoundIntakes, Statuses, NoIntake
<1>6. SoundSources
  BY <1>3 DEF SoundSources, OneCasePerMail
<1> QED BY <1>2, <1>3, <1>4, <1>5, <1>6 DEF IInv

LEMMA NextIInv ==
    ASSUME IInv, [Next]_vars
    PROVE  IInv'
<1>1. CASE UNCHANGED vars
  BY <1>1 DEF vars, mailVars, IInv, SoundMail, SoundTable, RowOK, Exists, OncePer, Outbound,
              SoundCases, SoundDecisions, Standing, SoundIntakes, SoundSources, OneCasePerMail,
              MaxRows
<1>2. CASE Handler(InboxNow) /\ UNCHANGED req
  <2>1. CASE MailHandler(InboxNow) /\ UNCHANGED intakes
    <3>1. ASSUME NEW c \in Cases \cup {NoCase}, sync(InboxNow, c) PROVE IInv'
      BY <2>1, <3>1, SyncStep
    <3>2. ASSUME NEW i \in DOMAIN InboxNow.rows,
                 \/ dismiss_emails(InboxNow, i)
                 \/ \E c \in Cases : \/ link_email_to_case(InboxNow, i, c)
                                     \/ bulk_link_emails(InboxNow, i, c)
          PROVE  IInv'
      <4>1. i \in DOMAIN rows
        BY DEF InboxNow
      <4> QED BY <2>1, <3>2, <4>1, HandStep
    <3> QED BY <2>1, <3>1, <3>2 DEF MailHandler
  <2>2. ASSUME NEW i \in DOMAIN rows, NEW c \in Cases, approve_intake(InboxNow, i, c) PROVE IInv'
    BY <2>2, ApprovalStep
  <2>3. ASSUME NEW i \in DOMAIN rows, reject_intake(InboxNow, i), UNCHANGED mailVars PROVE IInv'
    BY <2>3, RejectionStep
  <2> QED BY <1>2, <2>1, <2>2, <2>3 DEF Handler
<1>3. CASE Reading /\ UNCHANGED req
  BY <1>3, ReadingStep
<1>4. CASE World /\ UNCHANGED <<intakes, req>>
  BY <1>4, WorldStep
<1> QED BY <1>1, <1>2, <1>3, <1>4 DEF Next

\* Every reachable state has the invariant: the rows, the decisions, the requests
\* and the cases agree (sync_emails_for_account, approve_intake, process_intake).
THEOREM InboxInvariant == Spec => []IInv
<1>1. IInv /\ [Next]_vars => IInv'
  BY NextIInv
<1> QED BY <1>1, InitIInv, PTL DEF Spec

\* A row is of a message that was sent or came in and hangs on a case that exists;
\* a request has a mail and one of its states (SyncedEmail, IntakeRequest).
THEOREM InboxTypeCorrect == Spec => []InboxTypeOK
<1>1. ASSUME IInv PROVE InboxTypeOK
  <2>1. ASSUME NEW i \in DOMAIN rows
        PROVE  /\ rows[i].about \in Range(post) /\ rows[i].msg \in Messages \cup {Synthetic}
               /\ rows[i].case = NoCase \/ cases[rows[i].case].state # "none"
    <3>1. RowOK(rows[i]) /\ rows[i] \in Row
      BY <1>1 DEF IInv, SoundMail, SoundTable
    <3> QED BY <3>1 DEF RowOK, Row, Exists
  <2> QED BY <1>1, <2>1 DEF InboxTypeOK, IInv, SoundIntakes, Statuses
<1> QED BY <1>1, InboxInvariant, PTL

\* Where a person or an approval put a mail, and that it was laid aside, no
\* synchronisation and no job undoes (sync_emails_for_account).
THEOREM DecisionsStand == Spec => []DecisionStands
<1>1. IInv => DecisionStands
  <2> SUFFICES ASSUME IInv, NEW i \in DOMAIN rows, decided[i].by # "nobody"
               PROVE  rows[i].case = decided[i].case /\ rows[i].dismissed = decided[i].dismissed
    BY DEF DecisionStands
  <2>1. i \in 1 .. MaxRows
    BY MaxRowsType DEF IInv, SoundMail
  <2> QED BY <2>1 DEF IInv, SoundDecisions, Standing
<1> QED BY <1>1, InboxInvariant, PTL

\* One mail becomes the source of one case at most, however often it is read,
\* approved and rejected (approve_intake).
THEOREM CasesOfMailsDiffer == Spec => []OneCasePerMail
<1>1. IInv => OneCasePerMail
  BY DEF IInv, SoundSources
<1> QED BY <1>1, InboxInvariant, PTL
-----------------------------------------------------------------------------
(* Mail of a thread stays with its letter.                                 *)

\* The letters have subjects that differ where the merging looks at them, and
\* who answers a letter quotes the number of its case or none.
OwnThreads ==
    /\ \A l, k \in Letters : Prefix[l] = Prefix[k] => l = k
    /\ \A m \in Mails : Answers[m] \in Letters => Quotes[m] \in {NoCase, About[Answers[m]]}

Guesses == {"force_case_id", "contact_email"}

\* Mail of the letter's thread was linked by a guess or placed by a person.
Loose(t, l) ==
    \E j \in DOMAIN t : /\ Thread(t[j].about) = l
                        /\ t[j].by \in Guesses \/ decided[j].by # "nobody"

\* Unless it was, what hangs somewhere hangs on the case of the letter.
ThreadsHold(t) ==
    \A l \in Letters :
        Loose(t, l) \/ \A j \in DOMAIN t : Thread(t[j].about) = l => t[j].case \in {NoCase, About[l]}

\* The tables in which they do.
Threaded == {t \in Tables : ThreadsHold(t)}

\* A signal for message x that keeps the threads as they should be.
Tells(t, x, to) ==
    \A l \in Letters :
        Thread(x) = l => \/ to.case \in {NoCase, About[l]}
                         \/ to.by \in Guesses
                         \/ Loose(t, l)

\* A row whose thread is that of a letter is about mail of that thread.
LEMMA ThreadOfRow ==
    ASSUME OwnThreads, NEW t \in Tables, NEW i \in DOMAIN t, t[i].thread \in Letters
    PROVE  Thread(t[i].about) = t[i].thread
<1>1. RowOK(t[i])
  BY DEF Tables, SoundTable
<1>2. CASE Outbound(t[i])
  <2>1. t[i].about \in Letters /\ t[i].thread = t[i].msg /\ t[i].msg # Synthetic
    BY <1>1, <1>2, CasesAssumption DEF RowOK, Synthetic
  <2>2. t[i].msg = t[i].about
    BY <1>1, <1>2, <2>1 DEF RowOK, OwnThreads
  <2> QED BY <2>1, <2>2 DEF Thread
<1>3. CASE ~Outbound(t[i])
  BY <1>1, <1>3 DEF RowOK
<1> QED BY <1>2, <1>3

\* The number that mail of a letter's thread carries.
LEMMA NumberTells ==
    ASSUME OwnThreads, NEW x \in Messages, Thread(x) \in Letters
    PROVE  NamedCase(x) \in {NoCase, About[Thread(x)]}
BY DEF OwnThreads, Messages, Thread, NamedCase, Number

\* Whatever signal matches a message keeps the threads as they should be.
LEMMA MatchTells ==
    ASSUME OwnThreads, post \in Seq(Messages), NEW t \in Threaded, NEW x \in Messages, NEW force
    PROVE  Tells(t, x, Match(t, x, force))
<1> DEFINE byThread == ThreadCase(t, x)
           rest == IF force # NoCase THEN force ELSE ContactCase(x)
           restBy == IF force # NoCase THEN "force_case_id" ELSE "contact_email"
           to == Match(t, x, force)
<1> SUFFICES ASSUME NEW l \in Letters, Thread(x) = l
             PROVE  to.case \in {NoCase, About[l]} \/ to.by \in Guesses \/ Loose(t, l)
  BY DEF Tells
<1>0. t \in Tables /\ ThreadsHold(t)
  BY DEF Threaded
<1>1. byThread \in {NoCase, About[l]} \/ Loose(t, l)
  <2>1. SUFFICES ASSUME NEW i \in DOMAIN t, t[i].thread = l, t[i].case # NoCase,
                        byThread = t[i].case
                 PROVE  t[i].case \in {NoCase, About[l]} \/ Loose(t, l)
    BY <1>0, ThreadCaseFrom
  <2>2. Thread(t[i].about) = l
    BY <1>0, <2>1, ThreadOfRow
  <2> QED BY <1>0, <2>2 DEF ThreadsHold
<1>2. NamedCase(x) \in {NoCase, About[l]}
  BY NumberTells
<1>3. restBy \in Guesses
  BY DEF Guesses
<1>4. to = CASE byThread # NoCase -> [case |-> byThread, by |-> "thread"]
             [] byThread = NoCase /\ NamedCase(x) # NoCase ->
                   [case |-> NamedCase(x), by |-> "case_number"]
             [] byThread = NoCase /\ NamedCase(x) = NoCase /\ ~Named(x) /\ x \notin System
                    /\ rest # NoCase ->
                   [case |-> rest, by |-> restBy]
             [] OTHER -> [case |-> NoCase, by |-> "none"]
  BY DEF Match
<1> HIDE DEF byThread, rest, restBy, to
<1> QED BY <1>1, <1>2, <1>3, <1>4

\* A table that only adds to another keeps what was loose.
LEMMA LooseStays ==
    ASSUME NEW t, NEW u, NEW l, Loose(t, l),
           \A j \in DOMAIN t : /\ j \in DOMAIN u /\ u[j].about = t[j].about
                               /\ t[j].by \in Guesses => u[j].by = t[j].by
    PROVE  Loose(u, l)
BY DEF Loose

LEMMA PutThreads ==
    ASSUME NEW t \in Threaded, NEW i \in DOMAIN t, t[i].case = NoCase,
           ~(t[i].dismissed /\ ~t[i].bounce), NEW to, Fits(to), Tells(t, t[i].about, to)
    PROVE  Put(t, i, to) \in Threaded
<1> DEFINE u == Put(t, i, to)
<1> HIDE DEF u
<1>1. t \in Tables /\ ThreadsHold(t) /\ t \in Seq(Row) /\ SoundTable(t)
  BY DEF Threaded, Tables
<1>2. u \in Tables
  BY <1>1, PutStays DEF u
<1>3. /\ DOMAIN u = DOMAIN t /\ \A j \in DOMAIN t : j # i => u[j] = t[j]
      /\ u[i].case = to.case /\ u[i].by = to.by /\ u[i].about = t[i].about
  <2>1. to.case \in Cases \cup {NoCase} /\ to.by \in Signals /\ u = Put(t, i, to)
    BY DEF Fits, u
  <2> QED BY <1>1, <2>1, PutRows
<1>4. t[i].by = "none"
  BY <1>1 DEF SoundTable, RowOK
<1>5. \A j \in DOMAIN t : t[j].by \in Guesses => u[j].by = t[j].by
  BY <1>3, <1>4 DEF Guesses
<1>6. ASSUME NEW l \in Letters, ~Loose(u, l), NEW j \in DOMAIN u, Thread(u[j].about) = l
      PROVE  u[j].case \in {NoCase, About[l]}
  <2>1. ~Loose(t, l)
    BY <1>3, <1>5, <1>6, LooseStays
  <2>2. CASE j # i
    BY <1>1, <1>3, <1>6, <2>1, <2>2 DEF ThreadsHold
  <2>3. CASE j = i
    <3>1. u[i].by \notin Guesses
      BY <1>6, <2>3 DEF Loose
    <3> QED BY <1>3, <1>6, <2>1, <2>3, <3>1 DEF Tells
  <2> QED BY <2>2, <2>3
<1>7. ThreadsHold(u)
  BY <1>6 DEF ThreadsHold
<1> QED BY <1>2, <1>7 DEF Threaded, u

LEMMA RematchThreads ==
    ASSUME OwnThreads, post \in Seq(Messages), NEW t \in Threaded, NEW i \in DOMAIN t
    PROVE  Rematch(t, i) \in Threaded
<1> DEFINE to == Match(t, t[i].about, NoCase)
<1>1. t \in Tables /\ t[i].about \in Messages
  <2>1. t \in Tables /\ t[i] \in Row
    BY DEF Threaded, Tables
  <2> QED BY <2>1 DEF Row
<1>2. Fits(to) \/ to = [case |-> NoCase, by |-> "none"]
  BY <1>1, MatchFits
<1>3. Tells(t, t[i].about, to)
  BY <1>1, MatchTells
<1>4. Rematch(t, i) =
         IF t[i].case = NoCase /\ ~t[i].bounce /\ ~t[i].dismissed /\ to.case # NoCase
         THEN Put(t, i, to) ELSE t
  BY DEF Rematch, Put
<1> HIDE DEF to
<1>5. CASE t[i].case = NoCase /\ ~t[i].bounce /\ ~t[i].dismissed /\ to.case # NoCase
  <2>1. Fits(to)
    BY <1>2, <1>5
  <2>2. Put(t, i, to) \in Threaded
    BY <1>3, <1>5, <2>1, PutThreads
  <2> QED BY <1>4, <1>5, <2>2
<1>6. CASE ~(t[i].case = NoCase /\ ~t[i].bounce /\ ~t[i].dismissed /\ to.case # NoCase)
  BY <1>4, <1>6
<1> QED BY <1>5, <1>6

LEMMA AgainThreads ==
    ASSUME OwnThreads, NEW t \in Threaded, NEW i \in DOMAIN t, NEW x \in Messages,
           t[i].about = x, NEW force, force = NoCase \/ Exists(force)
    PROVE  Again(t, i, x, force) \in Threaded
<1> DEFINE to == CASE NamedCase(x) # NoCase -> [case |-> NamedCase(x), by |-> "case_number"]
                   [] ~Named(x) /\ x \notin System /\ force # NoCase ->
                         [case |-> force, by |-> "force_case_id"]
                   [] OTHER -> [case |-> NoCase, by |-> "none"]
<1>1. NamedCase(x) = NoCase \/ Exists(NamedCase(x))
  BY NamedCaseFrom
<1>2. Fits(to) \/ to = [case |-> NoCase, by |-> "none"]
  <2>1. NamedCase(x) # NoCase => Named(x)
    BY DEF NamedCase, Named
  <2> QED BY <1>1, <2>1 DEF Fits, Exists, Signals
<1>3. Tells(t, x, to)
  <2>1. Thread(x) \in Letters => NamedCase(x) \in {NoCase, About[Thread(x)]}
    BY NumberTells
  <2> QED BY <2>1 DEF Tells, Guesses
<1>4. Again(t, i, x, force) =
         IF t[i].case = NoCase /\ ~(t[i].dismissed /\ ~t[i].bounce) /\ to.case # NoCase
         THEN Put(t, i, to) ELSE t
  BY DEF Again, Put
<1> HIDE DEF to
<1>6. CASE t[i].case = NoCase /\ ~(t[i].dismissed /\ ~t[i].bounce) /\ to.case # NoCase
  <2>1. Fits(to)
    BY <1>2, <1>6
  <2>2. Put(t, i, to) \in Threaded
    BY <1>3, <1>6, <2>1, PutThreads
  <2> QED BY <1>4, <1>6, <2>2
<1>7. CASE ~(t[i].case = NoCase /\ ~(t[i].dismissed /\ ~t[i].bounce) /\ to.case # NoCase)
  BY <1>4, <1>7
<1> QED BY <1>6, <1>7

LEMMA MergedThreads ==
    ASSUME NEW t \in Threaded, NEW l \in Letters, NEW i \in Waiting(t, l)
    PROVE  Merged(t, i, l) \in Threaded
<1> DEFINE r == [t[i] EXCEPT !.msg = l, !.thread = l]
           u == [t EXCEPT ![i] = r]
<1>1. t \in Tables /\ ThreadsHold(t) /\ t \in Seq(Row) /\ i \in DOMAIN t
  BY DEF Threaded, Tables, Waiting
<1>2. t[i] \in Row
  BY <1>1
<1>3. Merged(t, i, l) = u
  BY <1>2 DEF Merged, Row
<1>4. r.about = t[i].about /\ r.case = t[i].case /\ r.by = t[i].by
  BY <1>2 DEF Row
<1> HIDE DEF r
<1>5. DOMAIN u = DOMAIN t /\ u[i] = r /\ \A j \in DOMAIN t : j # i => u[j] = t[j]
  BY <1>1
<1> HIDE DEF u
<1>6. \A j \in DOMAIN t : u[j].about = t[j].about /\ u[j].case = t[j].case /\ u[j].by = t[j].by
  BY <1>4, <1>5
<1>7. ThreadsHold(u)
  BY <1>1, <1>5, <1>6 DEF ThreadsHold, Loose
<1>8. u \in Tables
  BY <1>1, <1>3, MergedStays
<1> QED BY <1>3, <1>7, <1>8 DEF Threaded

LEMMA NewRowThreads ==
    ASSUME OwnThreads, post \in Seq(Messages), rows \in Seq(Row), NEW t \in Threaded,
           NEW x \in Range(post), NEW force, force = NoCase \/ Exists(force),
           \A i \in DOMAIN t : t[i].msg # x
    PROVE  NewRow(t, x, force) \in Threaded
<1> DEFINE to == Match(t, x, force)
           bounce == x \in System /\ to.by # "thread"
           r == [msg |-> x, about |-> x, thread |-> Thread(x), case |-> to.case,
                 by |-> to.by, bounce |-> bounce, dismissed |-> bounce]
           u == Append(t, r)
<1>1. t \in Tables /\ ThreadsHold(t) /\ t \in Seq(Row) /\ x \in Messages
  BY DEF Threaded, Tables, Range
<1>2. u \in Tables
  <2>1. NewRow(t, x, force) = u
    BY DEF NewRow
  <2>2. NewRow(t, x, force) \in Tables
    BY <1>1, NewRowStays
  <2> QED BY <2>1, <2>2
<1>3. NewRow(t, x, force) = u
  BY DEF NewRow
<1>4. Tells(t, x, to)
  BY <1>1, MatchTells
<1> HIDE DEF to, bounce
<1>5. r.about = x /\ r.case = to.case /\ r.by = to.by
  OBVIOUS
<1> HIDE DEF r
<1>6. DOMAIN u = DOMAIN t \cup {Len(t) + 1} /\ u[Len(t) + 1] = r
      /\ \A j \in DOMAIN t : u[j] = t[j]
  BY <1>1
<1> HIDE DEF u
<1>7. ASSUME NEW l \in Letters, ~Loose(u, l), NEW j \in DOMAIN u, Thread(u[j].about) = l
      PROVE  u[j].case \in {NoCase, About[l]}
  <2>1. ~Loose(t, l)
    BY <1>6, <1>7, LooseStays
  <2>2. CASE j \in DOMAIN t
    BY <1>1, <1>6, <1>7, <2>1, <2>2 DEF ThreadsHold
  <2>3. CASE j = Len(t) + 1
    <3>1. u[j] = r
      BY <1>6, <2>3
    <3>2. to.by \notin Guesses
      BY <1>5, <1>7, <3>1 DEF Loose
    <3> QED BY <1>4, <1>5, <1>7, <2>1, <3>1, <3>2 DEF Tells
  <2> QED BY <1>6, <2>2, <2>3
<1>8. ThreadsHold(u)
  BY <1>7 DEF ThreadsHold
<1> QED BY <1>2, <1>3, <1>8 DEF Threaded

LEMMA TakeThreads ==
    ASSUME OwnThreads, post \in Seq(Messages), rows \in Seq(Row), NEW t \in Threaded,
           NEW x \in Range(post), NEW force, force = NoCase \/ Exists(force), NEW oldest \in BOOLEAN
    PROVE  Take(t, x, force, oldest) \in Threaded
<1>1. x \in Messages /\ t \in Seq(Row) /\ t \in Tables
  BY DEF Range, Tables, Threaded
<1>2. ASSUME NEW i \in DOMAIN t, t[i].msg = x
      PROVE  Again(t, i, x, force) \in Threaded
  <2>1. RowOK(t[i]) /\ x # Synthetic
    BY <1>1, CasesAssumption DEF Tables, SoundTable, Messages, Synthetic
  <2>2. t[i].about = x
    BY <1>2, <2>1 DEF RowOK, OwnThreads
  <2> QED BY <1>1, <2>2, AgainThreads
<1>3. x \in Letters => \A i \in Waiting(t, x) : Merged(t, i, x) \in Threaded
  BY MergedThreads
<1>4. (\A i \in DOMAIN t : t[i].msg # x) => NewRow(t, x, force) \in Threaded
  BY NewRowThreads
<1> QED BY <1>1, <1>2, <1>3, <1>4, TakeCases

LEMMA SyncedThreads ==
    ASSUME OwnThreads, SoundMail, ThreadsHold(rows), NEW force, force = NoCase \/ Exists(force),
           NEW messages \in Returned(force), NEW oldest \in BOOLEAN
    PROVE  ThreadsHold(Synced(rows, messages, force, oldest))
<1> DEFINE taken == Taken(rows, messages, force, oldest)
<1>1. post \in Seq(Messages) /\ rows \in Seq(Row) /\ SoundTable(rows)
  BY DEF SoundMail
<1>2. PICK n \in Nat : DOMAIN messages = 1 .. n
  BY <1>1, ReturnedType
<1>3. \A t \in Threaded, k \in 1 .. n : Take(t, messages[k], force, oldest) \in Threaded
  <2> TAKE t \in Threaded, k \in 1 .. n
  <2>1. messages[k] \in Range(post)
    BY <1>1, <1>2, ReturnedType
  <2> QED BY <1>1, <2>1, TakeThreads
<1>4. rows \in Threaded
  BY <1>1, RowsAreATable DEF Threaded
<1>5. taken \in Threaded
  BY <1>2, <1>3, <1>4, TakesStay
<1>6. Synced(rows, messages, force, oldest) = Passed(taken)
  BY DEF Synced, Taken, Passed
<1> HIDE DEF taken
<1> DEFINE Same == {t \in Threaded : Len(t) = Len(taken)}
<1>7. taken \in Seq(Row) /\ taken \in Same
  BY <1>5 DEF Threaded, Tables
<1>8. Len(taken) \in Nat /\ DOMAIN taken = 1 .. Len(taken)
  BY <1>7
<1>9. \A t \in Same, k \in 1 .. Len(taken) : Rematch(t, k) \in Same
  <2> TAKE t \in Same, k \in 1 .. Len(taken)
  <2>1. t \in Threaded /\ t \in Seq(Row) /\ Len(t) = Len(taken) /\ k \in DOMAIN t
    BY DEF Threaded, Tables
  <2>2. Rematch(t, k) \in Threaded
    BY <1>1, <2>1, RematchThreads
  <2>3. Len(Rematch(t, k)) = Len(t)
    BY <2>1 DEF Rematch
  <2> QED BY <2>1, <2>2, <2>3
<1> HIDE DEF Same
<1>10. Passed(taken) \in Same
  BY <1>7, <1>8, <1>9, PassStays
<1> QED BY <1>6, <1>10 DEF Same, Threaded

\* The rows as they are keep to their threads.
ThreadInv == ThreadsHold(rows)

\* A person places row i: the mail of its thread is loose from then on.
LEMMA PlacedThreads ==
    ASSUME IInv, ThreadInv, NEW i \in DOMAIN rows, NEW c, NEW d, NEW b \in {"person", "intake"},
           ByPerson(i, c, d, b)
    PROVE  ThreadInv'
<1>1. /\ DOMAIN rows' = DOMAIN rows
      /\ \A j \in DOMAIN rows : j # i => rows'[j] = rows[j]
      /\ rows'[i].about = rows[i].about /\ rows'[i].by = rows[i].by
      /\ decided' = [decided EXCEPT ![i] = [case |-> c, by |-> b, dismissed |-> d]]
  BY DEF ByPerson, Edited
<1>2. i \in DOMAIN decided
  BY MaxRowsType DEF IInv, SoundMail, SoundDecisions
<1>3. decided'[i].by # "nobody" /\ \A j \in DOMAIN rows : j # i => decided'[j] = decided[j]
  BY <1>1, <1>2, MaxRowsType DEF IInv, SoundMail, SoundDecisions
<1>4. ASSUME NEW l \in Letters, ~Loose(rows, l)', NEW j \in DOMAIN rows', Thread(rows'[j].about) = l
      PROVE  rows'[j].case \in {NoCase, About[l]}
  <2>1. Thread(rows[i].about) # l
    BY <1>1, <1>3, <1>4 DEF Loose
  <2>2. ~Loose(rows, l)
    BY <1>1, <1>3, <1>4, <2>1 DEF Loose
  <2> QED BY <1>1, <1>4, <2>1, <2>2 DEF ThreadInv, ThreadsHold
<1> QED BY <1>4 DEF ThreadInv, ThreadsHold

\* A letter's row hangs on the case of the letter.
LEMMA SentThreads ==
    ASSUME IInv, ThreadInv, NEW l \in Letters, NEW logged \in BOOLEAN, send_letter(l, logged)
    PROVE  ThreadInv'
<1>1. rows \in Seq(Row) /\ decided' = decided
  BY DEF IInv, SoundMail, send_letter
<1>2. CASE ~logged
  <2>1. rows' = rows
    BY <1>2 DEF send_letter
  <2> QED BY <1>1, <2>1 DEF ThreadInv, ThreadsHold, Loose
<1>3. CASE logged
  <2> DEFINE n == Len(rows) + 1
  <2>1. /\ DOMAIN rows' = DOMAIN rows \cup {n} /\ (\A j \in DOMAIN rows : rows'[j] = rows[j])
        /\ rows'[n].about = l /\ rows'[n].case = About[l]
    BY <1>1, <1>3 DEF send_letter
  <2> HIDE DEF n
  <2>2. ASSUME NEW k \in Letters, ~Loose(rows, k)', NEW j \in DOMAIN rows',
               Thread(rows'[j].about) = k
        PROVE  rows'[j].case \in {NoCase, About[k]}
    <3>1. ~Loose(rows, k)
      BY <1>1, <2>1, <2>2 DEF Loose
    <3>2. CASE j \in DOMAIN rows
      BY <2>1, <2>2, <3>1, <3>2 DEF ThreadInv, ThreadsHold
    <3>3. CASE j = n
      BY <2>1, <2>2, <3>3 DEF Thread
    <3> QED BY <2>1, <3>2, <3>3
  <2> QED BY <2>2 DEF ThreadInv, ThreadsHold
<1> QED BY <1>2, <1>3

LEMMA NextThreadInv ==
    ASSUME OwnThreads, IInv, ThreadInv, [Next]_vars
    PROVE  ThreadInv'
<1>0. ASSUME UNCHANGED <<rows, decided>> PROVE ThreadInv'
  BY <1>0 DEF ThreadInv, ThreadsHold, Loose
<1>1. CASE UNCHANGED vars
  BY <1>0, <1>1 DEF vars, mailVars
<1>2. ASSUME NEW c \in Cases \cup {NoCase}, sync(InboxNow, c) PROVE ThreadInv'
  <2>1. SoundMail /\ SoundMail' /\ UNCHANGED <<post, cases, decided>> /\ rows \in Seq(Row)
    BY <1>2, SyncMail DEF IInv, SoundMail
  <2>2. PICK messages \in Returned(c), oldest \in FirstOrLast(rows) :
           rows' = FlushRows(rows, Synced(rows, messages, c, oldest))
    BY <1>2 DEF sync, InboxNow
  <2>3. oldest \in BOOLEAN /\ (c = NoCase \/ Exists(c))
    BY <1>2 DEF FirstOrLast, sync, Exists
  <2> DEFINE t == Synced(rows, messages, c, oldest)
  <2>4. t \in Seq(Row) /\ Len(rows) <= Len(t)
    <3>1. t \in Tables
      BY <2>1, <2>3, SyncedStays DEF SoundMail
    <3> QED BY <3>1 DEF Tables, Keeps
  <2>5. ThreadsHold(t)
    BY <2>1, <2>3, SyncedThreads DEF ThreadInv
  <2> HIDE DEF t
  <2>6. rows' = t
    BY <2>1, <2>2, <2>4, FlushSerial DEF t
  <2>7. ThreadsHold(rows')
    BY <2>5, <2>6
  <2> QED BY <2>1, <2>7 DEF ThreadInv, ThreadsHold, Loose
<1>3. ASSUME NEW i \in DOMAIN rows,
             \/ dismiss_emails(InboxNow, i)
             \/ \E c \in Cases : \/ link_email_to_case(InboxNow, i, c)
                                 \/ bulk_link_emails(InboxNow, i, c)
      PROVE  ThreadInv'
  <2>1. \E c, d : ByPerson(i, c, d, "person")
    BY <1>3, HandEdits DEF IInv
  <2> QED BY <2>1, PlacedThreads
<1>4. ASSUME NEW i \in DOMAIN rows, NEW c \in Cases, approve_intake(InboxNow, i, c)
      PROVE  ThreadInv'
  <2>1. \E d : ByPerson(i, c, d, "intake")
    BY <1>4, ApprovalEdits DEF IInv
  <2> QED BY <2>1, PlacedThreads
<1>5. ASSUME NEW i \in DOMAIN rows, reject_intake(InboxNow, i), UNCHANGED mailVars
      PROVE  ThreadInv'
  BY <1>0, <1>5 DEF mailVars
<1>6. CASE Reading
  BY <1>0, <1>6 DEF Reading, mailVars
<1>7. CASE World
  <2>1. ASSUME NEW m \in Mails, receive(m) PROVE ThreadInv'
    BY <1>0, <2>1 DEF receive
  <2>2. ASSUME NEW c \in MayDelete, delete_case(c) PROVE ThreadInv'
    BY <1>0, <2>2 DEF delete_case
  <2> QED BY <1>7, <2>1, <2>2, SentThreads DEF World
<1>8. CASE Handler(InboxNow)
  <2>1. CASE MailHandler(InboxNow)
    <3>1. InboxNow.rows = rows
      BY DEF InboxNow
    <3> QED BY <1>2, <1>3, <2>1, <3>1 DEF MailHandler
  <2> QED BY <1>4, <1>5, <1>8, <2>1 DEF Handler
<1> QED BY <1>1, <1>6, <1>7, <1>8 DEF Next

\* A synchronisation that links an answer by its thread links it to the case of
\* the letter it answers, unless mail of the thread was guessed or placed by a
\* person, provided that no two letters begin alike and that no answer quotes the
\* number of another case (_find_case_by_thread).
THEOREM AnswersStayWithTheirLetter ==
    ASSUME OwnThreads
    PROVE  Spec => ThreadFollowsLetter
<1>1. IInv /\ ThreadInv /\ [Next]_vars => ThreadInv'
  BY NextThreadInv
<1>2. Init => ThreadInv
  BY DEF Init, MailInit, ThreadInv, ThreadsHold
<1>3. ASSUME SoundMail', ThreadInv', NEW i \in DOMAIN rows', NEW l \in Letters,
             Thread(rows'[i].about) = l, rows'[i].by = "thread",
             \A j \in DOMAIN rows' : Thread(rows'[j].about) = l => ~Guessed(j)
      PROVE  rows'[i].case = About[l]
  <2>1. RowSound(i)'
    BY <1>3 DEF SoundMail, SoundTable, RowSound
  <2>2. rows'[i].case # NoCase
    BY <1>3, <2>1 DEF RowSound, RowOK, Exists
  <2>3. ~Loose(rows, l)'
    BY <1>3 DEF Loose, Guessed, Guesses
  <2> QED BY <1>3, <2>2, <2>3 DEF ThreadInv, ThreadsHold
<1>4. IInv' /\ ThreadInv' /\ [Next]_vars =>
         [\A i \in DOMAIN rows' :
             LET l == Thread(rows'[i].about) IN
             (/\ rows'[i].by = "thread" /\ l \in Letters
              /\ \A j \in DOMAIN rows' : Thread(rows'[j].about) = l => ~Guessed(j))
             => rows'[i].case = About[l]]_vars
  BY <1>3 DEF IInv
<1> QED BY <1>1, <1>2, <1>4, InboxInvariant, PTL DEF Spec, ThreadFollowsLetter
=============================================================================
