------------------------------ MODULE MailProofs ------------------------------
(***************************************************************************)
(* The queue behind "Verstuur later" keeps its promise for any number of   *)
(* mails, drafts, dispatchers and faults: it implements MailPromise, its   *)
(* notices are true, no failure is silent, and nothing stale is mailed.    *)
(*                                                                         *)
(* The argument: only a waiting row is claimed, a claimed row never waits  *)
(* again, so a mail has one owner in its life.  Everything the owner knows *)
(* about its mail (not handed over yet, handed over once, no report that   *)
(* nothing was sent) can therefore be changed by nobody else; a sweep or a *)
(* cancel request may write the status under its hands, and that is all.   *)
(***************************************************************************)
EXTENDS ScheduledMail, TLAPS

Busy == {"claimed", "cleared", "handed", "raised"}

Holds(p, m) == job[p].pc \in Busy /\ job[p].mail = m

\* A row that was never claimed is untouched; one that was never waits again.
RowInv(m) ==
    /\ handed[m] \in {0, 1}
    /\ row[m].attempts = 0 => /\ row[m].status \in {"none", "pending", "cancelled"}
                              /\ handed[m] = 0
    /\ row[m].attempts # 0 => row[m].status \notin {"none", "pending"}
    /\ m \in stale => Overtaken(m) /\ handed[m] = 0
    /\ row[m].escalates => handed[m] = 0
    /\ <<m, "blocked">> \in notices => row[m].attempts # 0

\* What dispatcher p relies on.
JobInv(p) ==
    /\ job[p].pc = "swept" => \A m \in job[p].stuck : row[m].attempts # 0
    /\ \A m \in Mails :
          /\ Holds(p, m) => row[m].attempts # 0 /\ <<m, "blocked">> \notin notices
          /\ Holds(p, m) /\ job[p].pc \in {"claimed", "cleared"} => handed[m] = 0
          /\ Holds(p, m) /\ job[p].pc = "cleared" => m \notin stale
          /\ Holds(p, m) /\ job[p].pc = "handed" => handed[m] = 1

OneOwner == \A m \in Mails : \A p, q \in Dispatchers : Holds(p, m) /\ Holds(q, m) => p = q

CancelInv == \A m \in Mails, s \in {"pending", "failed"} :
                 <<m, s>> \in cancelling => row[m].status # "none"

RowsInv == \A m \in Mails : RowInv(m)
JobsInv == \A p \in Dispatchers : JobInv(p)

QueueInv == TypeOK /\ RowsInv /\ JobsInv /\ OneOwner /\ CancelInv
            /\ NoticesAreHonest /\ OutcomeIsReported

Step ==
    \/ User
    \/ \E m \in Mails : Time(m)
    \/ \E p \in Dispatchers : Dispatch(p) \/ Crash(p) \/ Abandon(p)

-----------------------------------------------------------------------------
(* Types.                                                                  *)

Kinds == {"blocked", "uncertain", "mail_sent"}

LEMMA ReportTypes ==
    ASSUME NEW mails \in SUBSET Mails, NEW n \in Kinds, TypeOK, Report(mails, n)
    PROVE  notices' \subseteq Mails \X Kinds
BY DEF Report, TypeOK, Kinds

RowType == [status : {"none", "pending", "sending", "sent", "failed", "cancelled"},
            draft : Drafts \cup {NoDraft}, attempts : Nat, escalates : BOOLEAN]

JobType == [pc : {"idle", "listing"}] \cup [pc : {"swept"}, stuck : SUBSET Mails]
             \cup [pc : {"run"}, todo : SUBSET Mails]
             \cup [pc : Busy, mail : Mails, todo : SUBSET Mails]

LEMMA JobKinds ==
    ASSUME TypeOK, NEW p \in Dispatchers
    PROVE  /\ job[p] \in JobType
           /\ job[p].pc = "swept" => job[p].stuck \in SUBSET Mails
           /\ job[p].pc \in Busy \cup {"run"} => job[p].todo \in SUBSET Mails
           /\ job[p].pc \in Busy => job[p].mail \in Mails
BY DEF TypeOK, JobType, Busy

LEMMA UserTypes ==
    ASSUME TypeOK, User \/ \E m \in Mails : Time(m), Watch
    PROVE  TypeOK'
<1> USE DEF TypeOK, world, users
<1>w. stale' \subseteq Mails
  BY DEF Watch
<1>1. ASSUME NEW m \in Mails, NEW d \in Drafts \cup {NoDraft}, NEW e \in BOOLEAN,
             Schedule(m, d, e)
      PROVE  TypeOK'
  BY <1>1, <1>w DEF Schedule
<1>2. ASSUME NEW m \in Mails, BeginCancel(m)
      PROVE  TypeOK'
  BY <1>2, <1>w DEF BeginCancel
<1>3. ASSUME NEW m \in Mails, NEW loaded \in {"pending", "failed"}, Cancel(m, loaded)
      PROVE  TypeOK'
  BY <1>3, <1>w DEF Cancel
<1>4. ASSUME NEW m \in Mails, Halt(m) \/ Reopen(m)
      PROVE  TypeOK'
  BY <1>4, <1>w DEF Halt, Reopen
<1>5. ASSUME NEW d \in Drafts, MailByHand(d) \/ CompleteByHand(d)
      PROVE  TypeOK'
  BY <1>5, <1>w DEF MailByHand, CompleteByHand
<1>6. ASSUME NEW d \in Drafts, NEW status \in {"open", "sent", "discarded"},
             SetDraft(d, status)
      PROVE  TypeOK'
  BY <1>6, <1>w DEF SetDraft
<1>7. ASSUME NEW m \in Mails, Ripen(m) \/ Age(m)
      PROVE  TypeOK'
  BY <1>7, <1>w DEF Ripen, Age
<1>8. CASE \E m \in Mails, d \in Drafts \cup {NoDraft}, e \in BOOLEAN : Schedule(m, d, e)
  BY <1>1, <1>8, ZenonT(60)
<1>9. CASE ~\E m \in Mails, d \in Drafts \cup {NoDraft}, e \in BOOLEAN : Schedule(m, d, e)
  BY <1>2, <1>3, <1>4, <1>5, <1>6, <1>7, <1>9 DEF User, Time
<1> QED BY <1>8, <1>9

\* A step of a dispatcher writes its own job, with a value of the right kind.
LEMMA RestType ==
    ASSUME TypeOK, NEW p \in Dispatchers, job[p].pc \in Busy, Rest(p)
    PROVE  job' \in [Dispatchers -> JobType]
<1>1. job[p].todo \ {job[p].mail} \in SUBSET Mails
  BY JobKinds
<1>2. job \in [Dispatchers -> JobType]
  BY DEF TypeOK, JobType, Busy
<1>3. [pc |-> "run", todo |-> job[p].todo \ {job[p].mail}] \in JobType
  BY <1>1 DEF JobType
<1> QED BY <1>2, <1>3 DEF Rest

LEMMA AtType ==
    ASSUME TypeOK, NEW p \in Dispatchers, NEW pc \in Busy, NEW m \in Mails,
           job[p].pc \in Busy \cup {"run"}, At(p, pc, m)
    PROVE  job' \in [Dispatchers -> JobType]
<1>1. job[p].todo \in SUBSET Mails
  BY JobKinds
<1>2. job \in [Dispatchers -> JobType]
  BY DEF TypeOK, JobType, Busy
<1>3. [pc |-> pc, mail |-> m, todo |-> job[p].todo] \in JobType
  BY <1>1 DEF JobType
<1> QED BY <1>2, <1>3 DEF At

LEMMA DispatchTypes ==
    ASSUME TypeOK, NEW p \in Dispatchers, Dispatch(p) \/ Crash(p) \/ Abandon(p), Watch
    PROVE  TypeOK'
<1> DEFINE RestOK == /\ row' \in [Mails -> RowType]
                     /\ old' \subseteq Mails
                     /\ draft' \in [Drafts -> {"open", "sent", "discarded"}]
                     /\ notices' \subseteq Mails \X Kinds
                     /\ handed' \in [Mails -> Nat]
                     /\ faults' \in 0 .. MaxFaults
                     /\ UNCHANGED <<ripe, halted, byHand, users>>
<1>t. /\ row \in [Mails -> RowType]
      /\ job \in [Dispatchers -> JobType]
      /\ notices \subseteq Mails \X Kinds
  BY DEF TypeOK, RowType, JobType, Kinds, Busy
<1>w. ASSUME job' \in [Dispatchers -> JobType], RestOK
      PROVE  TypeOK'
  BY <1>w DEF TypeOK, Watch, users, RowType, JobType, Kinds, Busy
<1> USE DEF world, users
<1>1. ASSUME Sweep(p)
      PROVE  TypeOK'
  <2>1. [pc |-> "swept", stuck |-> Stuck] \in JobType
    BY DEF JobType, Stuck
  <2> QED BY <1>1, <1>t, <1>w, <2>1 DEF Sweep, TypeOK
<1>2. ASSUME FailStuck(p)
      PROVE  TypeOK'
  <2>1. job[p].stuck \in SUBSET Mails
    BY <1>2, JobKinds DEF FailStuck
  <2>2. \A r \in RowType : AfterSweep(r) \in RowType
    BY DEF RowType, AfterSweep
  <2>3. row' \in [Mails -> RowType]
    BY <1>2, <1>t, <2>2 DEF FailStuck
  <2>4. notices' \subseteq Mails \X Kinds
    BY <1>2, <2>1, ReportTypes DEF FailStuck, Kinds
  <2>5. job' \in [Dispatchers -> JobType]
    BY <1>2, <1>t DEF FailStuck, JobType
  <2> QED BY <1>2, <1>w, <2>3, <2>4, <2>5 DEF FailStuck, TypeOK
<1>3. ASSUME List(p)
      PROVE  TypeOK'
  <2>1. \A todo \in SUBSET Due : [pc |-> "run", todo |-> todo] \in JobType
    BY DEF JobType, Due, TypeOK
  <2> QED BY <1>3, <1>t, <1>w, <2>1 DEF List, TypeOK
<1>4. ASSUME RunEnds(p) \/ Crash(p)
      PROVE  TypeOK'
  <2>1. Idle \in JobType
    BY DEF JobType, Idle
  <2> QED BY <1>4, <1>t, <1>w, <2>1, BoundAssumption DEF RunEnds, Crash, TypeOK
<1>5. ASSUME NEW m \in Mails, Claim(p, m)
      PROVE  TypeOK'
  <2>1. job' \in [Dispatchers -> JobType]
    BY <1>5, AtType DEF Claim, Busy
  <2>2. row' \in [Mails -> RowType]
    BY <1>5, <1>t DEF Claim, RowType
  <2> QED BY <1>5, <1>t, <1>w, <2>1, <2>2 DEF Claim, TypeOK
<1>6. ASSUME NEW m \in Mails, Skip(p, m)
      PROVE  TypeOK'
  <2>1. [job[p] EXCEPT !.todo = @ \ {m}] \in JobType
    BY <1>6, JobKinds DEF Skip, JobType, Busy
  <2> QED BY <1>6, <1>t, <1>w, <2>1 DEF Skip, TypeOK
<1>7. ASSUME Block(p) \/ Fail(p) \/ Finish(p) \/ Escalate(p)
      PROVE  TypeOK'
  <2>1. job[p].pc \in Busy /\ job[p].mail \in Mails
    BY <1>7, JobKinds DEF Block, Fail, Finish, Escalate, Busy
  <2>2. job' \in [Dispatchers -> JobType]
    BY <1>7, <2>1, RestType DEF Block, Fail, Finish, Escalate
  <2>3. row' \in [Mails -> RowType]
    BY <1>7, <1>t, <2>1 DEF Block, Fail, Finish, Escalate, RowType
  <2>4. notices' \subseteq Mails \X Kinds
    BY <1>7, <1>t, <2>1, ReportTypes DEF Block, Fail, Finish, Escalate, Kinds
  <2>5. draft' \in [Drafts -> {"open", "sent", "discarded"}]
    BY <1>7 DEF Block, Fail, Finish, Escalate, TypeOK
  <2> QED BY <1>7, <1>w, <2>2, <2>3, <2>4, <2>5 DEF Block, Fail, Finish, Escalate, TypeOK
<1>8. ASSUME Clear(p) \/ HandOver(p) \/ Raise(p)
      PROVE  TypeOK'
  <2>1. job[p].pc \in Busy /\ job[p].mail \in Mails
    BY <1>8, JobKinds DEF Clear, HandOver, Raise, Busy
  <2>2. job' \in [Dispatchers -> JobType]
    BY <1>8, <2>1, AtType DEF Clear, HandOver, Raise, Busy
  <2>3. handed' \in [Mails -> Nat]
    BY <1>8 DEF Clear, HandOver, Raise, TypeOK
  <2> QED BY <1>8, <1>t, <1>w, <2>2, <2>3 DEF Clear, HandOver, Raise, TypeOK
<1>9. ASSUME Abandon(p)
      PROVE  TypeOK'
  <2>1. job' \in [Dispatchers -> JobType]
    BY <1>9, RestType DEF Abandon, Busy
  <2> QED BY <1>9, <1>t, <1>w, <2>1, BoundAssumption DEF Abandon, TypeOK
<1> QED BY <1>1, <1>2, <1>3, <1>4, <1>5, <1>6, <1>7, <1>8, <1>9 DEF Dispatch

LEMMA StepTypes ==
    ASSUME TypeOK, [Next]_vars
    PROVE  TypeOK'
<1>1. CASE Next
  BY <1>1, UserTypes, DispatchTypes DEF Next
<1>2. CASE UNCHANGED vars
  BY <1>2 DEF vars, TypeOK
<1> QED BY <1>1, <1>2

-----------------------------------------------------------------------------
(* What a step may do to a mail, and to a dispatcher, that holds no surprise. *)

\* The row changes in no way that matters to its owner, and nothing is handed over.
Quiet(m) ==
    /\ handed'[m] = handed[m]
    /\ row'[m].attempts = row[m].attempts
    /\ row'[m].escalates = row[m].escalates \/ row[m].attempts = 0
    /\ \/ row'[m].status = row[m].status
       \/ row'[m].status = "pending" /\ row[m].attempts = 0
       \/ row'[m].status = "cancelled" /\ row[m].status # "none"
       \/ row'[m].status \in {"sent", "failed"} /\ row[m].attempts # 0
    /\ <<m, "blocked">> \in notices' => <<m, "blocked">> \in notices \/ row[m].attempts # 0

LEMMA QuietRow ==
    ASSUME TypeOK, Watch, NEW m \in Mails, RowInv(m), Quiet(m)
    PROVE  RowInv(m)'
BY DEF TypeOK, Watch, RowInv, Quiet

\* Attempts are never taken back.
Counted == \A m \in Mails : row[m].attempts # 0 => row'[m].attempts # 0

\* Nobody touches what dispatcher p relies on.
Undisturbed(p) ==
    /\ job'[p] = job[p]
    /\ \A m \in Mails : Holds(p, m) =>
          /\ handed'[m] = handed[m]
          /\ <<m, "blocked">> \in notices' => <<m, "blocked">> \in notices

\* A mail that was claimed does not become stale any more.
LEMMA ClaimedStaysFresh ==
    ASSUME TypeOK, Watch, NEW m \in Mails, RowInv(m)', row'[m].attempts # 0, m \in stale'
    PROVE  m \in stale
BY DEF Watch, RowInv

LEMMA UndisturbedJob ==
    ASSUME TypeOK, Watch, RowsInv', Counted, NEW p \in Dispatchers, JobInv(p), Undisturbed(p)
    PROVE  JobInv(p)'
<1>1. ASSUME job'[p].pc = "swept"
      PROVE  \A m \in job'[p].stuck : row'[m].attempts # 0
  BY <1>1, JobKinds DEF JobInv, Undisturbed, Counted
<1>2. \A m \in Mails : Holds(p, m)' <=> Holds(p, m)
  BY DEF Undisturbed, Holds
<1>3. ASSUME NEW m \in Mails, Holds(p, m)
      PROVE  row'[m].attempts # 0 /\ <<m, "blocked">> \notin notices'
  BY <1>3 DEF JobInv, Undisturbed, Counted
<1>4. ASSUME NEW m \in Mails, Holds(p, m), m \notin stale
      PROVE  m \notin stale'
  BY <1>3, <1>4, ClaimedStaysFresh DEF RowsInv
<1> QED BY <1>1, <1>2, <1>3, <1>4 DEF JobInv, Undisturbed

\* What one dispatcher does, it does to its own job and to the mail it holds.
OnlyBy(p) ==
    /\ \A q \in Dispatchers : q # p => job'[q] = job[q]
    /\ \A m \in Mails : ~Holds(p, m) =>
          /\ handed'[m] = handed[m]
          /\ <<m, "blocked">> \in notices' => <<m, "blocked">> \in notices
          /\ <<m, "mail_sent">> \in notices' => <<m, "mail_sent">> \in notices

LEMMA OthersUndisturbed ==
    ASSUME OneOwner, NEW p \in Dispatchers, OnlyBy(p), NEW q \in Dispatchers, q # p
    PROVE  Undisturbed(q)
BY DEF OneOwner, OnlyBy, Undisturbed

\* One report touches one kind of notice of the mails it is about.
LEMMA ReportAdds ==
    ASSUME NEW mails \in SUBSET Mails, NEW n \in Kinds, Report(mails, n),
           NEW m \in Mails, NEW k \in Kinds, m \notin mails \/ k # n, <<m, k>> \in notices'
    PROVE  <<m, k>> \in notices
BY DEF Report

\* Nothing that was reported is withdrawn, and each mail of a report has a notice with
\* its subject.
LEMMA ReportTells ==
    ASSUME NEW mails \in SUBSET Mails, NEW n \in Kinds, Report(mails, n)
    PROVE  /\ notices \subseteq notices'
           /\ \A m \in mails : \E told \in notices' : Subject[told[1]] = Subject[m]
<1>1. notices \subseteq notices'
  BY DEF Report
<1>2. PICK told \in SUBSET mails :
         /\ notices' = notices \cup (told \X {n})
         /\ \A m \in mails \ told : \E k \in notices' : Title(k) = Title(<<m, n>>)
  BY DEF Report
<1>3. ASSUME NEW m \in told
      PROVE  \E k \in notices' : Subject[k[1]] = Subject[m]
  <2>1. <<m, n>> \in notices'
    BY <1>2
  <2> QED BY <2>1
<1>4. ASSUME NEW m \in mails \ told
      PROVE  \E k \in notices' : Subject[k[1]] = Subject[m]
  BY <1>2 DEF Title
<1> QED BY <1>1, <1>3, <1>4

-----------------------------------------------------------------------------
(* Users and time: nothing a dispatcher relies on.                         *)

\* Users write a row in two ways, and leave jobs, notices and hand-overs alone.
UserEffect ==
    /\ UNCHANGED <<job, notices, handed>>
    /\ \/ UNCHANGED <<row, cancelling>>
       \/ \E m \in Mails, s \in {"pending", "failed"} :
             /\ row[m].status = s
             /\ cancelling' = cancelling \cup {<<m, s>>}
             /\ row' = row
       \/ \E m \in Mails, d \in Drafts \cup {NoDraft}, e \in BOOLEAN :
             /\ row[m] = NoMail
             /\ row' = [row EXCEPT ![m] = [status |-> "pending", draft |-> d,
                                           attempts |-> 0, escalates |-> e]]
             /\ cancelling' = cancelling
       \/ \E m \in Mails, s \in {"pending", "failed"} :
             /\ <<m, s>> \in cancelling
             /\ row' = [row EXCEPT ![m].status = "cancelled"]
             /\ cancelling' = cancelling \ {<<m, s>>}

LEMMA UserWrites ==
    ASSUME User \/ \E m \in Mails : Time(m)
    PROVE  UserEffect
<1> USE DEF world, users, UserEffect
<1>1. ASSUME NEW m \in Mails, NEW d \in Drafts \cup {NoDraft}, NEW e \in BOOLEAN,
             Schedule(m, d, e)
      PROVE  UserEffect
  BY <1>1 DEF Schedule
<1>2. ASSUME NEW m \in Mails, BeginCancel(m)
      PROVE  UserEffect
  BY <1>2 DEF BeginCancel
<1>3. ASSUME NEW m \in Mails, NEW loaded \in {"pending", "failed"}, Cancel(m, loaded)
      PROVE  UserEffect
  BY <1>3 DEF Cancel
<1>4. ASSUME NEW m \in Mails, Halt(m) \/ Reopen(m) \/ Ripen(m) \/ Age(m)
      PROVE  UNCHANGED <<job, notices, handed, row, cancelling>>
  BY <1>4 DEF Halt, Reopen, Ripen, Age
<1>5. ASSUME NEW d \in Drafts,
             \/ MailByHand(d) \/ CompleteByHand(d)
             \/ \E status \in {"open", "sent", "discarded"} : SetDraft(d, status)
      PROVE  UNCHANGED <<job, notices, handed, row, cancelling>>
  BY <1>5 DEF MailByHand, CompleteByHand, SetDraft
<1> QED BY <1>1, <1>2, <1>3, <1>4, <1>5 DEF User, Time

\* A user neither fails a mail nor says it was sent.
QuietForUsers(m) ==
    /\ Quiet(m)
    /\ row'[m].status \in {"sent", "failed"} => row'[m].status = row[m].status
    /\ row[m].status # "none" => row'[m].status # "none"
    /\ \A s \in {"pending", "failed"} :
          <<m, s>> \in cancelling' => row[m].status # "none"

LEMMA UserQuiet ==
    ASSUME TypeOK, CancelInv, User \/ \E m \in Mails : Time(m), NEW m \in Mails
    PROVE  QuietForUsers(m)
<1> USE DEF TypeOK, Quiet, QuietForUsers, CancelInv
<1>u. UNCHANGED <<job, notices, handed>>
  BY UserWrites DEF UserEffect
<1>1. CASE UNCHANGED <<row, cancelling>>
  BY <1>u, <1>1
<1>2. ASSUME NEW n \in Mails, NEW s \in {"pending", "failed"}, row[n].status = s,
             cancelling' = cancelling \cup {<<n, s>>}, row' = row
      PROVE  QuietForUsers(m)
  BY <1>u, <1>2
<1>3. ASSUME NEW n \in Mails, NEW d \in Drafts \cup {NoDraft}, NEW e \in BOOLEAN,
             row[n] = NoMail,
             row' = [row EXCEPT ![n] = [status |-> "pending", draft |-> d, attempts |-> 0,
                                        escalates |-> e]],
             cancelling' = cancelling
      PROVE  QuietForUsers(m)
  BY <1>u, <1>3 DEF NoMail
<1>4. ASSUME NEW n \in Mails, NEW s \in {"pending", "failed"}, <<n, s>> \in cancelling,
             row' = [row EXCEPT ![n].status = "cancelled"],
             cancelling' = cancelling \ {<<n, s>>}
      PROVE  QuietForUsers(m)
  BY <1>u, <1>4
<1> QED BY <1>1, <1>2, <1>3, <1>4, UserWrites DEF UserEffect

LEMMA UserKeeps ==
    ASSUME QueueInv, User \/ \E m \in Mails : Time(m), Watch
    PROVE  QueueInv'
<1> USE DEF QueueInv
<1>1. TypeOK'
  BY UserTypes
<1>2. RowsInv'
  BY UserQuiet, QuietRow DEF QuietForUsers, RowsInv
<1>3. Counted
  BY UserQuiet DEF QuietForUsers, Counted, Quiet
<1>4. \A p \in Dispatchers : Undisturbed(p)
  BY UserWrites DEF UserEffect, Undisturbed
<1>5. JobsInv'
  BY <1>2, <1>3, <1>4, UndisturbedJob DEF JobsInv
<1>6. OneOwner'
  BY UserWrites DEF UserEffect, OneOwner, Holds
<1>7. CancelInv'
  BY UserQuiet DEF QuietForUsers, CancelInv
<1>8. NoticesAreHonest' /\ OutcomeIsReported'
  <2>1. UNCHANGED <<notices, handed>>
    BY UserWrites DEF UserEffect
  <2>2. ASSUME NEW m \in Mails, row'[m].status \in {"sent", "failed"}
        PROVE  row'[m].status = row[m].status /\ row'[m].escalates = row[m].escalates
    BY <2>2, UserQuiet DEF QuietForUsers, Quiet, RowsInv, RowInv
  <2> QED BY <2>1, <2>2 DEF NoticesAreHonest, OutcomeIsReported
<1> QED BY <1>1, <1>2, <1>5, <1>6, <1>7, <1>8

-----------------------------------------------------------------------------
(* Dispatchers.                                                            *)

\* The steps that write nothing but the job.
Sweeping(p) ==
    \/ Sweep(p) \/ List(p) \/ RunEnds(p) \/ Clear(p) \/ Raise(p) \/ Crash(p) \/ Abandon(p)
    \/ \E m \in Mails : Skip(p, m)

\* The steps that end with a mail and go on with the rest of the list.
Ends(p) == Block(p) \/ Fail(p) \/ Finish(p) \/ Escalate(p)

LEMMA DispatchCases ==
    ASSUME NEW p \in Dispatchers, Dispatch(p) \/ Crash(p) \/ Abandon(p)
    PROVE  \/ Sweeping(p) \/ Ends(p) \/ FailStuck(p) \/ HandOver(p)
           \/ \E m \in Mails : Claim(p, m)
BY DEF Dispatch, Sweeping, Ends

LEMMA SweepingStep ==
    ASSUME TypeOK, NEW p \in Dispatchers, Sweeping(p)
    PROVE  UNCHANGED <<row, handed, notices, cancelling>>
BY DEF Sweeping, Sweep, List, RunEnds, Clear, Raise, Crash, Abandon, Skip, world, users

LEMMA OwnJobOnly ==
    ASSUME TypeOK, NEW p \in Dispatchers, Dispatch(p) \/ Crash(p) \/ Abandon(p),
           NEW q \in Dispatchers, q # p
    PROVE  job'[q] = job[q] /\ cancelling' = cancelling
BY DEF Dispatch, Sweep, FailStuck, List, Claim, Skip, RunEnds, Block, Clear, HandOver, Raise,
       Fail, Finish, Escalate, Crash, Abandon, At, Rest, TypeOK, users

\* What a dispatcher knows of the mail it holds.
LEMMA Held ==
    ASSUME QueueInv, NEW p \in Dispatchers, job[p].pc \in Busy
    PROVE  /\ job[p].mail \in Mails
           /\ Holds(p, job[p].mail)
           /\ row[job[p].mail].attempts # 0
           /\ <<job[p].mail, "blocked">> \notin notices
           /\ job[p].pc \in {"claimed", "cleared"} => handed[job[p].mail] = 0
           /\ job[p].pc = "cleared" => job[p].mail \notin stale
           /\ job[p].pc = "handed" => handed[job[p].mail] = 1
<1>1. job[p].mail \in Mails
  BY JobKinds DEF QueueInv
<1>2. Holds(p, job[p].mail)
  BY DEF Holds
<1> QED BY <1>1, <1>2 DEF QueueInv, JobsInv, JobInv

\* What such an end writes: the outcome of its mail, and at most one notice about it.
LEMMA EndsStep ==
    ASSUME QueueInv, NEW p \in Dispatchers, Ends(p)
    PROVE  LET m == job[p].mail
           IN  /\ job[p].pc \in Busy
               /\ handed' = handed
               /\ job' = [job EXCEPT ![p] = [pc |-> "run", todo |-> job[p].todo \ {m}]]
               /\ \E status \in {"sent", "failed"} : row' = [row EXCEPT ![m].status = status]
               /\ notices \subseteq notices'
               /\ \A n \in Mails, k \in Kinds :
                     n # m /\ <<n, k>> \in notices' => <<n, k>> \in notices
               /\ <<m, "blocked">> \in notices' =>
                     <<m, "blocked">> \in notices \/ job[p].pc = "claimed"
               /\ <<m, "mail_sent">> \in notices' =>
                     <<m, "mail_sent">> \in notices \/ job[p].pc = "handed"
               /\ row'[m].escalates = row[m].escalates
               /\ row'[m].status = "sent" =>
                     (job[p].pc = IF row[m].escalates THEN "cleared" ELSE "handed")
               /\ row'[m].status = "failed" =>
                     \E n \in notices' : Subject[n[1]] = Subject[m]
<1> DEFINE m == job[p].mail
<1>1. job[p].pc \in Busy /\ m \in Mails /\ m \in DOMAIN row /\ row \in [Mails -> RowType]
  BY JobKinds DEF Ends, Block, Fail, Finish, Escalate, Busy, QueueInv, TypeOK, RowType
<1>k. "blocked" \in Kinds /\ "uncertain" \in Kinds /\ "mail_sent" \in Kinds
      /\ "blocked" # "uncertain" /\ "blocked" # "mail_sent" /\ "uncertain" # "mail_sent"
      /\ {m} \in SUBSET Mails
  BY <1>1 DEF Kinds
<1>2. CASE Block(p)
  <2>1. Report({m}, "blocked") /\ job[p].pc = "claimed"
    BY <1>2 DEF Block
  <2>2. row' = [row EXCEPT ![m].status = "failed"] /\ row'[m].status = "failed"
    BY <1>1, <1>2 DEF Block, RowType
  <2>5. row'[m].escalates = row[m].escalates
    BY <1>1, <2>2 DEF RowType
  <2>3. \A n \in Mails, k \in Kinds :
           n # m /\ <<n, k>> \in notices' => <<n, k>> \in notices
    BY <1>k, <2>1, ReportAdds
  <2>4. <<m, "mail_sent">> \in notices' => <<m, "mail_sent">> \in notices
    BY <1>1, <1>k, <2>1, ReportAdds
  <2>6. /\ notices \subseteq notices'
        /\ \E n \in notices' : Subject[n[1]] = Subject[m]
    BY <1>k, <2>1, ReportTells
  <2> QED BY <1>1, <1>2, <2>1, <2>2, <2>3, <2>4, <2>5, <2>6 DEF Block, Rest
<1>3. CASE Fail(p)
  <2>1. Report({m}, "uncertain")
    BY <1>3 DEF Fail
  <2>2. row' = [row EXCEPT ![m].status = "failed"] /\ row'[m].status = "failed"
    BY <1>1, <1>3 DEF Fail, RowType
  <2>5. row'[m].escalates = row[m].escalates
    BY <1>1, <2>2 DEF RowType
  <2>3. \A n \in Mails, k \in Kinds :
           n # m /\ <<n, k>> \in notices' => <<n, k>> \in notices
    BY <1>k, <2>1, ReportAdds
  <2>4. /\ <<m, "mail_sent">> \in notices' => <<m, "mail_sent">> \in notices
        /\ <<m, "blocked">> \in notices' => <<m, "blocked">> \in notices
    BY <1>1, <1>k, <2>1, ReportAdds
  <2>6. /\ notices \subseteq notices'
        /\ \E n \in notices' : Subject[n[1]] = Subject[m]
    BY <1>k, <2>1, ReportTells
  <2> QED BY <1>1, <1>3, <2>1, <2>2, <2>3, <2>4, <2>5, <2>6 DEF Fail, Rest
<1>4. CASE Finish(p)
  <2>1. (Report({m}, "mail_sent") \/ UNCHANGED notices) /\ job[p].pc = "handed"
    BY <1>4 DEF Finish
  <2>2. row' = [row EXCEPT ![m].status = "sent"] /\ row'[m].status = "sent"
    BY <1>1, <1>4 DEF Finish, RowType
  <2>3. \A n \in Mails, k \in Kinds :
           n # m /\ <<n, k>> \in notices' => <<n, k>> \in notices
    BY <1>k, <2>1, ReportAdds
  <2>4. <<m, "blocked">> \in notices' => <<m, "blocked">> \in notices
    BY <1>1, <1>k, <2>1, ReportAdds
  <2>5. notices \subseteq notices'
    BY <1>k, <2>1, ReportTells
  <2>6. row'[m].escalates = row[m].escalates
    BY <1>1, <2>2 DEF RowType
  <2>7. ~row[m].escalates
    <3>1. handed[m] = 1
      BY <1>1, <2>1, Held
    <3>2. RowInv(m)
      BY <1>1 DEF QueueInv, RowsInv
    <3> QED BY <3>1, <3>2 DEF RowInv
  <2> QED BY <1>1, <1>4, <2>1, <2>2, <2>3, <2>4, <2>5, <2>6, <2>7 DEF Finish, Rest
<1>5. CASE Escalate(p)
  <2>1. job[p].pc = "cleared" /\ row[m].escalates /\ notices' = notices /\ handed' = handed
    BY <1>5 DEF Escalate
  <2>2. row' = [row EXCEPT ![m].status = "sent"] /\ row'[m].status = "sent"
    BY <1>1, <1>5 DEF Escalate, RowType
  <2>3. row'[m].escalates = row[m].escalates
    BY <1>1, <2>2 DEF RowType
  <2> QED BY <1>1, <1>5, <2>1, <2>2, <2>3 DEF Escalate, Rest
<1> QED BY <1>2, <1>3, <1>4, <1>5 DEF Ends

\* A claim: the mail waited, so it has had no owner and nothing was said of it.
LEMMA ClaimStep ==
    ASSUME QueueInv, NEW p \in Dispatchers, NEW m \in Mails, Claim(p, m)
    PROVE  /\ row[m].attempts = 0 /\ handed[m] = 0
           /\ <<m, "blocked">> \notin notices
           /\ \A q \in Dispatchers : ~Holds(q, m)
           /\ row'[m].status = "sending" /\ row'[m].attempts = 1
           /\ \A n \in Mails : n # m => row'[n] = row[n]
           /\ job'[p].pc = "claimed" /\ job'[p].mail = m
           /\ UNCHANGED <<handed, notices>>
<1>1. row[m].status = "pending"
  BY DEF Claim, Claimable
<1>2. row[m].attempts = 0 /\ handed[m] = 0 /\ <<m, "blocked">> \notin notices
  BY <1>1 DEF QueueInv, RowsInv, RowInv
<1>3. \A q \in Dispatchers : ~Holds(q, m)
  BY <1>2 DEF QueueInv, JobsInv, JobInv
<1>4. row'[m].status = "sending" /\ row'[m].attempts = 1
  BY <1>2 DEF Claim, QueueInv, TypeOK
<1>5. \A n \in Mails : n # m => row'[n] = row[n]
  BY DEF Claim, QueueInv, TypeOK
<1>6. job'[p].pc = "claimed" /\ job'[p].mail = m
  BY DEF Claim, At, QueueInv, TypeOK
<1> QED BY <1>2, <1>3, <1>4, <1>5, <1>6 DEF Claim

LEMMA HandOverStep ==
    ASSUME QueueInv, NEW p \in Dispatchers, HandOver(p)
    PROVE  /\ job[p].pc = "cleared" /\ job'[p].pc = "handed"
           /\ job'[p].mail = job[p].mail
           /\ handed'[job[p].mail] = 1
           /\ \A m \in Mails : m # job[p].mail => handed'[m] = handed[m]
           /\ UNCHANGED <<row, notices>>
<1>1. job[p].pc = "cleared" /\ job[p].pc \in Busy
  BY DEF HandOver, Busy
<1>2. handed[job[p].mail] = 0 /\ job[p].mail \in Mails
  BY <1>1, Held
<1> QED BY <1>1, <1>2 DEF HandOver, At, QueueInv, TypeOK, world

LEMMA FailStuckStep ==
    ASSUME QueueInv, NEW p \in Dispatchers, FailStuck(p)
    PROVE  /\ job'[p].pc = "listing"
           /\ handed' = handed
           /\ \A m \in Mails : /\ row'[m].attempts = row[m].attempts
                              /\ row'[m].escalates = row[m].escalates
           /\ \A m \in Mails : \/ row'[m].status = row[m].status
                               \/ row'[m].status = "failed" /\ row[m].attempts # 0
           /\ notices \subseteq notices'
           /\ \A m \in Mails, k \in {"blocked", "mail_sent"} :
                 <<m, k>> \in notices' => <<m, k>> \in notices
           /\ \A m \in Mails : row'[m].status = "failed" =>
                 \/ row[m].status = "failed"
                 \/ \E n \in notices' : Subject[n[1]] = Subject[m]
<1> DEFINE stuck == job[p].stuck
<1>1. job[p].pc = "swept" /\ stuck \in SUBSET Mails
  BY JobKinds DEF FailStuck, QueueInv
<1>2. \A m \in stuck : row[m].attempts # 0
  BY <1>1 DEF QueueInv, JobsInv, JobInv
<1>3. row \in [Mails -> RowType]
  BY DEF QueueInv, TypeOK, RowType
<1>4. \A m \in Mails : row'[m] = IF m \in stuck THEN AfterSweep(row[m]) ELSE row[m]
  BY DEF FailStuck
<1>5. \A m \in Mails : /\ row'[m].attempts = row[m].attempts
                       /\ row'[m].escalates = row[m].escalates
                       /\ m \in stuck => row'[m].status = "failed"
                       /\ m \notin stuck => row'[m].status = row[m].status
  BY <1>3, <1>4 DEF AfterSweep, RowType
<1>6. Report(stuck, "uncertain") /\ "uncertain" \in Kinds
  BY DEF FailStuck, Kinds
<1>7. \A m \in Mails, k \in {"blocked", "mail_sent"} :
         <<m, k>> \in notices' => <<m, k>> \in notices
  BY <1>1, <1>6, ReportAdds DEF Kinds
<1>8. /\ notices \subseteq notices'
      /\ \A m \in stuck : \E n \in notices' : Subject[n[1]] = Subject[m]
  BY <1>1, <1>6, ReportTells
<1>9. job'[p].pc = "listing" /\ handed' = handed
  BY DEF FailStuck, QueueInv, TypeOK
<1> QED BY <1>2, <1>5, <1>7, <1>8, <1>9

LEMMA DispatchRows ==
    ASSUME QueueInv, Watch, NEW p \in Dispatchers, Dispatch(p) \/ Crash(p) \/ Abandon(p)
    PROVE  RowsInv' /\ Counted
<1>t. TypeOK /\ RowsInv
  BY DEF QueueInv
<1>q. ASSUME \A m \in Mails : Quiet(m)
      PROVE  RowsInv' /\ Counted
  BY <1>t, <1>q, QuietRow DEF RowsInv, Counted, Quiet
<1>1. CASE Sweeping(p)
  BY <1>t, <1>1, <1>q, SweepingStep DEF Quiet
<1>2. CASE Ends(p)
  <2>1. PICK status \in {"sent", "failed"} :
           row' = [row EXCEPT ![job[p].mail].status = status]
    BY <1>2, EndsStep
  <2>2. job[p].mail \in Mails /\ row[job[p].mail].attempts # 0
    BY <1>2, EndsStep, Held
  <2>3. ASSUME NEW m \in Mails
        PROVE  <<m, "blocked">> \in notices' =>
                  <<m, "blocked">> \in notices \/ row[m].attempts # 0
    BY <1>2, <2>2, EndsStep DEF Kinds
  <2>4. handed' = handed
    BY <1>2, EndsStep
  <2>5. ASSUME NEW m \in Mails
        PROVE  Quiet(m)
    BY <1>t, <2>1, <2>2, <2>3, <2>4 DEF Quiet, TypeOK
  <2> QED BY <1>q, <2>5
<1>3. CASE FailStuck(p)
  BY <1>3, <1>q, FailStuckStep DEF Quiet
<1>4. CASE HandOver(p)
  <2>1. row[job[p].mail].attempts # 0 /\ job[p].mail \notin stale
        /\ <<job[p].mail, "blocked">> \notin notices /\ job[p].mail \in Mails
        /\ ~row[job[p].mail].escalates
    BY <1>4, HandOverStep, Held DEF Busy, HandOver
  <2>2. ASSUME NEW m \in Mails
        PROVE  RowInv(m)'
    <3>1. CASE m # job[p].mail
      BY <1>t, <1>4, <3>1, HandOverStep, QuietRow DEF Quiet, RowsInv
    <3>2. CASE m = job[p].mail
      BY <1>t, <1>4, <2>1, <3>2, HandOverStep DEF RowInv, RowsInv, Watch
    <3> QED BY <3>1, <3>2
  <2> QED BY <1>4, <2>2, HandOverStep DEF RowsInv, Counted
<1>5. ASSUME NEW n \in Mails, Claim(p, n)
      PROVE  RowsInv' /\ Counted
  <2>1. ASSUME NEW m \in Mails
        PROVE  RowInv(m)'
    <3>1. CASE m # n
      BY <1>t, <1>5, <3>1, ClaimStep, QuietRow DEF Quiet, RowsInv
    <3>2. CASE m = n
      BY <1>t, <1>5, <3>2, ClaimStep DEF RowInv, RowsInv, Watch
    <3> QED BY <3>1, <3>2
  <2> QED BY <1>5, <2>1, ClaimStep DEF RowsInv, Counted
<1> QED BY <1>1, <1>2, <1>3, <1>4, <1>5, DispatchCases

LEMMA DispatchOnly ==
    ASSUME QueueInv, NEW p \in Dispatchers, Dispatch(p) \/ Crash(p) \/ Abandon(p)
    PROVE  OnlyBy(p)
<1>t. TypeOK
  BY DEF QueueInv
<1>j. \A q \in Dispatchers : q # p => job'[q] = job[q]
  BY <1>t, OwnJobOnly
<1>1. CASE Sweeping(p)
  BY <1>t, <1>j, <1>1, SweepingStep DEF OnlyBy
<1>2. CASE Ends(p)
  BY <1>j, <1>2, EndsStep, Held DEF OnlyBy, Kinds
<1>3. CASE FailStuck(p)
  BY <1>j, <1>3, FailStuckStep DEF OnlyBy
<1>4. CASE HandOver(p)
  BY <1>j, <1>4, HandOverStep, Held DEF OnlyBy, Busy
<1>5. ASSUME NEW n \in Mails, Claim(p, n)
      PROVE  OnlyBy(p)
  BY <1>j, <1>5, ClaimStep DEF OnlyBy
<1> QED BY <1>1, <1>2, <1>3, <1>4, <1>5, DispatchCases

\* Where a dispatcher may come to hold a mail: it claims it, or held it already.
LEMMA DispatchOwner ==
    ASSUME QueueInv, NEW p \in Dispatchers, Dispatch(p) \/ Crash(p) \/ Abandon(p),
           NEW m \in Mails, Holds(p, m)'
    PROVE  Holds(p, m) \/ Claim(p, m)
<1>1. CASE Sweeping(p)
  BY <1>1 DEF Sweeping, Sweep, List, RunEnds, Clear, Raise, Crash, Abandon, Skip, Holds, Busy,
              At, Rest, Idle, QueueInv, TypeOK
<1>2. CASE Ends(p)
  <2>1. job' = [job EXCEPT ![p] = [pc |-> "run", todo |-> job[p].todo \ {job[p].mail}]]
    BY <1>2, EndsStep
  <2>2. job'[p].pc = "run"
    BY <2>1 DEF QueueInv, TypeOK
  <2> QED BY <2>2 DEF Holds, Busy
<1>3. CASE FailStuck(p)
  BY <1>3, FailStuckStep DEF Holds, Busy
<1>4. CASE HandOver(p)
  BY <1>4, HandOverStep DEF Holds, Busy
<1>5. ASSUME NEW n \in Mails, Claim(p, n)
      PROVE  Claim(p, m)
  BY <1>5, ClaimStep, ZenonT(60) DEF Holds
<1> QED BY <1>1, <1>2, <1>3, <1>4, <1>5, DispatchCases

LEMMA DispatchJob ==
    ASSUME QueueInv, Watch, RowsInv', Counted,
           NEW p \in Dispatchers, Dispatch(p) \/ Crash(p) \/ Abandon(p)
    PROVE  JobInv(p)'
<1>t. TypeOK
  BY DEF QueueInv
<1>1. ASSUME Sweep(p)
      PROVE  JobInv(p)'
  <2>1. job'[p].pc = "swept" /\ job'[p].stuck = Stuck /\ row' = row
    BY <1>t, <1>1 DEF Sweep, TypeOK
  <2>2. \A m \in Stuck : row[m].attempts # 0
    BY DEF Stuck, QueueInv, RowsInv, RowInv
  <2> QED BY <2>1, <2>2 DEF JobInv, Holds, Busy
<1>2. ASSUME \/ List(p) \/ RunEnds(p) \/ Crash(p) \/ Abandon(p) \/ Ends(p) \/ FailStuck(p)
             \/ \E m \in Mails : Skip(p, m)
      PROVE  JobInv(p)'
  <2>1. job'[p].pc \in {"idle", "listing", "run"}
    BY <1>t, <1>2 DEF List, RunEnds, Crash, Abandon, Ends, Block, Fail, Finish, Escalate, FailStuck,
                      Skip, Rest, Idle, TypeOK
  <2> QED BY <2>1 DEF JobInv, Holds, Busy
<1>3. ASSUME Clear(p) \/ Raise(p)
      PROVE  JobInv(p)'
  <2> DEFINE m == job[p].mail
  <2>1. job[p].pc \in Busy /\ m \in Mails
    BY <1>3, <1>t, JobKinds DEF Clear, Raise, Busy
  <2>2. /\ row[m].attempts # 0 /\ <<m, "blocked">> \notin notices
        /\ job[p].pc = "claimed" => handed[m] = 0
    BY <2>1, Held
  <2>3. /\ job'[p].mail = m
        /\ \/ job'[p].pc = "cleared" /\ job[p].pc = "claimed" /\ ~Blocked(m)
           \/ job'[p].pc = "raised"
    BY <1>3, <1>t DEF Clear, Raise, At, TypeOK
  <2>4. UNCHANGED <<row, handed, notices>>
    BY <1>3 DEF Clear, Raise
  <2>5. ASSUME ~Blocked(m)
        PROVE  m \notin stale
    BY <1>t, <2>1, <2>5 DEF Blocked, Overtaken, QueueInv, RowsInv, RowInv, TypeOK
  <2>6. job'[p].pc = "cleared" => m \notin stale'
    BY <1>t, <2>1, <2>2, <2>3, <2>4, <2>5, ClaimedStaysFresh DEF RowsInv
  <2> QED BY <2>2, <2>3, <2>4, <2>6 DEF JobInv, Holds
<1>4. ASSUME HandOver(p)
      PROVE  JobInv(p)'
  BY <1>4, HandOverStep, Held DEF JobInv, Holds, Busy
<1>5. ASSUME NEW m \in Mails, Claim(p, m)
      PROVE  JobInv(p)'
  <2>1. /\ job'[p].pc = "claimed" /\ job'[p].mail = m
        /\ row'[m].attempts = 1 /\ handed'[m] = 0 /\ <<m, "blocked">> \notin notices'
    BY <1>5, ClaimStep
  <2> QED BY <2>1 DEF JobInv, Holds
<1> QED BY <1>1, <1>2, <1>3, <1>4, <1>5, DispatchCases DEF Sweeping

LEMMA DispatchNotices ==
    ASSUME QueueInv, NEW p \in Dispatchers, Dispatch(p) \/ Crash(p) \/ Abandon(p)
    PROVE  NoticesAreHonest' /\ OutcomeIsReported' /\ CancelInv'
<1>c. cancelling' = cancelling
  BY DEF Dispatch, Sweep, FailStuck, List, Claim, Skip, RunEnds, Block, Clear, HandOver, Raise,
         Fail, Finish, Escalate, Crash, Abandon, users
<1> USE DEF NoticesAreHonest, OutcomeIsReported, CancelInv
<1>t. TypeOK /\ NoticesAreHonest /\ OutcomeIsReported /\ CancelInv
  BY DEF QueueInv
<1>1. CASE Sweeping(p)
  BY <1>t, <1>c, <1>1, SweepingStep
<1>2. CASE Ends(p)
  <2> DEFINE m == job[p].mail
  <2>1. PICK status \in {"sent", "failed"} : row' = [row EXCEPT ![m].status = status]
    BY <1>2, EndsStep
  <2>2. /\ m \in Mails
        /\ job[p].pc = "claimed" => handed[m] = 0
        /\ job[p].pc = "handed" => handed[m] = 1
    BY <1>2, EndsStep, Held
  <2>3. \A n \in Mails : n # m => row'[n] = row[n]
    BY <1>t, <2>1 DEF TypeOK
  <2>4. row'[m].status \in {"sent", "failed"}
    BY <1>t, <2>1, <2>2 DEF TypeOK
  <2>5. NoticesAreHonest'
    <3>1. \A n \in Mails, k \in Kinds : n # m /\ <<n, k>> \in notices' => <<n, k>> \in notices
      BY <1>2, EndsStep
    <3>2. /\ handed' = handed
          /\ <<m, "blocked">> \in notices' => <<m, "blocked">> \in notices \/ handed[m] = 0
          /\ <<m, "mail_sent">> \in notices' => <<m, "mail_sent">> \in notices \/ handed[m] = 1
      BY <1>2, <2>2, EndsStep
    <3> QED BY <1>t, <3>1, <3>2 DEF Kinds
  <2>8. /\ handed' = handed /\ notices \subseteq notices'
        /\ row'[m].status = "sent" => (handed[m] = 0 <=> row'[m].escalates)
        /\ row'[m].status = "failed" => \E n \in notices' : Subject[n[1]] = Subject[m]
    <3>1. /\ handed' = handed /\ notices \subseteq notices'
          /\ row'[m].escalates = row[m].escalates
          /\ row'[m].status = "sent" => (job[p].pc = IF row[m].escalates THEN "cleared" ELSE "handed")
          /\ row'[m].status = "failed" => \E n \in notices' : Subject[n[1]] = Subject[m]
      BY <1>2, EndsStep
    <3>2. /\ job[p].pc = "cleared" => handed[m] = 0
          /\ job[p].pc = "handed" => handed[m] = 1
      BY <1>2, EndsStep, Held
    <3> QED BY <3>1, <3>2
  <2>6. OutcomeIsReported'
    <3>1. ASSUME NEW n \in Mails, n # m, row'[n].status = "failed"
          PROVE  \E k \in notices' : Subject[k[1]] = Subject[n]
      BY <1>t, <2>3, <2>8, <3>1
    <3> QED BY <1>t, <2>3, <2>8, <3>1
  <2>7. CancelInv'
    BY <1>t, <1>c, <2>3, <2>4
  <2> QED BY <2>5, <2>6, <2>7
<1>3. CASE FailStuck(p)
  BY <1>t, <1>c, <1>3, FailStuckStep
<1>4. CASE HandOver(p)
  <2>1. handed[job[p].mail] = 0 /\ <<job[p].mail, "blocked">> \notin notices
    BY <1>4, HandOverStep, Held DEF Busy
  <2>2. row[job[p].mail].status # "sent" \/ ~row[job[p].mail].escalates
    BY <1>4 DEF HandOver
  <2>3. NoticesAreHonest' /\ CancelInv'
    BY <1>t, <1>c, <1>4, <2>1, HandOverStep
  <2>4. OutcomeIsReported'
    BY <1>t, <1>4, <2>1, <2>2, HandOverStep
  <2> QED BY <2>3, <2>4
<1>5. ASSUME NEW n \in Mails, Claim(p, n)
      PROVE  NoticesAreHonest' /\ OutcomeIsReported' /\ CancelInv'
  <2>1. /\ UNCHANGED <<handed, notices>> /\ row'[n].status = "sending"
        /\ \A m \in Mails : m # n => row'[m] = row[m]
    BY <1>5, ClaimStep
  <2>2. NoticesAreHonest'
    BY <1>t, <2>1
  <2>3. OutcomeIsReported'
    BY <1>t, <2>1
  <2>4. CancelInv'
    BY <1>t, <1>c, <2>1
  <2> QED BY <2>2, <2>3, <2>4
<1> QED BY <1>1, <1>2, <1>3, <1>4, <1>5, DispatchCases

LEMMA DispatchKeeps ==
    ASSUME QueueInv, Watch, NEW p \in Dispatchers, Dispatch(p) \/ Crash(p) \/ Abandon(p)
    PROVE  QueueInv'
<1>1. TypeOK'
  BY DispatchTypes DEF QueueInv
<1>2. RowsInv' /\ Counted
  BY DispatchRows
<1>3. \A q \in Dispatchers : q # p => JobInv(q)'
  BY <1>2, DispatchOnly, OthersUndisturbed, UndisturbedJob DEF QueueInv, JobsInv
<1>4. JobInv(p)'
  BY <1>2, DispatchJob
<1>5. OneOwner'
  <2>1. ASSUME NEW m \in Mails, NEW q \in Dispatchers, q # p, Holds(q, m)'
        PROVE  Holds(q, m)
    BY <2>1, DispatchOnly DEF OnlyBy, Holds
  <2>2. ASSUME NEW m \in Mails, NEW q \in Dispatchers, q # p, Holds(q, m)', Holds(p, m)'
        PROVE  FALSE
    BY <2>1, <2>2, DispatchOwner, ClaimStep DEF QueueInv, OneOwner
  <2>3. ASSUME NEW m \in Mails, NEW q \in Dispatchers, NEW r \in Dispatchers, q # p, r # p,
               Holds(q, m)', Holds(r, m)'
        PROVE  q = r
    BY <2>1, <2>3 DEF QueueInv, OneOwner
  <2> QED BY <2>2, <2>3 DEF OneOwner
<1>6. NoticesAreHonest' /\ OutcomeIsReported' /\ CancelInv'
  BY DispatchNotices
<1> QED BY <1>1, <1>2, <1>3, <1>4, <1>5, <1>6 DEF QueueInv, JobsInv

-----------------------------------------------------------------------------
(* The theorems about states.                                              *)

LEMMA QueueInit == Init => QueueInv
<1> SUFFICES ASSUME Init
             PROVE  QueueInv
  OBVIOUS
<1> USE DEF Init, NoMail, Idle
<1>1. TypeOK
  BY BoundAssumption DEF TypeOK
<1>2. RowsInv
  BY DEF RowsInv, RowInv
<1>3. JobsInv /\ OneOwner
  BY DEF JobsInv, JobInv, OneOwner, Holds, Busy
<1>4. CancelInv /\ NoticesAreHonest /\ OutcomeIsReported
  BY DEF CancelInv, NoticesAreHonest, OutcomeIsReported
<1> QED BY <1>1, <1>2, <1>3, <1>4 DEF QueueInv

LEMMA QueueStep == QueueInv /\ [Next]_vars => QueueInv'
<1>1. ASSUME QueueInv, Next
      PROVE  QueueInv'
  BY <1>1, UserKeeps, DispatchKeeps DEF Next
<1>2. ASSUME QueueInv, UNCHANGED vars
      PROVE  QueueInv'
  BY <1>2 DEF vars, QueueInv, TypeOK, RowsInv, RowInv, JobsInv, JobInv, Holds, OneOwner,
              CancelInv, NoticesAreHonest, OutcomeIsReported, Overtaken
<1> QED BY <1>1, <1>2

\* The queue: rows, jobs and notices tell one story, and a mail in flight has one owner.
THEOREM QueueInvariant == Spec => []QueueInv
BY QueueInit, QueueStep, PTL DEF Spec

\* "Er is niets verstuurd" is only said when nothing was, "de mail zelf IS verstuurd"
\* only when it was, and both stay true, whoever sweeps, cancels or dies.
THEOREM NoticesHonest == Spec => []NoticesAreHonest
BY QueueInvariant, PTL DEF QueueInv

\* A failure leaves a notice with the subject of the mail, and a mail listed as sent has
\* left.
THEOREM OutcomesReported == Spec => []OutcomeIsReported
BY QueueInvariant, PTL DEF QueueInv

\* What was overtaken while it waited, and still is, does not reach the provider.
THEOREM NothingStale == Spec => []NothingStaleIsMailed
<1>1. QueueInv => NothingStaleIsMailed
  BY DEF QueueInv, RowsInv, RowInv, NothingStaleIsMailed, TypeOK
<1> QED BY <1>1, QueueInvariant, PTL

-----------------------------------------------------------------------------
(* The refinement of MailPromise.  A mail that was claimed is taken, and   *)
(* stays taken whatever its status becomes; so only four steps of the      *)
(* queue are steps of the promise.                                         *)

Fates == [m \in Mails |-> Fate(m)]

FateKept(m) ==
    /\ row'[m].attempts = row[m].attempts
    /\ row[m].attempts # 0 \/ row'[m].status = row[m].status

LEMMA FateStays ==
    ASSUME TypeOK, NEW m \in Mails, FateKept(m)
    PROVE  Fate(m)' = Fate(m)
BY DEF TypeOK, Fate, FateKept

LEMMA FatesStay ==
    ASSUME TypeOK, \A m \in Mails : FateKept(m), UNCHANGED handed
    PROVE  UNCHANGED <<Fates, handed>>
BY FateStays DEF Fates

\* One mail changes its fate.
LEMMA FateMoves ==
    ASSUME TypeOK, NEW m \in Mails, \A n \in Mails : n # m => row'[n] = row[n]
    PROVE  Fates' = [Fates EXCEPT ![m] = Fate(m)']
<1>1. \A n \in Mails : n # m => Fate(n)' = Fate(n)
  BY FateStays DEF FateKept
<1> QED BY <1>1 DEF Fates

LEMMA UserMaps ==
    ASSUME QueueInv, User \/ \E m \in Mails : Time(m)
    PROVE  [Promise!Next]_<<Fates, handed>>
<1>t. TypeOK
  BY DEF QueueInv
<1>h. handed' = handed
  BY UserWrites DEF UserEffect
<1>1. CASE row' = row
  BY <1>t, <1>h, <1>1, FatesStay DEF FateKept
<1>2. ASSUME NEW m \in Mails, NEW d \in Drafts \cup {NoDraft}, NEW e \in BOOLEAN,
             row[m] = NoMail,
             row' = [row EXCEPT ![m] = [status |-> "pending", draft |-> d, attempts |-> 0,
                                        escalates |-> e]]
      PROVE  Promise!Next
  <2>1. Fates' = [Fates EXCEPT ![m] = Fate(m)']
    BY <1>t, <1>2, FateMoves DEF TypeOK
  <2>2. row'[m].status = "pending" /\ row'[m].attempts = 0
    BY <1>t, <1>2 DEF TypeOK
  <2>3. Fate(m) = "none" /\ Fate(m)' = "waiting"
    BY <1>2, <2>2 DEF Fate, NoMail
  <2> QED BY <1>h, <2>1, <2>3 DEF Promise!Next, Promise!Plan, Fates
<1>3. ASSUME NEW m \in Mails, NEW s \in {"pending", "failed"}, <<m, s>> \in cancelling,
             row' = [row EXCEPT ![m].status = "cancelled"]
      PROVE  [Promise!Next]_<<Fates, handed>>
  <2>1. /\ row'[m].status = "cancelled" /\ row'[m].attempts = row[m].attempts
        /\ \A n \in Mails : n # m => row'[n] = row[n]
    BY <1>t, <1>3 DEF TypeOK
  <2>2. row[m].status # "none"
    BY <1>3 DEF QueueInv, CancelInv
  <2>3. CASE row[m].attempts # 0 \/ row[m].status = "cancelled"
    BY <1>t, <1>h, <2>1, <2>3, FatesStay DEF FateKept
  <2>4. CASE row[m].attempts = 0 /\ row[m].status # "cancelled"
    <3>1. row[m].status = "pending"
      BY <2>2, <2>4 DEF QueueInv, RowsInv, RowInv
    <3>2. Fate(m) = "waiting" /\ Fate(m)' = "withdrawn"
      BY <2>1, <2>4, <3>1 DEF Fate
    <3>3. Fates' = [Fates EXCEPT ![m] = Fate(m)']
      BY <1>t, <2>1, FateMoves
    <3> QED BY <1>h, <3>2, <3>3 DEF Promise!Next, Promise!Withdraw, Fates
  <2> QED BY <2>3, <2>4
<1> QED BY <1>1, <1>2, <1>3, UserWrites DEF UserEffect

LEMMA DispatchMaps ==
    ASSUME QueueInv, NEW p \in Dispatchers, Dispatch(p) \/ Crash(p) \/ Abandon(p)
    PROVE  [Promise!Next]_<<Fates, handed>>
<1>t. TypeOK
  BY DEF QueueInv
<1>1. CASE Sweeping(p)
  BY <1>t, <1>1, SweepingStep, FatesStay DEF FateKept
<1>2. CASE Ends(p)
  <2>1. PICK status \in {"sent", "failed"} :
           row' = [row EXCEPT ![job[p].mail].status = status]
    BY <1>2, EndsStep
  <2>2. job[p].mail \in Mails /\ row[job[p].mail].attempts # 0 /\ handed' = handed
    BY <1>2, EndsStep, Held
  <2>3. \A m \in Mails : FateKept(m)
    BY <1>t, <2>1, <2>2 DEF FateKept, TypeOK
  <2> QED BY <1>t, <2>2, <2>3, FatesStay
<1>3. CASE FailStuck(p)
  <2>1. (\A m \in Mails : FateKept(m)) /\ handed' = handed
    BY <1>3, FailStuckStep DEF FateKept
  <2> QED BY <1>t, <2>1, FatesStay
<1>4. CASE HandOver(p)
  <2> DEFINE m == job[p].mail
  <2>1. m \in Mails /\ handed[m] = 0 /\ row[m].attempts # 0 /\ row' = row
    BY <1>4, HandOverStep, Held DEF Busy
  <2>2. handed' = [handed EXCEPT ![m] = 1]
    BY <1>t, <1>4, <2>1 DEF HandOver, TypeOK
  <2>3. Fate(m) = "taken"
    <3>1. row[m].attempts > 0
      BY <1>t, <2>1 DEF TypeOK
    <3> QED BY <3>1 DEF Fate
  <2>4. Fates' = Fates
    BY <2>1 DEF Fates, Fate
  <2> QED BY <2>1, <2>2, <2>3, <2>4 DEF Promise!Next, Promise!Deliver, Fates
<1>5. ASSUME NEW m \in Mails, Claim(p, m)
      PROVE  Promise!Next
  <2>1. /\ row[m].attempts = 0 /\ row'[m].attempts = 1 /\ handed' = handed
        /\ \A n \in Mails : n # m => row'[n] = row[n]
    BY <1>5, ClaimStep
  <2>2. row[m].status = "pending"
    BY <1>5 DEF Claim, Claimable
  <2>3. Fate(m) = "waiting" /\ Fate(m)' = "taken"
    <3>1. ~(row[m].attempts > 0) /\ row'[m].attempts > 0
      BY <2>1
    <3> QED BY <2>2, <3>1 DEF Fate
  <2>4. Fates' = [Fates EXCEPT ![m] = Fate(m)']
    BY <1>t, <2>1, FateMoves
  <2> QED BY <2>1, <2>3, <2>4 DEF Promise!Next, Promise!Take, Fates
<1> QED BY <1>1, <1>2, <1>3, <1>4, <1>5, DispatchCases

\* The queue implements its promise: at most one hand-over per mail, never after it was
\* withdrawn while waiting, and no second attempt.
THEOREM QueueKeepsPromise == Spec => KeepsPromise
<1>1. Init => Promise!Init
  BY DEF Init, Promise!Init, Fate, NoMail
<1>2. QueueInv /\ [Next]_vars => [Promise!Next]_<<Fates, handed>>
  <2>1. ASSUME QueueInv, Next
        PROVE  [Promise!Next]_<<Fates, handed>>
    BY <2>1, UserMaps, DispatchMaps DEF Next
  <2>2. ASSUME UNCHANGED vars
        PROVE  UNCHANGED <<Fates, handed>>
    BY <2>2 DEF vars, Fates, Fate
  <2> QED BY <2>1, <2>2
<1>3. QueueInv /\ [Next]_vars => [Promise!Next]_<<[m \in Mails |-> Fate(m)], handed>>
  BY <1>2 DEF Fates
<1> QED BY <1>1, <1>3, QueueInvariant, PTL DEF Spec, KeepsPromise, Promise!Spec
=============================================================================
