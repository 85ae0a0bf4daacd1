----------------------------- MODULE ScheduledMail -----------------------------
(***************************************************************************)
(* The queue behind "Verstuur later" (app/email/scheduled_service.py).     *)
(*                                                                         *)
(* A dispatcher is one run of the minute job send_due_scheduled_emails in  *)
(* one process of the application: it sweeps claims that hang, reads what  *)
(* is due, and takes those rows one at a time.  A row is claimed by one    *)
(* conditional UPDATE that is committed before anything reaches the mail   *)
(* provider.  Users plan and cancel meanwhile, and a process may die       *)
(* between any two steps; what it had not committed is then lost.  The     *)
(* order of scheduled_at is left out: any due rows may be taken first.     *)
(*                                                                         *)
(* A mail may carry an AI draft, which a user can also send by hand (the   *)
(* frontend mails it and calls advance-after-send in a second request).    *)
(* The payload, the recipients and the three kinds of mail are abstracted: *)
(* every kind ends in one call of the provider or an exception.  One kind  *)
(* mails nothing: a planned follow-up whose advice is to escalate puts a   *)
(* task on the worklist, and is "sent" all the same.                       *)
(***************************************************************************)
EXTENDS Naturals, FiniteSets

CONSTANTS
    Mails,        \* the rows that may be planned
    Advised,      \* those among them that may carry out an advice to escalate
    Drafts,       \* the AI drafts
    NoDraft,
    Subject,      \* Subject[m]: the subject and the case of mail m
    Dispatchers,  \* processes that run the minute job
    Limit,        \* LIMIT of the query for due rows (50 in the code)
    MaxFaults     \* bound: how often a process dies or the database fails it

ASSUME NoDraftAssumption == NoDraft \notin Drafts
ASSUME BoundAssumption == Limit \in Nat \ {0} /\ MaxFaults \in Nat

VARIABLES
    row,         \* row[m]: status, draft and attempts of the queue row, and whether it
                 \* carries out an advice to escalate
    ripe,        \* the mails whose scheduled_at has passed
    old,         \* the mails whose claim is older than STUCK_CLAIM_MINUTES
    halted,      \* the mails whose case was closed or whose planner is gone
    draft,       \* draft[d]: status of AI draft d
    job,         \* job[p]: what dispatcher p is doing
    cancelling,  \* the mails a cancel request has read as waiting or failed
    notices,     \* the notifications shown to the office
    handed,      \* history: how often mail m was handed to the provider
    byHand,      \* the drafts mailed by hand
    promised,    \* history: mails whose cancellation was confirmed while waiting
    stale,       \* history: mails that were blocked while waiting, and still are
    faults       \* how many faults there were

vars == <<row, ripe, old, halted, draft, job, cancelling, notices, handed, byHand,
          promised, stale, faults>>

world == <<ripe, halted, draft, byHand>>
users == <<cancelling, promised>>

NoMail == [status |-> "none", draft |-> NoDraft, attempts |-> 0, escalates |-> FALSE]

Idle == [pc |-> "idle"]

-----------------------------------------------------------------------------
(* _notify_failure: a notification about mail m is one of "blocked" (nothing *)
(* was sent), "uncertain" and "mail_sent" (only what follows it failed).     *)

\* The title tells the first two from the last, and names the subject only.
Title(n) == <<Subject[n[1]], n[2] = "mail_sent">>

\* Mutant of Report: nobody is told.
Silent(mails, notice) == mails \subseteq Mails /\ notice # "" /\ UNCHANGED notices

\* Each of the mails gets its notification, unless one with the same title exists and
\* is less than an hour old.
Report(mails, notice) ==
    \E told \in SUBSET mails :
        /\ notices' = notices \cup (told \X {notice})
        /\ \A m \in mails \ told : \E n \in notices' : Title(n) = Title(<<m, notice>>)

-----------------------------------------------------------------------------
(* Users: schedule_compose_email, schedule_batch_send and                  *)
(* schedule_followup_execute, cancel_scheduled_email, and a draft that is  *)
(* sent by hand or discarded.                                              *)

\* Only a composed mail carries a draft.
Schedule(m, d, escalates) ==
    /\ row[m] = NoMail
    /\ escalates => m \in Advised /\ d = NoDraft
    /\ row' = [row EXCEPT ![m] = [status |-> "pending", draft |-> d, attempts |-> 0,
                                  escalates |-> escalates]]
    /\ UNCHANGED <<world, users, old, job, notices, handed, faults>>

\* cancel_scheduled_email reads the row ...
BeginCancel(m) ==
    /\ row[m].status \in {"pending", "failed"}
    /\ cancelling' = cancelling \cup {<<m, row[m].status>>}
    /\ UNCHANGED <<world, row, old, job, notices, handed, promised, faults>>

\* ... and writes by primary key, whatever the status has become.
Cancel(m, loaded) ==
    /\ <<m, loaded>> \in cancelling
    /\ row' = [row EXCEPT ![m].status = "cancelled"]
    /\ cancelling' = cancelling \ {<<m, loaded>>}
    /\ promised' = IF loaded = "pending" THEN promised \cup {m} ELSE promised
    /\ UNCHANGED <<world, old, job, notices, handed, faults>>

MailByHand(d) ==
    /\ draft[d] = "open"
    /\ d \notin byHand
    /\ byHand' = byHand \cup {d}
    /\ UNCHANGED <<row, ripe, old, halted, draft, job, users, notices, handed, faults>>

CompleteByHand(d) ==
    /\ d \in byHand
    /\ draft' = [draft EXCEPT ![d] = "sent"]
    /\ UNCHANGED <<row, ripe, old, halted, job, users, notices, handed, byHand, faults>>

\* The status of a draft is set without looking at the one it had; the states
\* before sent and discarded are one here: open.
SetDraft(d, status) ==
    /\ draft[d] # status
    /\ draft' = [draft EXCEPT ![d] = status]
    /\ UNCHANGED <<row, ripe, old, halted, job, users, notices, handed, byHand, faults>>

\* The case of a planned mail is closed, or the user who planned it is deleted.
Halt(m) ==
    /\ m \notin halted
    /\ row[m] # NoMail
    /\ halted' = halted \cup {m}
    /\ UNCHANGED <<row, ripe, old, draft, job, users, notices, handed, byHand, faults>>

\* The case is opened again.
Reopen(m) ==
    /\ m \in halted
    /\ halted' = halted \ {m}
    /\ UNCHANGED <<row, ripe, old, draft, job, users, notices, handed, byHand, faults>>

-----------------------------------------------------------------------------
(* Time.                                                                   *)

Ripen(m) ==
    /\ row[m] # NoMail
    /\ m \notin ripe
    /\ ripe' = ripe \cup {m}
    /\ UNCHANGED <<row, old, halted, draft, job, users, notices, handed, byHand, faults>>

Age(m) ==
    /\ row[m].status = "sending"
    /\ m \notin old
    /\ old' = old \cup {m}
    /\ UNCHANGED <<world, row, job, users, notices, handed, faults>>

-----------------------------------------------------------------------------
(* _fail_stuck_claims and the query for due rows.                          *)

\* Mutant of Stuck: nobody looks for claims that hang.
NoneStuck == {}

Stuck == {m \in Mails : row[m].status = "sending" /\ m \in old}

Sweep(p) ==
    /\ job[p].pc = "idle"
    /\ job' = [job EXCEPT ![p] = [pc |-> "swept", stuck |-> Stuck]]
    /\ UNCHANGED <<world, users, row, old, notices, handed, faults>>

\* Mutant of AfterSweep: a claim that hangs is put back in the queue.
Requeued(r) == [r EXCEPT !.status = "pending"]

\* Nobody knows whether the provider sent it: failed, never tried again.
AfterSweep(r) == [r EXCEPT !.status = "failed"]

FailStuck(p) ==
    /\ job[p].pc = "swept"
    /\ LET stuck == job[p].stuck
       IN  /\ row' = [m \in Mails |-> IF m \in stuck THEN AfterSweep(row[m]) ELSE row[m]]
           /\ Report(stuck, "uncertain")
    /\ job' = [job EXCEPT ![p] = [pc |-> "listing"]]
    /\ UNCHANGED <<world, users, old, handed, faults>>

\* Mutant of Due: mails of a closed case are not looked for.
DueInOpenCase == {m \in ripe \ halted : row[m].status = "pending"}

Due == {m \in ripe : row[m].status = "pending"}

List(p) ==
    /\ job[p].pc = "listing"
    /\ \E todo \in SUBSET Due :
          /\ Cardinality(todo) <= Limit
          /\ Cardinality(todo) = Limit \/ todo = Due
          /\ job' = [job EXCEPT ![p] = [pc |-> "run", todo |-> todo]]
    /\ UNCHANGED <<world, users, row, old, notices, handed, faults>>

-----------------------------------------------------------------------------
(* _claim and _send_one.                                                   *)

\* Mutant of Claimable: the claim does not look at the status.
AlwaysClaimable(m) == row[m] # NoMail

\* The WHERE of the claiming UPDATE.
Claimable(m) == row[m].status = "pending"

\* Dispatcher p goes on with the rest of its list.
Rest(p) == job' = [job EXCEPT ![p] = [pc |-> "run", todo |-> job[p].todo \ {job[p].mail}]]

At(p, pc, m) == job' = [job EXCEPT ![p] = [pc |-> pc, mail |-> m, todo |-> job[p].todo]]

Claim(p, m) ==
    /\ job[p].pc = "run"
    /\ m \in job[p].todo
    /\ Claimable(m)
    /\ row' = [row EXCEPT ![m].status = "sending", ![m].attempts = @ + 1]
    /\ old' = old \ {m}
    /\ At(p, "claimed", m)
    /\ UNCHANGED <<world, users, notices, handed, faults>>

\* Somebody else had it, or it was cancelled.
Skip(p, m) ==
    /\ job[p].pc = "run"
    /\ m \in job[p].todo
    /\ ~Claimable(m)
    /\ job' = [job EXCEPT ![p].todo = @ \ {m}]
    /\ UNCHANGED <<world, users, row, old, notices, handed, faults>>

RunEnds(p) ==
    /\ job[p] = [pc |-> "run", todo |-> {}]
    /\ job' = [job EXCEPT ![p] = Idle]
    /\ UNCHANGED <<world, users, row, old, notices, handed, faults>>

\* Mutant of Blocked: the draft is not looked at.
CaseBlocked(m) == m \in halted

\* _send_one's guards and _pre_send_blokkade.
Blocked(m) ==
    \/ m \in halted
    \/ row[m].draft # NoDraft /\ draft[row[m].draft] \in {"sent", "discarded"}

Block(p) ==
    LET m == job[p].mail
    IN  /\ job[p].pc = "claimed"
        /\ Blocked(m)
        /\ row' = [row EXCEPT ![m].status = "failed"]
        /\ Report({m}, "blocked")
        /\ Rest(p)
        /\ UNCHANGED <<world, users, old, handed, faults>>

\* No guard looks at the status of the row again.
Clear(p) ==
    /\ job[p].pc = "claimed"
    /\ ~Blocked(job[p].mail)
    /\ At(p, "cleared", job[p].mail)
    /\ UNCHANGED <<world, users, row, old, notices, handed, faults>>

HandOver(p) ==
    LET m == job[p].mail
    IN  /\ job[p].pc = "cleared"
        /\ ~row[m].escalates
        /\ handed' = [handed EXCEPT ![m] = @ + 1]
        /\ At(p, "handed", m)
        /\ UNCHANGED <<world, users, row, old, notices, faults>>

\* An exception before the provider took the mail, or after it did.
Raise(p) ==
    /\ job[p].pc \in {"cleared", "handed"}
    /\ At(p, "raised", job[p].mail)
    /\ UNCHANGED <<world, users, row, old, notices, handed, faults>>

Fail(p) ==
    LET m == job[p].mail
    IN  /\ job[p].pc = "raised"
        /\ row' = [row EXCEPT ![m].status = "failed"]
        /\ Report({m}, "uncertain")
        /\ Rest(p)
        /\ UNCHANGED <<world, users, old, handed, faults>>

\* The mail is gone: sent, and the draft is completed with it in one commit; when
\* what follows the sending fails, the mail stays sent and the office is told.
Finish(p) ==
    LET m == job[p].mail
        d == row[m].draft
    IN  /\ job[p].pc = "handed"
        /\ row' = [row EXCEPT ![m].status = "sent"]
        /\ \/ /\ draft' = IF d = NoDraft THEN draft ELSE [draft EXCEPT ![d] = "sent"]
              /\ UNCHANGED notices
           \/ Report({m}, "mail_sent") /\ UNCHANGED draft
        /\ Rest(p)
        /\ UNCHANGED <<ripe, halted, byHand, users, old, handed, faults>>

\* execute_recommendation of an advice to escalate: a task, no mail; the row is written
\* sent like the others.
Escalate(p) ==
    LET m == job[p].mail
    IN  /\ job[p].pc = "cleared"
        /\ row[m].escalates
        /\ row' = [row EXCEPT ![m].status = "sent"]
        /\ Rest(p)
        /\ UNCHANGED <<world, users, old, notices, handed, faults>>

\* The process dies, or the query for due rows raises.
Crash(p) ==
    /\ job[p] # Idle
    /\ faults < MaxFaults
    /\ faults' = faults + 1
    /\ job' = [job EXCEPT ![p] = Idle]
    /\ UNCHANGED <<world, users, row, old, notices, handed>>

\* The database refuses one mail's transaction: rolled back, and on to the next mail.
Abandon(p) ==
    /\ job[p].pc \in {"claimed", "cleared", "handed", "raised"}
    /\ faults < MaxFaults
    /\ faults' = faults + 1
    /\ Rest(p)
    /\ UNCHANGED <<world, users, row, old, notices, handed>>

-----------------------------------------------------------------------------
Init ==
    /\ row = [m \in Mails |-> NoMail]
    /\ ripe = {} /\ old = {} /\ halted = {}
    /\ draft = [d \in Drafts |-> "open"]
    /\ job = [p \in Dispatchers |-> Idle]
    /\ cancelling = {} /\ notices = {}
    /\ handed = [m \in Mails |-> 0]
    /\ byHand = {} /\ promised = {} /\ stale = {}
    /\ faults = 0

\* The world has overtaken mail m: its case is closed, or its draft was dealt with.
Overtaken(m) ==
    \/ m \in halted
    \/ row[m].draft # NoDraft /\ draft[row[m].draft] # "open"

\* A mail is stale from when it is overtaken while it waits until it no longer is.
Watch ==
    stale' = {m \in Mails : Overtaken(m)' /\ (m \in stale \/ row'[m].status = "pending")}

User ==
    \/ \E m \in Mails :
         \/ \E d \in Drafts \cup {NoDraft}, escalates \in BOOLEAN : Schedule(m, d, escalates)
         \/ BeginCancel(m)
         \/ \E loaded \in {"pending", "failed"} : Cancel(m, loaded)
         \/ Halt(m) \/ Reopen(m)
    \/ \E d \in Drafts :
         \/ MailByHand(d) \/ CompleteByHand(d)
         \/ \E status \in {"open", "sent", "discarded"} : SetDraft(d, status)

Time(m) == Ripen(m) \/ Age(m)

\* What dispatcher p does with the mails.
Dispatch(p) ==
    \/ Sweep(p) \/ FailStuck(p) \/ List(p) \/ RunEnds(p)
    \/ \E m \in Mails : Claim(p, m) \/ Skip(p, m)
    \/ Block(p) \/ Clear(p) \/ HandOver(p) \/ Raise(p) \/ Fail(p) \/ Finish(p) \/ Escalate(p)

Next ==
    /\ \/ User
       \/ \E m \in Mails : Time(m)
       \/ \E p \in Dispatchers : Dispatch(p) \/ Crash(p) \/ Abandon(p)
    /\ Watch

Spec == Init /\ [][Next]_vars

\* The minute job runs again and again and a call of the provider ends (by an answer
\* or a timeout); the moment planned for a mail comes, and so does the moment that a
\* claim is ten minutes old.
FairSpec ==
    /\ Spec
    /\ \A p \in Dispatchers : WF_vars(Dispatch(p) /\ Watch)
    /\ \A m \in Mails : WF_vars(Ripen(m) /\ Watch) /\ WF_vars(Age(m) /\ Watch)

-----------------------------------------------------------------------------
(* Properties                                                              *)

\* Type invariant of the mail queue.
TypeOK ==
    /\ row \in [Mails -> [status : {"none", "pending", "sending", "sent", "failed", "cancelled"},
                          draft : Drafts \cup {NoDraft}, attempts : Nat, escalates : BOOLEAN]]
    /\ ripe \subseteq Mails /\ old \subseteq Mails /\ halted \subseteq Mails
    /\ draft \in [Drafts -> {"open", "sent", "discarded"}]
    /\ job \in [Dispatchers ->
          [pc : {"idle", "listing"}] \cup [pc : {"swept"}, stuck : SUBSET Mails]
            \cup [pc : {"run"}, todo : SUBSET Mails]
            \cup [pc : {"claimed", "cleared", "handed", "raised"},
                  mail : Mails, todo : SUBSET Mails]]
    /\ cancelling \subseteq Mails \X {"pending", "failed"}
    /\ notices \subseteq Mails \X {"blocked", "uncertain", "mail_sent"}
    /\ handed \in [Mails -> Nat]
    /\ byHand \subseteq Drafts /\ promised \subseteq Mails /\ stale \subseteq Mails
    /\ faults \in 0 .. MaxFaults

\* The queue keeps its promise: at most one hand-over per mail, never after it was
\* withdrawn while waiting, and no second attempt, with any number of dispatchers,
\* faults and cancel requests.
Fate(m) ==
    IF row[m].attempts > 0 THEN "taken"
    ELSE CASE row[m].status = "none" -> "none"
           [] row[m].status = "pending" -> "waiting"
           [] OTHER -> "withdrawn"

Promise == INSTANCE MailPromise WITH fate <- [m \in Mails |-> Fate(m)], delivered <- handed

KeepsPromise == Promise!Spec

\* What the office is told is true: "er is niets verstuurd" only when nothing was, and
\* "de mail zelf IS verstuurd" only when it was.  Either one stays true for good.
NoticesAreHonest ==
    \A m \in Mails : /\ <<m, "blocked">> \in notices => handed[m] = 0
                     /\ <<m, "mail_sent">> \in notices => handed[m] = 1

\* No failure is silent: a notification with the subject of the mail is there.  And the
\* list never says sent of a mail that did not leave, except of an advice to escalate,
\* which is listed as sent and never mails anything.
OutcomeIsReported ==
    \A m \in Mails :
        /\ row[m].status = "failed" => \E n \in notices : Subject[n[1]] = Subject[m]
        /\ row[m].status = "sent" => (handed[m] = 0 <=> row[m].escalates)

\* What was overtaken while it waited is not mailed: a mail whose case was closed, or
\* whose draft was sent or discarded, before the claim and that is still so, never
\* reaches the provider.
NothingStaleIsMailed == \A m \in stale : handed[m] = 0

\* Every mail gets an outcome once it is due, whatever dies on the way: it neither
\* waits for ever behind others nor hangs in sending.
DueMailsGetAnOutcome ==
    \A m \in Mails :
        (m \in ripe /\ row[m].status = "pending")
            ~> row[m].status \in {"sent", "failed", "cancelled"}

\* "Annuleren zou dan een valse belofte zijn": a mail whose cancellation was confirmed
\* while it was waiting is not sent.
CancelledIsNotSent == \A m \in promised : handed[m] = 0

\* "Verschillende mislukte mails melden allebei": every mail that failed has a
\* notification of its own.
EachFailureIsReported ==
    \A m \in Mails : row[m].status = "failed" => \E n \in notices : n[1] = m
=============================================================================
