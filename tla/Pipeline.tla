-------------------------------- MODULE Pipeline --------------------------------
(***************************************************************************)
(* The incasso pipeline of one case (app/incasso/service.py and            *)
(* automation_service.py, app/ai_agent/followup_service.py, the sending    *)
(* routes of app/email/compose_router.py and the gates of                  *)
(* app/collections/compliance.py): the steps a case walks through, the     *)
(* letters that go out on the way, and the advice, tasks and drafts that   *)
(* propose them.                                                           *)
(*                                                                         *)
(* Every handler takes the rows its request has loaded, `seen', as in      *)
(* Collections.  The code threads the case through a chain of helpers that *)
(* each change a few rows; here the rows are one record, the file, and a   *)
(* helper maps a file to a file.  Become writes the result back.           *)
(*                                                                         *)
(* What is owed and held is the business of Collections: a move or a       *)
(* closing that the money might allow may happen here at any time.  The    *)
(* text of letters and drafts, and whether a mail address is known, are    *)
(* left out; a mail that the provider refuses changes nothing.             *)
(***************************************************************************)
EXTENDS CaseFile, Sequences, FiniteSets

CONSTANTS
    Requests,       \* slots for requests that overlap others
    DagenbriefStep, \* the statutory 14-day letter to a consumer
    VerweerStep,    \* the hold step where a defence is answered
    LetterSteps,    \* steps with a letter template
    TextSteps,      \* steps with a source text for AI drafts
    DunningSteps,   \* steps of category minnelijk or gerechtelijk
    MainSteps,      \* the steps a defence takes a case away from
    B2BSteps,       \* steps for business debtors only
    Advance,        \* the default timeout rules, from step to step
    MinWait,        \* days a step waits before its letter is advised
    RuleDays,       \* days before a timeout rule fires
    TermDays,       \* the statutory term after the 14-day letter
    FirstSteps,     \* where a case may stand when the run begins
    FirstConsumers, \* what its debtor may be
    ByHand,         \* statuses and steps the staff may give the case by hand
    AdviceIds,      \* bound: the advices open on one step
    DraftIds,       \* bound: the open drafts
    MaxRows,        \* bound: the open history rows of one step
    Overlap         \* whether others come between the two requests of a sent draft

ASSUME PipelineAssumption ==
    /\ {DagenbriefStep} \cup LetterSteps \cup TextSteps \cup B2BSteps \subseteq Steps
    /\ DunningSteps \cup MainSteps \subseteq Steps /\ VerweerStep \in HoldSteps
    /\ FirstSteps \subseteq Steps \cup {NoStep}
    /\ DOMAIN Advance \subseteq Steps /\ \A s \in DOMAIN Advance : Advance[s] \in Steps
    /\ {MinWait, TermDays} \subseteq Nat /\ RuleDays \in Nat \ {0}
    /\ FirstConsumers \subseteq BOOLEAN /\ MaxRows \in Nat \ {0}

VARIABLES
    consumer,    \* debtor_type on the case row is b2c
    entered,     \* the day on which the case entered its step
    rows,        \* rows[s]: email_sent of the open history rows of step s
    evidence,    \* the day the 14-day letter counts as sent (email_sent_at)
    executed,    \* the steps whose advice was carried out
    letter,      \* the letter that the last step sent, if it sent one
    brief,       \* the day the 14-day letter really left first
    mailed,      \* drafts whose mail left and whose completion is to follow
    shelf,       \* drafts that were sent or discarded; the row stays
    req          \* req[r]: what the request in slot r has loaded

fileVars == <<case, work, entered, rows, evidence>>
vars == <<fileVars, consumer, today, executed, letter, brief, mailed, shelf, req>>

NoLetter == [step |-> NoStep, route |-> "none"]

Quiet == letter' = NoLetter /\ UNCHANGED brief

Idle == [op |-> "idle"]

Now == [op |-> "open", case |-> case, consumer |-> consumer, work |-> work]

File(seen) ==
    [case |-> seen.case, consumer |-> seen.consumer, work |-> work,
     entered |-> entered, rows |-> rows, evidence |-> evidence]

Become(seen, f) ==
    /\ case' = Flush(case, seen.case, f.case)
    /\ work' = f.work /\ entered' = f.entered /\ rows' = f.rows /\ evidence' = f.evidence
    /\ \A s \in Steps : Len(f.rows[s]) <= MaxRows

\* A draft that is open no more is on the shelf, until its id serves another.
Shelve ==
    shelf' = {d \in shelf \cup OfKind(work, "draft") :
                 \A e \in OfKind(work', "draft") : e.id # d.id}

-----------------------------------------------------------------------------
(* Moving a case, and the trail it leaves.                                 *)

\* The open history row of the step that is left is closed, the newest one
\* only, and a row for the step that is entered is opened.
Trail(open, from, to) ==
    LET left == [s \in Steps |->
                    IF s = from /\ open[s] # <<>>
                    THEN SubSeq(open[s], 1, Len(open[s]) - 1) ELSE open[s]]
    IN  [left EXCEPT ![to] = Append(@, FALSE)]

\* move_case_to_step, as far as the file is concerned.
MoveTo(f, s) ==
    [f EXCEPT !.case = Moved(@, s), !.work = WorkAfterMove(@, s), !.entered = today,
              !.rows = Trail(@, f.case.step, s)]

\* mark_current_step_communication_sent: only the first sending of the 14-day
\* letter sets the clock.
Marked(f) ==
    LET s == f.case.step
        n == Len(f.rows[s])
    IN  IF n = 0 THEN f
        ELSE [f EXCEPT !.rows[s][n] = TRUE,
                       !.evidence = IF s = DagenbriefStep /\ @ = Never THEN today ELSE @]

CloseMirrors(w, s, sources) ==
    {x \in w : ~(x.kind = "mirror" /\ x.step = s /\ x.source \in sources)}

\* Mutant of Guarded: a disputed case walks on.
GuardedButDisputed(f, target) ==
    \/ Closed(f.case)
    \/ IsTerminal(target) \/ target \in HoldSteps
    \/ f.consumer /\ target \in B2BSteps

\* advance_guard_reason: the case does not go on by itself.
Guarded(f, target) ==
    \/ Closed(f.case) \/ f.case.verweer
    \/ IsTerminal(target) \/ target \in HoldSteps
    \/ f.consumer /\ target \in B2BSteps

\* The case goes on by the default rule of its step, if there is one.  A
\* consumer at the end of the consumer steps asks for a decision instead.
GoOn(f) ==
    IF f.case.step \notin DOMAIN Advance THEN f
    ELSE LET target == Advance[f.case.step] IN
         CASE ~Guarded(f, target) -> MoveTo(f, target)
           [] f.consumer /\ target \in B2BSteps ->
                [f EXCEPT !.work = @ \cup {Task("b2c_pipeline_end")}]
           [] OTHER -> f

\* advance_after_step_send: the sending is recorded on the step the letter
\* was for, before the case goes on.
AdvanceAfterSend(f, recordSend) ==
    IF f.case.step = NoStep THEN f
    ELSE LET done == IF recordSend
                     THEN [Marked(f) EXCEPT !.work = CloseMirrors(@, f.case.step, {"followup_send"})]
                     ELSE f
         IN  GoOn(done)

-----------------------------------------------------------------------------
(* The gates, and letters.                                                 *)

\* Mutant of DagenbriefGate: the letter need not have been sent at all.
GateTermOnly(f, s) ==
    (f.consumer /\ s # DagenbriefStep /\ f.evidence # Never) => today - f.evidence >= TermDays

\* check_dagenbrief_gate lets the letter of step s pass.
DagenbriefGate(f, s) ==
    (f.consumer /\ s # DagenbriefStep) =>
        f.evidence # Never /\ today - f.evidence >= TermDays

\* check_dagenbrief_gate_for_case: the gate of the compose window knows only
\* the step on which the case stands.
ComposeGate(f) == f.case.step \in DunningSteps => DagenbriefGate(f, f.case.step)

\* A letter of step s leaves by a route.
Sent(s, route) ==
    /\ letter' = [step |-> s, route |-> route]
    /\ brief' = IF s = DagenbriefStep /\ brief = Never THEN today ELSE brief

\* The routes on which nobody looks at a single letter before it goes.
Automatic == {"batch", "advice"}

-----------------------------------------------------------------------------
(* Requests.                                                               *)

Begin(r) ==
    /\ req[r] = Idle
    /\ req' = [req EXCEPT ![r] = Now]
    /\ Quiet /\ UNCHANGED <<fileVars, consumer, today, executed, mailed>>

Abandon(r) ==
    /\ req[r] # Idle
    /\ req' = [req EXCEPT ![r] = Idle]
    /\ Quiet /\ UNCHANGED <<fileVars, consumer, today, executed, mailed>>

-----------------------------------------------------------------------------
(* The case by hand.                                                       *)

move_step(seen, s) ==
    /\ Become(seen, MoveTo(File(seen), s))
    /\ Quiet /\ UNCHANGED <<consumer, executed, mailed>>

\* update_case with an empty step: a plain assignment, no trail.
clear_step(seen) ==
    /\ seen.case.step # NoStep
    /\ case' = Flush(case, seen.case, [seen.case EXCEPT !.step = NoStep])
    /\ Quiet /\ UNCHANGED <<work, entered, rows, evidence, consumer, executed, mailed>>

set_debtor_type(seen) ==
    /\ consumer' = ~seen.consumer
    /\ Quiet /\ UNCHANGED <<fileVars, executed, mailed>>

set_case_verweer(seen, b) ==
    /\ case' = Flush(case, seen.case, [seen.case EXCEPT !.verweer = b])
    /\ Quiet /\ UNCHANGED <<work, entered, rows, evidence, consumer, executed, mailed>>

\* By hand, or closed by the last payment and reopened when it is taken back;
\* the day on which interest freezes is left to Collections.
update_case_status(seen, status) ==
    /\ MayTake(seen.case, status, 0, TRUE)
    /\ Become(seen, [File(seen) EXCEPT !.case = WithStatus(@, status, 0),
                                       !.work = WorkWithStatus(@, status)])
    /\ Quiet /\ UNCHANGED <<consumer, executed, mailed>>

on_payment_received(seen) ==
    /\ ~Closed(seen.case)
    /\ Become(seen, [File(seen) EXCEPT !.case = ClosedWith(@, "betaald", 0), !.work = ClosedWork(@)])
    /\ Quiet /\ UNCHANGED <<consumer, executed, mailed>>

payment_taken_back(seen) ==
    /\ seen.case.status = "betaald"
    /\ Become(seen, [File(seen) EXCEPT !.case = Reopened(@)])
    /\ Quiet /\ UNCHANGED <<consumer, executed, mailed>>

complete_task(x) ==
    /\ x.kind \in {"task", "mirror", "review"}
    /\ work' = work \ {x}
    /\ Quiet /\ UNCHANGED <<case, entered, rows, evidence, consumer, executed, mailed>>

-----------------------------------------------------------------------------
(* The batch.                                                              *)

StepTask(s) == [kind |-> "task", source |-> "pipeline", step |-> s]

\* _auto_complete_tasks: the task to generate the letter of the step.
WithoutStepTask(w, s) == IF s \in LetterSteps THEN w \ {StepTask(s)} ELSE w

batch_advance_step(seen, s) ==
    /\ ~Closed(seen.case)
    /\ LET f == MoveTo(File(seen), s) IN
       Become(seen, [f EXCEPT !.work = @ \cup {StepTask(s)}])
    /\ Quiet /\ UNCHANGED <<consumer, executed, mailed>>

\* Mutant of MayBatch: a closed case in the selection gets its letter too.
MayBatchClosed(f) == f.case.step \in LetterSteps /\ DagenbriefGate(f, f.case.step)

\* What the batch does not skip.
MayBatch(f) ==
    /\ ~Closed(f.case)
    /\ f.case.step \in LetterSteps
    /\ DagenbriefGate(f, f.case.step)

\* The letter of the step is generated, and sent if that was asked.
batch_generate_document(seen, send) ==
    LET f == File(seen)
        s == seen.case.step
    IN
    /\ MayBatch(f)
    /\ Become(seen, AdvanceAfterSend([f EXCEPT !.work = WithoutStepTask(@, s)], send))
    /\ IF send THEN Sent(s, "batch") ELSE Quiet
    /\ UNCHANGED <<consumer, executed, mailed>>

-----------------------------------------------------------------------------
(* The follow-up advisor.                                                  *)

Advice(id, s, status) == [kind |-> "advice", id |-> id, step |-> s, status |-> status]

Mirror(id, s) ==
    [kind |-> "mirror", id |-> id, step |-> s,
     source |-> IF s \in LetterSteps THEN "followup_send" ELSE "followup_escalate"]

Pending == {x \in work : x.kind = "advice" /\ x.status = "pending"}

WorkSteps == {s \in Steps \ HoldSteps : ~IsTerminal(s)}

\* The case has stood on a working step long enough, and the letter of the
\* step has not left since.
Ripe ==
    /\ ~Closed(case)
    /\ case.step \in WorkSteps
    /\ \A i \in DOMAIN rows[case.step] : ~rows[case.step][i]
    /\ today - entered >= MinWait

\* Mutant of MayAdvise: advice that was carried out counts for the case.
MayAdviseOnce == Ripe /\ Pending = {} /\ executed = {}

\* Once a case, and once a step that was carried out.
MayAdvise == Ripe /\ Pending = {} /\ case.step \notin executed

\* The advice comes with its task.
scan_for_followups ==
    /\ MayAdvise
    /\ \E id \in AdviceIds :
          /\ \A x \in work : x.kind \in {"advice", "mirror"} => <<x.id, x.step>> # <<id, case.step>>
          /\ work' = work \cup {Advice(id, case.step, "pending"), Mirror(id, case.step)}
    /\ Quiet /\ UNCHANGED <<case, entered, rows, evidence, consumer, executed, mailed>>

Reviewed(x) == (work \ {x}) \cup {[x EXCEPT !.status = "approved"]}

approve_recommendation(seen, x) ==
    /\ x.status = "pending"
    /\ work' = Reviewed(x)
    /\ Quiet /\ UNCHANGED <<case, entered, rows, evidence, consumer, executed, mailed>>

reject_recommendation(seen, x) ==
    /\ x.status = "pending"
    /\ work' = CloseMirrors(work \ {x}, x.step, {"followup_send", "followup_escalate"})
    /\ Quiet /\ UNCHANGED <<case, entered, rows, evidence, consumer, executed, mailed>>

\* A letter that was advised leaves only if the case is open, still stands on
\* the step, and the 14-day letter allows it.
MayExecute(f, x) ==
    /\ ~Closed(f.case)
    /\ f.case.step = x.step
    /\ DagenbriefGate(f, x.step)

\* The advice x, approved now or before, is carried out: the letter of its
\* step is sent, or a person is asked to decide.
execute_recommendation(seen, x) ==
    LET f == [File(seen) EXCEPT !.work = WithoutStepTask(@ \ {x}, x.step)]
    IN
    /\ \/ /\ x.step \in LetterSteps
          /\ MayExecute(f, x)
          /\ Become(seen, AdvanceAfterSend(f, TRUE))
          /\ Sent(x.step, "advice")
       \/ /\ x.step \notin LetterSteps
          /\ work' = IF Mirror(x.id, x.step) \in work THEN work \ {x}
                     ELSE (work \ {x}) \cup {Task("followup_advisor")}
          /\ Quiet /\ UNCHANGED <<case, entered, rows, evidence>>
    /\ executed' = executed \cup {x.step}
    /\ UNCHANGED <<consumer, mailed>>

-----------------------------------------------------------------------------
(* The compose window.                                                     *)

\* A fresh mail to the debtor with the letter of step t.  Only the letter of
\* the step on which the case stands moves it.
compose_send(seen, t, override) ==
    LET f == File(seen) IN
    /\ ComposeGate(f) \/ override
    /\ Sent(t, IF override THEN "override" ELSE "compose")
    /\ Become(seen, IF t = f.case.step THEN AdvanceAfterSend(f, TRUE) ELSE f)
    /\ UNCHANGED <<consumer, executed, mailed>>

-----------------------------------------------------------------------------
(* Drafts.                                                                 *)

Draft(id, intent, s) == [kind |-> "draft", id |-> id, intent |-> intent, step |-> s]

Review(id) == [kind |-> "review", draft |-> id]

FreeId(id) ==
    /\ \A x \in work : x # Review(id) /\ (x.kind = "draft" => x.id # id)
    /\ \A d \in mailed : d.id # id

\* generate_draft_for_step: a draft for step s, with the task to review it.
DraftFor(id, s) == {Draft(id, "next_step", s), Review(id)}

\* The button on the case, for the step it stands on.
generate_draft_for_current_step(seen, id) ==
    /\ seen.case.step \in TextSteps
    /\ FreeId(id)
    /\ work' = work \cup DraftFor(id, seen.case.step)
    /\ Quiet /\ UNCHANGED <<case, entered, rows, evidence, consumer, executed, mailed>>

\* The morning job: cases whose timeout rule fires and leads to a step without
\* a letter get a draft for that step.
daily_pipeline_auto_drafts(id) ==
    /\ case.step \in DOMAIN Advance
    /\ LET target == Advance[case.step] IN
       /\ ~Guarded(File(Now), target)
       /\ target \in TextSteps \ LetterSteps
       /\ today - entered >= RuleDays
       /\ FreeId(id)
       /\ work' = work \cup DraftFor(id, target)
    /\ Quiet /\ UNCHANGED <<case, entered, rows, evidence, consumer, executed, mailed>>

\* generate_unified_draft: for the next step.  An open draft for that step is
\* returned, or with force_new discarded, its review left as it is.
generate_next_step(seen, id) ==
    LET new  == Draft(id, "next_step", seen.case.step)
        same == {d \in OfKind(work, "draft") : d.intent = new.intent /\ d.step = new.step}
    IN
    /\ FreeId(id)
    /\ \/ same = {} /\ work' = work \cup {new}
       \/ \E d \in same : work' = (work \ {d}) \cup {new}
    /\ Quiet /\ UNCHANGED <<case, entered, rows, evidence, consumer, executed, mailed>>

\* ... or a reply or a free message, which may replace a reply that is open.
generate_reply(seen, id) ==
    /\ FreeId(id)
    /\ \E old \in SUBSET {d \in OfKind(work, "draft") : d.intent = "reply"} :
          /\ Cardinality(old) <= 1
          /\ work' = (work \ old) \cup {Draft(id, "reply", seen.case.step)}
    /\ Quiet /\ UNCHANGED <<case, entered, rows, evidence, consumer, executed, mailed>>

\* A mail of the debtor is classified as a defence: from a main step the case
\* moves to "Verweer beantwoorden", and an answer is drafted.  When the model
\* fails, the error is logged and the move stands.
trigger_defense_response(id) ==
    /\ ~Closed(case)
    /\ case.step \in MainSteps \cup {VerweerStep}
    /\ LET f == IF case.step \in MainSteps THEN MoveTo(File(Now), VerweerStep) ELSE File(Now) IN
       \/ Become(Now, f)
       \/ FreeId(id) /\ Become(Now, [f EXCEPT !.work = @ \cup DraftFor(id, VerweerStep)])
    /\ Quiet /\ UNCHANGED <<consumer, executed, mailed>>

\* PATCH /drafts/{id}: any status, whatever it was; only a draft that is
\* discarded takes its review along.
update_draft_status(d, status) ==
    /\ \/ status = "open" /\ work' = work \cup {d}
       \/ status = "sent" /\ work' = work \ {d}
       \/ status = "discarded" /\ work' = Discard(work, {d})
    /\ Quiet /\ UNCHANGED <<case, entered, rows, evidence, consumer, executed, mailed>>

\* First request of a draft that is sent: the mail, through the compose gate
\* unless it is a reply.
send_draft(seen, d, override) ==
    /\ d \notin mailed
    /\ d.intent = "next_step" => ComposeGate(File(seen)) \/ override
    /\ Sent(IF d.intent = "reply" THEN NoStep ELSE d.step, "draft")
    /\ mailed' = mailed \cup {d}
    /\ UNCHANGED <<fileVars, consumer, executed>>

\* Second request, complete_ai_draft_after_send: whatever became of the draft
\* meanwhile, it is marked as sent; a draft for a step moves the case on from
\* the step on which it stands now.
complete_ai_draft_after_send(seen, d) ==
    LET f == [File(seen) EXCEPT !.work = @ \ {d, Review(d.id)}] IN
    /\ Become(seen, IF d.intent = "next_step" THEN AdvanceAfterSend(f, TRUE) ELSE f)
    /\ mailed' = mailed \ {d}
    /\ Quiet /\ UNCHANGED <<consumer, executed>>

\* The window is closed before the second request: the draft stays open.
never_completed(d) ==
    /\ mailed' = mailed \ {d}
    /\ Quiet /\ UNCHANGED <<fileVars, consumer, executed>>

-----------------------------------------------------------------------------
(* The machine.                                                            *)

CaseHandler(seen) ==
    \/ \E s \in Steps \cap ByHand : move_step(seen, s) \/ batch_advance_step(seen, s)
    \/ NoStep \in ByHand /\ clear_step(seen)
    \/ "debtor_type" \in ByHand /\ set_debtor_type(seen)
    \/ "verweer" \in ByHand /\ \E b \in BOOLEAN : set_case_verweer(seen, b)
    \/ \E s \in Statuses \cap ByHand : update_case_status(seen, s)
    \/ "payment" \in ByHand /\ (on_payment_received(seen) \/ payment_taken_back(seen))

LetterHandler(seen) ==
    \/ \E send \in BOOLEAN : batch_generate_document(seen, send)
    \/ \E t \in LetterSteps, override \in BOOLEAN : compose_send(seen, t, override)
    \/ \E x \in OfKind(seen.work, "advice") :
          \/ approve_recommendation(seen, x)
          \/ reject_recommendation(seen, x)
          \/ execute_recommendation(seen, x)

DraftHandler(seen) ==
    \/ \E id \in DraftIds :
          \/ generate_draft_for_current_step(seen, id)
          \/ generate_next_step(seen, id)
          \/ generate_reply(seen, id)
    \/ \E d \in OfKind(work, "draft"), override \in BOOLEAN : send_draft(seen, d, override)

Handler(seen) == CaseHandler(seen) \/ LetterHandler(seen) \/ DraftHandler(seen)

SecondRequest(seen) ==
    \E d \in mailed : complete_ai_draft_after_send(seen, d)

Background ==
    \/ scan_for_followups
    \/ \E id \in DraftIds : daily_pipeline_auto_drafts(id) \/ trigger_defense_response(id)
    \/ \E x \in work : complete_task(x)
    \/ \E d \in OfKind(work, "draft") \cup shelf, status \in {"open", "sent", "discarded"} :
          update_draft_status(d, status)

NextDay ==
    /\ today < MaxDay
    /\ today' = today + 1
    /\ Quiet /\ UNCHANGED <<fileVars, consumer, executed, mailed, req>>

Init ==
    /\ \E s \in FirstSteps :
          /\ case = NewCase(s)
          /\ rows = [t \in Steps |-> IF t = s THEN <<FALSE>> ELSE <<>>]
    /\ work = {} /\ today = 0 /\ entered = 0
    /\ consumer \in FirstConsumers
    /\ evidence = Never /\ brief = Never
    /\ executed = {} /\ mailed = {} /\ shelf = {}
    /\ letter = NoLetter
    /\ req = [r \in Requests |-> Idle]

Step ==
    \/ /\ mailed = {} \/ Overlap
       /\ \/ Handler(Now) /\ UNCHANGED <<req, today>>
          \/ Background /\ UNCHANGED <<req, today>>
          \/ NextDay
          \/ \E r \in Requests :
                \/ Begin(r) \/ Abandon(r)
                \/ /\ req[r] # Idle
                   /\ Handler(req[r])
                   /\ req' = [req EXCEPT ![r] = Idle]
                   /\ UNCHANGED today
    \/ SecondRequest(Now) /\ UNCHANGED <<req, today>>
    \/ \E d \in mailed : never_completed(d) /\ UNCHANGED <<req, today>>

Next == Step /\ Shelve

Spec == Init /\ [][Next]_vars

\* The advisor runs every half hour.
FairSpec == Spec /\ WF_vars(scan_for_followups /\ UNCHANGED <<req, today>> /\ Shelve)

-----------------------------------------------------------------------------
(* Properties.                                                             *)

\* Every column keeps a value its schema allows, along every route.
PipelineTypeOK ==
    /\ case \in CaseRow /\ entered \in 0..today /\ consumer \in BOOLEAN
    /\ evidence \in Days \cup {Never} /\ brief \in Days \cup {Never}
    /\ rows \in [Steps -> UNION {[1..n -> BOOLEAN] : n \in 0..MaxRows}]
    /\ executed \subseteq Steps
    /\ \A x \in work : x.kind \in {"draft", "review", "advice", "mirror", "task"}
    /\ \A d, e \in OfKind(work, "draft") \cup shelf : d.id = e.id => d = e

\* Pending advice, and drafts for a step, that do not fit the step of the case:
\* not the step itself, nor the one its rule leads to.
Misfits ==
    {x \in work :
        /\ case.step # NoStep
        /\ \/ x.kind = "advice" /\ x.status = "pending" /\ x.step # case.step
           \/ /\ x.kind = "draft" /\ x.intent = "next_step"
              /\ x.step \notin {case.step, NoStep}
              /\ case.step \in DOMAIN Advance => x.step # Advance[case.step]}

\* What still waits belongs to where the case stands: no advice and no draft
\* for a step is left behind when the case moves on, whatever moved it.  Only
\* a person can put an old draft back on the list.
WaitingFitsStep ==
    [][\A x \in Misfits' : x \in shelf \/ (x \in Misfits /\ case'.step = case.step)]_vars

\* The task "send this letter" stays on the list exactly as long as advice to
\* send it does: sent, rejected, superseded or closed, it goes.
MirrorHasAdvice ==
    \A x \in OfKind(work, "mirror") : x.source = "followup_send" =>
        \E y \in OfKind(work, "advice") : y.id = x.id /\ y.step = x.step

\* No review task is left for a draft that was sent or discarded: refuted, by
\* a draft that is forced anew or marked as sent by hand.
ReviewHasDraft ==
    \A x \in OfKind(work, "review") : \E d \in OfKind(work, "draft") : d.id = x.draft

\* A person marks draft d as sent, or has it written anew.
SetAside(d) ==
    /\ UNCHANGED <<case, mailed>>
    /\ \/ work' = work \ {d}
       \/ \E e \in OfKind(work', "draft") \ work : e.intent = d.intent

\* A draft that goes takes the task to review it along, whatever moves or
\* closes the case, completes the draft or discards it, but for these two ways.
ReviewsFollowDrafts ==
    [][\A d \in OfKind(work, "draft") :
          (d \notin work' /\ Review(d.id) \in work') => SetAside(d)]_vars

\* However a case closes, no draft, no mirrored task and no pending advice is
\* left, and no review of a draft that was open.
ClosingSweeps ==
    [][(~Closed(case) /\ Closed(case')) =>
          \A x \in work' :
             /\ x.kind \notin {"draft", "mirror"}
             /\ x.kind = "advice" => x.status = "approved"
             /\ x.kind = "review" => \A d \in OfKind(work, "draft") : d.id # x.draft]_vars

AutomaticLetter == letter'.route \in Automatic

\* Art. 6:96 (6) BW: a letter that goes out by itself, with collection costs,
\* reaches a consumer only when the statutory term after the 14-day letter is
\* over; the letter must really have left, whatever the trail says.
TermRespected ==
    [][(AutomaticLetter /\ consumer /\ letter'.step # DagenbriefStep)
          => (brief # Never /\ today - brief >= TermDays)]_vars

\* A case that goes on by itself, after a letter or by the completion of a
\* draft, follows the rule of the step it stood on, and never out of a dispute,
\* to a closing step or to a step that is not for its debtor; a letter moves it
\* only if it was the letter of that step.
GoesOnAsRuled ==
    [][((letter' # NoLetter \/ mailed' # mailed) /\ case'.step # case.step) =>
          /\ case.step \in DOMAIN Advance /\ case'.step = Advance[case.step]
          /\ letter' # NoLetter => letter'.step = case.step
          /\ ~case.verweer /\ ~Closed(case) /\ ~Closed(case')
          /\ ~(consumer /\ case'.step \in B2BSteps)]_vars

\* An open case that has waited long enough gets its advice in the end, unless
\* it moves, closes or gets its letter before that.
RipeCaseIsAdvised ==
    \A s \in WorkSteps :
        (Ripe /\ case.step = s /\ s \notin executed)
            ~> (~Ripe \/ case.step # s \/ \E x \in OfKind(work, "advice") : x.step = s)

\* S254: a closed case gets no letter that goes out by itself.
ClosedIsNotMailed == [][AutomaticLetter => ~Closed(case)]_vars

\* With requests that overlap, one thing only lets a letter go to a closed
\* case: the request that sends it loaded the case while it was open.
ClosedIsMailedByOldRequestsOnly ==
    [][(AutomaticLetter /\ Closed(case)) =>
          \E r \in Requests :
              req[r] # Idle /\ req'[r] = Idle /\ ~Closed(req[r].case)]_vars

\* The letter of a step that was recorded as sent is not sent again by itself
\* while the case stays where it is.
NotMailedAgain ==
    [][AutomaticLetter =>
          LET sent == rows[letter'.step] IN
          sent # <<>> => ~sent[Len(sent)]]_vars

\* What counts as proof that the 14-day letter was sent, is proof of it.
EvidenceIsTrue == evidence # Never => brief # Never
=============================================================================
