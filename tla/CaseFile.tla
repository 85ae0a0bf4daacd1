-------------------------------- MODULE CaseFile --------------------------------
(***************************************************************************)
(* One case file: its status, its place in the incasso pipeline, and the   *)
(* open work that hangs on it (app/cases/service.py, the status rules of   *)
(* app/incasso/service.py and the close rules of ai_agent/draft_service).  *)
(*                                                                         *)
(* The module holds no actions of its own: Collections and Pipeline are    *)
(* state machines over this state, and every one of their handlers that    *)
(* moves, closes or reopens a case goes through the operators below, as    *)
(* the code goes through move_case_to_step, update_case_status and the     *)
(* payment hook.  Operators take the case record they start from, because  *)
(* a request works on the row it loaded and not on the row of the moment.  *)
(*                                                                         *)
(* Open work is a set: closing an item (discarded, superseded, skipped,    *)
(* completed) takes it out.  Days are counted; wording is left out.        *)
(***************************************************************************)
EXTENDS Integers

CONSTANTS
    Steps,         \* the pipeline steps of the tenant
    NoStep,        \* a case that is not on the board
    PaidStep,      \* the terminal step "Betaald"
    ClosedStep,    \* the terminal step "Afgesloten" (requires_settled)
    HoldSteps,     \* the hold steps, "Bijhouden regeling" among them
    MaxDay         \* bound: the last day of the calendar

ASSUME StepsAssumption ==
    /\ NoStep \notin Steps /\ PaidStep # ClosedStep
    /\ {PaidStep, ClosedStep} \cap HoldSteps = {}
    /\ {PaidStep, ClosedStep} \cup HoldSteps \subseteq Steps
ASSUME MaxDayAssumption == MaxDay \in Nat

VARIABLES
    case,    \* the row of cases
    work,    \* the open drafts, advices and tasks of the case
    today    \* the date

Days == 0..MaxDay

Never == -1

TERMINAL_STATUSES == {"betaald", "afgesloten"}

Statuses == {"nieuw", "in_behandeling"} \cup TERMINAL_STATUSES

IsTerminal(s) == s \in {PaidStep, ClosedStep}

Closed(c) == c.status \in TERMINAL_STATUSES

CaseRow ==
    [status : Statuses, step : Steps \cup {NoStep}, date_closed : BOOLEAN,
     freeze : Days \cup {Never}, verweer : BOOLEAN]

\* A request writes back only the attributes it changed on the row it loaded
\* (the unit of work of the ORM): the others keep the value of the moment.
Flush(row, loaded, changed) ==
    [f \in DOMAIN row |-> IF changed[f] = loaded[f] THEN row[f] ELSE changed[f]]

NewCase(s) ==
    [status |-> IF s = NoStep THEN "nieuw" ELSE "in_behandeling", step |-> s,
     date_closed |-> FALSE, freeze |-> Never, verweer |-> FALSE]

-----------------------------------------------------------------------------
(* Open work: AI drafts with the task to review them, the follow-up advice *)
(* with the task that mirrors it, and tasks known by their source.         *)

Task(source) == [kind |-> "task", source |-> source]

OfKind(w, kind) == {x \in w : x.kind = kind}

\* Mutant of Discard: the review task of a discarded draft stays open.
DiscardLeavesTask(w, drafts) == w \ drafts

\* A discarded draft takes the task to review it along.
Discard(w, drafts) ==
    {x \in w \ drafts : ~(x.kind = "review" /\ \E d \in drafts : d.id = x.draft)}

discard_open_drafts_on_close(w) == Discard(w, OfKind(w, "draft"))

\* Mutant of discard_stale_step_drafts: the drafts of the new step are discarded.
DiscardFreshDrafts(w, keep) ==
    Discard(w, {d \in OfKind(w, "draft") : d.intent = "next_step" /\ d.step = keep})

\* Next-step drafts that belong to another step than the one the case moves to.
discard_stale_step_drafts(w, keep) ==
    Discard(w, {d \in OfKind(w, "draft") :
                    d.intent = "next_step" /\ d.step \notin {keep, NoStep}})

\* Mutant of supersede_open_recommendations: the mirrored task stays on the list.
SupersedeAdviceOnly(w) == {x \in w : ~(x.kind = "advice" /\ x.status = "pending")}

\* Only pending advice is closed, with the task that mirrors it; approved
\* advice is about to be carried out.
supersede_open_recommendations(w) ==
    {x \in w : ~((x.kind = "advice" /\ x.status = "pending") \/ x.kind = "mirror")}

close_payment_promise_tasks(w) == w \ {Task("payment_promise")}

-----------------------------------------------------------------------------
(* The pipeline drives the status.                                         *)

status_for_step(s) ==
    CASE s = PaidStep -> "betaald"
      [] s = ClosedStep -> "afgesloten"
      [] OTHER -> "in_behandeling"

\* What move_case_to_step refuses: closing on unsettled client money, and
\* booking a case as paid by hand while something is open.
MayEnter(s, trigger, owed, settled) ==
    /\ s = ClosedStep => settled
    /\ (s = PaidStep /\ trigger \in {"manual", "batch"}) => owed <= 0

\* The case record after move_case_to_step.
Moved(c, s) ==
    [c EXCEPT !.step = s, !.status = status_for_step(s), !.date_closed = IsTerminal(s)]

\* The open work after move_case_to_step.
WorkAfterMove(w, s) ==
    LET kept == discard_stale_step_drafts(supersede_open_recommendations(w), s) IN
    IF IsTerminal(s) THEN discard_open_drafts_on_close(kept) ELSE kept

-----------------------------------------------------------------------------
(* Closing and reopening by status.                                        *)

\* A case that closes: interest freezes on the last payment, unless a date
\* was already set.
ClosedWith(c, status, freeze) ==
    [c EXCEPT !.status = status, !.date_closed = TRUE,
              !.freeze = IF c.freeze = Never THEN freeze ELSE c.freeze]

\* Mutant of ClosedWork: the advice survives the closing.
ClosedWorkKeepsAdvice(w) == close_payment_promise_tasks(discard_open_drafts_on_close(w))

\* The open work that survives a closing by status or by payment.
ClosedWork(w) ==
    close_payment_promise_tasks(
        supersede_open_recommendations(discard_open_drafts_on_close(w)))

\* Mutant of Reopened: the closing date stays on the reopened case.
ReopenedStillDated(c) == [c EXCEPT !.status = "in_behandeling", !.freeze = Never]

\* Reopened by a payment taken back or a new claim: the step stays.
Reopened(c) ==
    [c EXCEPT !.status = "in_behandeling", !.date_closed = FALSE, !.freeze = Never]

\* Reopened by hand: a terminal step is cleared, so the case shows on the board.
ReopenedByHand(c, status) ==
    [c EXCEPT !.status = status, !.date_closed = FALSE, !.freeze = Never,
              !.step = IF IsTerminal(c.step) THEN NoStep ELSE c.step]

\* What update_case_status refuses.
MayTake(c, status, owed, settled) ==
    /\ status # c.status
    /\ status = "afgesloten" => settled
    /\ status = "betaald" => owed <= 0

\* The case record and the open work after update_case_status.
WithStatus(c, status, freeze) ==
    IF status \in TERMINAL_STATUSES
    THEN ClosedWith(c, status, freeze) ELSE ReopenedByHand(c, status)

WorkWithStatus(w, status) == IF status \in TERMINAL_STATUSES THEN ClosedWork(w) ELSE w
=============================================================================
