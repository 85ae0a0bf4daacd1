------------------------------ MODULE PipelineProofs ------------------------------
(***************************************************************************)
(* The incasso pipeline of a case, for every set of steps, rules, advices, *)
(* drafts and requests.                                                    *)
(*                                                                         *)
(* Open work is read and written as it is at the commit, so what concerns  *)
(* the work alone (reviews, mirrored tasks, the sweeping of a case that    *)
(* closes) holds with any number of overlapping requests, and so do the    *)
(* types of all columns, proved at the end.  What relates the work to the  *)
(* place of the case, or a letter to the case it is for, holds while no    *)
(* request works on an old copy of the case row.                           *)
(***************************************************************************)
EXTENDS Pipeline, SequenceTheorems, TLAPS

DraftItem(d) == d = Draft(d.id, d.intent, d.step) /\ d.intent \in {"next_step", "reply"}

AdviceItem(x) ==
    x = Advice(x.id, x.step, x.status) /\ x.step \in Steps /\ x.status \in {"pending", "approved"}

Item(x) ==
    /\ x.kind \in {"draft", "review", "advice", "mirror", "task"}
    /\ x.kind = "draft" => DraftItem(x)
    /\ x.kind = "review" => x = Review(x.draft)
    /\ x.kind = "advice" => AdviceItem(x)
    /\ x.kind = "mirror" => x = Mirror(x.id, x.step)

Mirroring(w) ==
    \A x \in w : (x.kind = "mirror" /\ x.source = "followup_send") =>
        \E y \in w : y.kind = "advice" /\ y.id = x.id /\ y.step = x.step

WorkInv(w) == (\A x \in w : Item(x)) /\ Mirroring(w)

\* What a request has loaded of the case.
Seen(seen) == seen.case \in CaseRow /\ \A x \in seen.work : Item(x)

PipeInv ==
    /\ case \in CaseRow
    /\ WorkInv(work)
    /\ \A d \in mailed \cup shelf : d.kind = "draft" /\ DraftItem(d)
    /\ req = [r \in Requests |-> req[r]]
    /\ \A r \in Requests : req[r] # Idle => Seen(req[r])

\* Pending advice, or a draft for a step, that does not fit a case on step s.
Unfit(x, s) ==
    /\ s # NoStep
    /\ \/ x.kind = "advice" /\ x.status = "pending" /\ x.step # s
       \/ /\ x.kind = "draft" /\ x.intent = "next_step"
          /\ x.step \notin {s, NoStep}
          /\ s \in DOMAIN Advance => x.step # Advance[s]

Fits(w, s) == \A x \in w : ~Unfit(x, s)

\* What may be left of the work of a case that closes, besides reviews.
Swept(w) ==
    \A x \in w : /\ x.kind \notin {"draft", "mirror"}
                 /\ x.kind = "advice" => x.status = "approved"

\* The drafts that go from w to v take their reviews along.
Follows(v, w) == \A d \in w : (d.kind = "draft" /\ d \notin v) => Review(d.id) \notin v

\* So does a step, but for drafts that a person sets aside.
ReviewsGo ==
    \A d \in OfKind(work, "draft") : (d \notin work' /\ Review(d.id) \in work') => SetAside(d)

-----------------------------------------------------------------------------
(* The operators on open work.                                             *)

LEMMA FollowsOn ==
    ASSUME NEW w, NEW v, NEW u, Follows(v, w), Follows(u, v), u \subseteq v
    PROVE  Follows(u, w)
BY DEF Follows

\* No draft goes.
LEMMA DraftsKept ==
    ASSUME NEW w, NEW v, \A d \in w : d.kind = "draft" => d \in v
    PROVE  Follows(v, w)
BY DEF Follows

\* No review comes.
LEMMA NoReviewAdded ==
    ASSUME NEW w, NEW v, Follows(v, w), NEW u, v \subseteq u,
           \A x \in u : x \in v \/ x.kind # "review"
    PROVE  Follows(u, w)
BY DEF Follows, Review

LEMMA FollowsGoes ==
    ASSUME Follows(work', work)
    PROVE  ReviewsGo
BY DEF Follows, ReviewsGo, OfKind

\* Drafts go with their reviews.
LEMMA DiscardKeeps ==
    ASSUME NEW w, WorkInv(w), NEW D, \A d \in D : d.kind = "draft"
    PROVE  /\ WorkInv(Discard(w, D)) /\ Discard(w, D) \subseteq w
           /\ Follows(Discard(w, D), w)
<1> DEFINE v == Discard(w, D)
<1>1. \A x : x \in v <=> x \in w /\ x \notin D /\ ~(x.kind = "review" /\ \E d \in D : d.id = x.draft)
  BY DEF Discard
<1> HIDE DEF v
<1>2. \A x \in v : x \in w
  BY <1>1
<1>3. \A x \in v : Item(x)
  BY <1>2 DEF WorkInv
<1>4. Follows(v, w)
  BY <1>1 DEF Follows, Review
<1>5. Mirroring(v)
  <2> SUFFICES ASSUME NEW x \in v, x.kind = "mirror", x.source = "followup_send"
               PROVE  \E y \in v : y.kind = "advice" /\ y.id = x.id /\ y.step = x.step
    BY DEF Mirroring
  <2>1. PICK y \in w : y.kind = "advice" /\ y.id = x.id /\ y.step = x.step
    BY <1>2 DEF WorkInv, Mirroring
  <2>2. y \in v
    BY <1>1, <2>1
  <2> QED BY <2>1, <2>2
<1> QED BY <1>2, <1>3, <1>4, <1>5 DEF WorkInv, v

\* Advice that waits goes with every task that mirrors advice.
LEMMA SupersedeKeeps ==
    ASSUME NEW w, WorkInv(w), NEW v, v = supersede_open_recommendations(w)
    PROVE  /\ WorkInv(v) /\ v \subseteq w /\ Follows(v, w)
           /\ \A x \in v : x.kind # "mirror" /\ (x.kind = "advice" => x.status = "approved")
<1>1. \A x : x \in v <=> x \in w /\ ~((x.kind = "advice" /\ x.status = "pending") \/ x.kind = "mirror")
  BY DEF supersede_open_recommendations
<1>2. \A x \in v : Item(x)
  BY <1>1 DEF WorkInv
<1>3. Follows(v, w)
  BY <1>1, DraftsKept
<1>4. \A x \in v : x.kind # "mirror" /\ (x.kind = "advice" => x.status = "approved")
  BY <1>1, <1>2 DEF Item, AdviceItem
<1> QED BY <1>1, <1>2, <1>3, <1>4 DEF WorkInv, Mirroring

\* Tasks come and go alone.
LEMMA TasksAreFree ==
    ASSUME NEW w, WorkInv(w), NEW v,
           \A x : x \in w /\ x.kind # "task" => x \in v,
           \A x \in v : x \in w \/ x.kind = "task"
    PROVE  WorkInv(v)
<1>1. \A x \in v : Item(x)
  BY DEF WorkInv, Item
<1>2. Mirroring(v)
  BY DEF WorkInv, Mirroring
<1> QED BY <1>1, <1>2 DEF WorkInv

\* A mirrored task or a review may be ticked off by itself.
LEMMA TickedOff ==
    ASSUME NEW w, WorkInv(w), NEW v, v \subseteq w,
           \A x \in w : x.kind \in {"draft", "advice"} => x \in v
    PROVE  WorkInv(v)
<1>1. \A x \in v : Item(x)
  BY DEF WorkInv
<1>2. Mirroring(v)
  BY DEF WorkInv, Mirroring
<1> QED BY <1>1, <1>2 DEF WorkInv

LEMMA MirrorsClosed ==
    ASSUME NEW w, WorkInv(w), NEW s, NEW sources
    PROVE  /\ WorkInv(CloseMirrors(w, s, sources)) /\ CloseMirrors(w, s, sources) \subseteq w
           /\ \A x \in w : x.kind \in {"draft", "advice"} => x \in CloseMirrors(w, s, sources)
<1> DEFINE v == CloseMirrors(w, s, sources)
<1>1. v \subseteq w /\ \A x \in w : x.kind \in {"draft", "advice"} => x \in v
  BY DEF CloseMirrors
<1> HIDE DEF v
<1>2. WorkInv(v)
  BY <1>1, TickedOff
<1> QED BY <1>1, <1>2 DEF v

LEMMA ClosingKeeps ==
    ASSUME NEW w, WorkInv(w)
    PROVE  /\ WorkInv(discard_open_drafts_on_close(w))
           /\ discard_open_drafts_on_close(w) \subseteq w
           /\ Follows(discard_open_drafts_on_close(w), w)
           /\ \A x \in discard_open_drafts_on_close(w) : x.kind # "draft"
<1> DEFINE D == OfKind(w, "draft")
           v == Discard(w, D)
<1>1. \A d \in D : d.kind = "draft"
  BY DEF OfKind
<1>2. WorkInv(v) /\ v \subseteq w /\ Follows(v, w)
  BY <1>1, DiscardKeeps
<1>3. \A x \in v : x.kind # "draft"
  BY DEF Discard, OfKind
<1> QED BY <1>2, <1>3 DEF discard_open_drafts_on_close

\* Every closing by status or payment sweeps.
LEMMA ClosedWorkSwept ==
    ASSUME NEW w, WorkInv(w)
    PROVE  /\ WorkInv(ClosedWork(w)) /\ Swept(ClosedWork(w))
           /\ ClosedWork(w) \subseteq w /\ Follows(ClosedWork(w), w)
<1> DEFINE u == discard_open_drafts_on_close(w)
           v == supersede_open_recommendations(u)
           t == close_payment_promise_tasks(v)
<1>1. /\ WorkInv(u) /\ u \subseteq w /\ Follows(u, w)
      /\ \A x \in u : x.kind # "draft"
  BY ClosingKeeps
<1> HIDE DEF u
<1>2. /\ WorkInv(v) /\ v \subseteq u /\ Follows(v, u)
      /\ \A x \in v : x.kind # "mirror" /\ (x.kind = "advice" => x.status = "approved")
  BY <1>1, SupersedeKeeps
<1> HIDE DEF v
<1>3. /\ \A x : x \in v /\ x.kind # "task" => x \in t
      /\ \A x \in t : x \in v
  BY DEF close_payment_promise_tasks, Task
<1> HIDE DEF t
<1>4. WorkInv(t)
  BY <1>2, <1>3, TasksAreFree
<1>5. Swept(t)
  BY <1>1, <1>2, <1>3 DEF Swept
<1>6. t \subseteq w /\ Follows(t, w)
  <2>1. Follows(t, v)
    BY <1>3, DraftsKept
  <2>2. Follows(v, w) /\ t \subseteq v /\ v \subseteq w
    BY <1>1, <1>2, <1>3, FollowsOn
  <2> QED BY <2>1, <2>2, FollowsOn
<1> QED BY <1>4, <1>5, <1>6 DEF ClosedWork, t, v, u

\* What a move leaves of the work fits the new step; a closing step sweeps.
LEMMA MoveSweeps ==
    ASSUME NEW w, WorkInv(w), NEW s
    PROVE  /\ WorkInv(WorkAfterMove(w, s)) /\ Fits(WorkAfterMove(w, s), s)
           /\ IsTerminal(s) => Swept(WorkAfterMove(w, s))
           /\ WorkAfterMove(w, s) \subseteq w /\ Follows(WorkAfterMove(w, s), w)
<1> DEFINE u == supersede_open_recommendations(w)
           D == {d \in OfKind(u, "draft") : d.intent = "next_step" /\ d.step \notin {s, NoStep}}
           v == Discard(u, D)
           t == discard_open_drafts_on_close(v)
<1>1. /\ WorkInv(u) /\ u \subseteq w /\ Follows(u, w)
      /\ \A x \in u : x.kind # "mirror" /\ (x.kind = "advice" => x.status = "approved")
  BY SupersedeKeeps
<1> HIDE DEF u
<1>2. \A d \in D : d.kind = "draft"
  BY DEF OfKind
<1>3. WorkInv(v) /\ v \subseteq u /\ Follows(v, u)
  <2> HIDE DEF D
  <2> QED BY <1>1, <1>2, DiscardKeeps
<1>4. \A d \in v : (d.kind = "draft" /\ d.intent = "next_step") => d.step \in {s, NoStep}
  BY DEF Discard, OfKind
<1> HIDE DEF v
<1>5. Fits(v, s)
  BY <1>1, <1>3, <1>4 DEF Fits, Unfit
<1>6. WorkInv(t) /\ t \subseteq v /\ Follows(t, v) /\ \A x \in t : x.kind # "draft"
  BY <1>3, ClosingKeeps
<1> HIDE DEF t
<1>7. Swept(t) /\ Fits(t, s)
  BY <1>1, <1>3, <1>5, <1>6 DEF Swept, Fits
<1>8. WorkAfterMove(w, s) = IF IsTerminal(s) THEN t ELSE v
  BY DEF WorkAfterMove, discard_stale_step_drafts, t, v, u
<1>9. Follows(v, w) /\ v \subseteq w
  BY <1>1, <1>3, FollowsOn
<1>10. Follows(t, w) /\ t \subseteq w
  BY <1>6, <1>9, FollowsOn
<1> QED BY <1>3, <1>5, <1>6, <1>7, <1>8, <1>9, <1>10

\* A draft for a step comes with its review.
LEMMA DraftAdded ==
    ASSUME NEW w, WorkInv(w), NEW id, NEW s
    PROVE  WorkInv(w \cup DraftFor(id, s))
<1> DEFINE v == w \cup DraftFor(id, s)
<1>1. /\ Draft(id, "next_step", s) \in v /\ Review(id) \in v
      /\ \A x \in v : x \in w \/ x = Draft(id, "next_step", s) \/ x = Review(id)
      /\ \A x \in w : x \in v
  BY DEF DraftFor
<1>2. /\ Draft(id, "next_step", s).kind = "draft" /\ Draft(id, "next_step", s).id = id
      /\ Draft(id, "next_step", s).intent = "next_step" /\ Draft(id, "next_step", s).step = s
      /\ Review(id).kind = "review" /\ Review(id).draft = id
  BY DEF Draft, Review
<1> HIDE DEF v
<1>3. \A x \in v : Item(x)
  BY <1>1, <1>2 DEF WorkInv, Item, DraftItem
<1>4. Mirroring(v)
  BY <1>1, <1>2 DEF WorkInv, Mirroring
<1> QED BY <1>3, <1>4 DEF WorkInv, v

LEMMA DraftFollows ==
    ASSUME NEW w, Follows(w, work), NEW id, FreeId(id), NEW s
    PROVE  Follows(w \cup DraftFor(id, s), work)
<1> SUFFICES ASSUME NEW d \in work, d.kind = "draft", d \notin w,
                    Review(d.id) \in w \cup DraftFor(id, s)
             PROVE  FALSE
  BY DEF Follows
<1>1. Review(d.id) \notin w
  BY DEF Follows
<1>2. /\ Review(d.id).kind = "review" /\ Review(d.id).draft = d.id /\ Review(id).draft = id
      /\ Draft(id, "next_step", s).kind = "draft"
  BY DEF Review, Draft
<1>3. d.id # id
  BY DEF FreeId
<1> QED BY <1>1, <1>2, <1>3 DEF DraftFor

-----------------------------------------------------------------------------
(* The case row.                                                           *)

LEMMA RowWrites ==
    ASSUME NEW c \in CaseRow
    PROVE  /\ Reopened(c) \in CaseRow /\ Reopened(c).step = c.step
           /\ Reopened(c).status = "in_behandeling"
           /\ \A status \in Statuses \ TERMINAL_STATUSES :
                 /\ ReopenedByHand(c, status) \in CaseRow
                 /\ ReopenedByHand(c, status).status = status
                 /\ ReopenedByHand(c, status).step \in {c.step, NoStep}
           /\ \A status \in TERMINAL_STATUSES :
                 ClosedWith(c, status, 0) \in CaseRow /\ ClosedWith(c, status, 0).step = c.step
           /\ \A s \in Steps :
                 /\ Moved(c, s) \in CaseRow /\ Moved(c, s).step = s
                 /\ Closed(Moved(c, s)) <=> IsTerminal(s)
<1>1. /\ Reopened(c) \in CaseRow /\ Reopened(c).step = c.step
      /\ Reopened(c).status = "in_behandeling"
  BY DEF CaseRow, Reopened, Statuses
<1>2. ASSUME NEW status \in Statuses \ TERMINAL_STATUSES
      PROVE  /\ ReopenedByHand(c, status) \in CaseRow
             /\ ReopenedByHand(c, status).status = status
             /\ ReopenedByHand(c, status).step \in {c.step, NoStep}
  BY DEF CaseRow, ReopenedByHand
<1>3. ASSUME NEW status \in TERMINAL_STATUSES
      PROVE  ClosedWith(c, status, 0) \in CaseRow /\ ClosedWith(c, status, 0).step = c.step
  <2>1. 0 \in Days
    BY MaxDayAssumption DEF Days
  <2> QED BY <2>1 DEF CaseRow, ClosedWith, Statuses
<1>4. ASSUME NEW s \in Steps
      PROVE  /\ Moved(c, s) \in CaseRow /\ Moved(c, s).step = s
             /\ Closed(Moved(c, s)) <=> IsTerminal(s)
  <2>1. /\ status_for_step(s) \in Statuses
        /\ status_for_step(s) \in TERMINAL_STATUSES <=> IsTerminal(s)
    <3>1. CASE s = PaidStep
      BY <3>1, StepsAssumption DEF status_for_step, Statuses, TERMINAL_STATUSES, IsTerminal
    <3>2. CASE s = ClosedStep
      BY <3>2, StepsAssumption DEF status_for_step, Statuses, TERMINAL_STATUSES, IsTerminal
    <3>3. CASE s \notin {PaidStep, ClosedStep}
      BY <3>3 DEF status_for_step, Statuses, TERMINAL_STATUSES, IsTerminal
    <3> QED BY <3>1, <3>2, <3>3
  <2>2. IsTerminal(s) \in BOOLEAN
    BY DEF IsTerminal
  <2>3. Moved(c, s) \in CaseRow
    BY <2>1, <2>2 DEF Moved, CaseRow
  <2>4. Moved(c, s).step = s /\ Moved(c, s).status = status_for_step(s)
    BY DEF Moved, CaseRow
  <2> QED BY <2>1, <2>3, <2>4 DEF Closed
<1> QED BY <1>1, <1>2, <1>3, <1>4

\* A request writes the columns it changed, on the row of the moment.
LEMMA FlushWrites ==
    ASSUME case \in CaseRow, NEW loaded \in CaseRow, NEW c \in CaseRow,
           NEW row, row = Flush(case, loaded, c)
    PROVE  /\ row \in CaseRow
           /\ row.status \in {case.status, c.status}
           /\ c.status = loaded.status => row.status = case.status
           /\ c = loaded => row = case
           /\ loaded = case => row = c
<1>1. /\ DOMAIN case = {"status", "step", "date_closed", "freeze", "verweer"}
      /\ DOMAIN c = DOMAIN case /\ DOMAIN loaded = DOMAIN case
  BY DEF CaseRow
<1>2. /\ DOMAIN row = DOMAIN case
      /\ \A f \in DOMAIN case : row[f] = IF c[f] = loaded[f] THEN case[f] ELSE c[f]
  BY DEF Flush
<1>3. row = [f \in DOMAIN case |-> row[f]] /\ case = [f \in DOMAIN case |-> case[f]]
      /\ c = [f \in DOMAIN case |-> c[f]]
  BY <1>1, <1>2 DEF Flush, CaseRow
<1>4. row \in CaseRow
  <2>1. /\ row["status"] \in Statuses /\ row["step"] \in Steps \cup {NoStep}
        /\ row["date_closed"] \in BOOLEAN /\ row["freeze"] \in Days \cup {Never}
        /\ row["verweer"] \in BOOLEAN
    BY <1>1, <1>2 DEF CaseRow
  <2>2. row = [status |-> row["status"], step |-> row["step"], date_closed |-> row["date_closed"],
               freeze |-> row["freeze"], verweer |-> row["verweer"]]
    BY <1>1, <1>3
  <2> QED BY <2>1, <2>2 DEF CaseRow
<1>5. row.status \in {case.status, c.status} /\ (c.status = loaded.status => row.status = case.status)
  BY <1>1, <1>2
<1>6. c = loaded => row = case
  BY <1>2, <1>3
<1>7. loaded = case => row = c
  BY <1>1, <1>2, <1>3
<1> QED BY <1>4, <1>5, <1>6, <1>7

-----------------------------------------------------------------------------
(* What a handler does: it moves the case, closes it, changes the row in   *)
(* another way, or leaves the row alone.                                   *)

NewFor(new, s) ==
    \/ new = {} \/ new = {StepTask(s)}
    \/ ~IsTerminal(s) /\ \E id : FreeId(id) /\ new = DraftFor(id, s)

Moves(seen) ==
    \E s \in Steps : \E w, new :
        /\ case' = Flush(case, seen.case, Moved(seen.case, s))
        /\ WorkInv(w) /\ Follows(w, work) /\ NewFor(new, s)
        /\ work' = WorkAfterMove(w, s) \cup new

Closes(seen) ==
    \E status \in TERMINAL_STATUSES :
        /\ case' = Flush(case, seen.case, ClosedWith(seen.case, status, 0))
        /\ work' = ClosedWork(work)

Alters(seen) ==
    \E c \in CaseRow :
        /\ case' = Flush(case, seen.case, c)
        /\ c.step \in {seen.case.step, NoStep}
        /\ c.status = seen.case.status \/ c.status \notin TERMINAL_STATUSES
        /\ work' = work

Stays(seen) ==
    /\ case' = case /\ WorkInv(work') /\ ReviewsGo
    /\ seen.case = case => \A x \in work' : Unfit(x, case.step) => x \in work \cup shelf

Effect(seen) == Moves(seen) \/ Closes(seen) \/ Alters(seen) \/ Stays(seen)

IsFile(f) ==
    f = [case |-> f.case, consumer |-> f.consumer, work |-> f.work,
         entered |-> f.entered, rows |-> f.rows, evidence |-> f.evidence]

LEMMA FileIs ==
    ASSUME NEW seen
    PROVE  /\ IsFile(File(seen)) /\ File(seen).case = seen.case /\ File(seen).work = work
           /\ File(seen).consumer = seen.consumer /\ File(seen).evidence = evidence
BY DEF File, IsFile

LEMMA FileWork ==
    ASSUME NEW f, IsFile(f), NEW w, NEW g, g = [f EXCEPT !.work = w]
    PROVE  /\ IsFile(g) /\ g.case = f.case /\ g.work = w
           /\ g.consumer = f.consumer /\ g.evidence = f.evidence
           /\ g.entered = f.entered /\ g.rows = f.rows
<1>1. g = [case |-> f.case, consumer |-> f.consumer, work |-> w,
           entered |-> f.entered, rows |-> f.rows, evidence |-> f.evidence]
  BY DEF IsFile
<1> QED BY <1>1 DEF IsFile

LEMMA FileRow ==
    ASSUME NEW f, IsFile(f), NEW c, NEW w
    PROVE  [f EXCEPT !.case = c, !.work = w]
               = [case |-> c, consumer |-> f.consumer, work |-> w,
                  entered |-> f.entered, rows |-> f.rows, evidence |-> f.evidence]
<1> SUFFICES ASSUME NEW g, g = [f EXCEPT !.case = c, !.work = w]
             PROVE  g = [case |-> c, consumer |-> f.consumer, work |-> w,
                         entered |-> f.entered, rows |-> f.rows, evidence |-> f.evidence]
  BY Zenon
<1> QED BY DEF IsFile

LEMMA FileMove ==
    ASSUME NEW f, IsFile(f), NEW s, NEW g, g = MoveTo(f, s)
    PROVE  /\ IsFile(g) /\ g.case = Moved(f.case, s) /\ g.work = WorkAfterMove(f.work, s)
           /\ g.consumer = f.consumer /\ g.evidence = f.evidence
           /\ g.entered = today /\ g.rows = Trail(f.rows, f.case.step, s)
<1>1. g = [case |-> Moved(f.case, s), consumer |-> f.consumer, work |-> WorkAfterMove(f.work, s),
           entered |-> today, rows |-> Trail(f.rows, f.case.step, s), evidence |-> f.evidence]
  BY DEF IsFile, MoveTo
<1> QED BY <1>1 DEF IsFile

\* Only the first sending of the 14-day letter touches the evidence.
LEMMA FileMarked ==
    ASSUME NEW f, IsFile(f), NEW g, g = Marked(f)
    PROVE  /\ IsFile(g) /\ g.case = f.case /\ g.work = f.work /\ g.consumer = f.consumer
           /\ g.entered = f.entered
           /\ \/ g.rows = f.rows
              \/ /\ Len(f.rows[f.case.step]) # 0
                 /\ g.rows = [f.rows EXCEPT ![f.case.step][Len(f.rows[f.case.step])] = TRUE]
           /\ \/ g.evidence = f.evidence
              \/ f.case.step = DagenbriefStep /\ f.evidence = Never /\ g.evidence = today
<1> DEFINE s == f.case.step
           n == Len(f.rows[s])
           marked == [f.rows EXCEPT ![s][n] = TRUE]
           proof == IF s = DagenbriefStep /\ f.evidence = Never THEN today ELSE f.evidence
<1>1. CASE n = 0
  BY <1>1 DEF Marked
<1>2. CASE n # 0
  <2>1. g = [f EXCEPT !.rows = marked, !.evidence = proof]
    BY <1>2 DEF Marked, IsFile
  <2> HIDE DEF marked, proof
  <2>2. g = [case |-> f.case, consumer |-> f.consumer, work |-> f.work,
             entered |-> f.entered, rows |-> marked, evidence |-> proof]
    BY <2>1 DEF IsFile
  <2> QED BY <1>2, <2>2 DEF IsFile, proof, marked
<1> QED BY <1>1, <1>2

\* The work of a file once the sending of its letter was recorded.
Recorded(f, record) ==
    IF record /\ f.case.step # NoStep
    THEN CloseMirrors(f.work, f.case.step, {"followup_send"}) ELSE f.work

GoneOn(f, g, w, target) ==
    /\ f.case.step \in DOMAIN Advance /\ target = Advance[f.case.step]
    /\ ~Guarded(f, target)
    /\ g.case = Moved(f.case, target) /\ g.work = WorkAfterMove(w, target)

\* After a letter the case goes on by the rule of its step, or stays there.
LEMMA AfterSend ==
    ASSUME NEW f, IsFile(f), NEW record \in BOOLEAN, NEW g, g = AdvanceAfterSend(f, record)
    PROVE  /\ \/ g.evidence = f.evidence
              \/ /\ record /\ f.case.step = DagenbriefStep
                 /\ f.evidence = Never /\ g.evidence = today
           /\ \/ /\ g.case = f.case
                 /\ \/ g.work = Recorded(f, record)
                    \/ g.work = Recorded(f, record) \cup {Task("b2c_pipeline_end")}
              \/ \E target : GoneOn(f, g, Recorded(f, record), target)
<1> DEFINE w == Recorded(f, record)
<1>1. CASE f.case.step = NoStep
  BY <1>1 DEF AdvanceAfterSend, Recorded
<1>2. CASE f.case.step # NoStep
  <2> DEFINE m == Marked(f)
             sent == [m EXCEPT !.work = CloseMirrors(m.work, f.case.step, {"followup_send"})]
             h == IF record THEN sent ELSE f
  <2>1. /\ IsFile(m) /\ m.case = f.case /\ m.work = f.work /\ m.consumer = f.consumer
        /\ \/ m.evidence = f.evidence
           \/ f.case.step = DagenbriefStep /\ f.evidence = Never /\ m.evidence = today
    BY FileMarked
  <2> HIDE DEF m
  <2>2. /\ IsFile(sent) /\ sent.case = m.case /\ sent.consumer = m.consumer
        /\ sent.work = CloseMirrors(m.work, f.case.step, {"followup_send"})
        /\ sent.evidence = m.evidence
    BY <2>1, FileWork
  <2>3. [Marked(f) EXCEPT !.work = CloseMirrors(@, f.case.step, {"followup_send"})] = sent
    BY <2>1 DEF IsFile, m
  <2>4. g = GoOn(h)
    BY <1>2, <2>3 DEF AdvanceAfterSend
  <2> HIDE DEF sent
  <2>5. /\ IsFile(h) /\ h.case = f.case /\ h.work = w /\ h.consumer = f.consumer
        /\ \/ h.evidence = f.evidence
           \/ /\ record /\ f.case.step = DagenbriefStep
              /\ f.evidence = Never /\ h.evidence = today
    BY <1>2, <2>1, <2>2 DEF Recorded
  <2> HIDE DEF h, w
  <2> DEFINE target == Advance[h.case.step]
  <2>6. CASE h.case.step \notin DOMAIN Advance
    BY <2>4, <2>5, <2>6 DEF GoOn, w
  <2>7. CASE h.case.step \in DOMAIN Advance /\ ~Guarded(h, target)
    <3>1. g = MoveTo(h, target)
      BY <2>4, <2>7 DEF GoOn, Guarded
    <3>2. /\ g.case = Moved(h.case, target) /\ g.work = WorkAfterMove(h.work, target)
          /\ g.evidence = h.evidence
      BY <2>5, <3>1, FileMove
    <3>3. ~Guarded(f, target)
      BY <2>5, <2>7 DEF Guarded
    <3>4. GoneOn(f, g, w, target)
      BY <2>5, <2>7, <3>2, <3>3 DEF GoneOn
    <3> QED BY <2>5, <3>2, <3>4 DEF w
  <2>8. CASE h.case.step \in DOMAIN Advance /\ Guarded(h, target)
    <3> DEFINE asked == [h EXCEPT !.work = h.work \cup {Task("b2c_pipeline_end")}]
    <3>1. asked.case = h.case /\ asked.evidence = h.evidence
          /\ asked.work = h.work \cup {Task("b2c_pipeline_end")}
      BY <2>5, FileWork
    <3>2. [h EXCEPT !.work = @ \cup {Task("b2c_pipeline_end")}] = asked
      BY <2>5 DEF IsFile
    <3> HIDE DEF asked
    <3>3. g \in {h, asked}
      BY <2>4, <2>8, <3>2 DEF GoOn
    <3> QED BY <2>5, <3>1, <3>3 DEF w
  <2> QED BY <2>6, <2>7, <2>8
<1> QED BY <1>1, <1>2

\* What is new is a task, or fits.
LEMMA StaysIf ==
    ASSUME NEW seen, case' = case, WorkInv(work'), ReviewsGo,
           \A x \in work' : x \in work \/ x.kind \notin {"advice", "draft"}
    PROVE  Stays(seen)
BY DEF Stays, Unfit

\* Tasks are added and taken off without more ado.
LEMMA TaskAdded ==
    ASSUME NEW w, WorkInv(w), NEW x, x.kind = "task"
    PROVE  WorkInv(w \cup {x})
BY TasksAreFree

LEMMA StepTaskGone ==
    ASSUME NEW w, NEW s
    PROVE  /\ WithoutStepTask(w, s) \subseteq w
           /\ \A x \in w : x.kind # "task" => x \in WithoutStepTask(w, s)
           /\ WorkInv(w) => WorkInv(WithoutStepTask(w, s))
<1> DEFINE v == WithoutStepTask(w, s)
<1>1. v \subseteq w /\ \A x \in w : x.kind # "task" => x \in v
  BY DEF WithoutStepTask, StepTask
<1> HIDE DEF v
<1>2. WorkInv(w) => WorkInv(v)
  BY <1>1, TasksAreFree
<1> QED BY <1>1, <1>2 DEF v

\* A letter that was sent, or a draft that was completed.
LEMMA SentEffect ==
    ASSUME case \in CaseRow, NEW seen, seen.case \in CaseRow,
           NEW f, IsFile(f), f.case = seen.case, NEW record \in BOOLEAN,
           WorkInv(Recorded(f, record)), Recorded(f, record) \subseteq work,
           Follows(Recorded(f, record), work),
           Become(seen, AdvanceAfterSend(f, record))
    PROVE  Effect(seen)
<1> DEFINE g == AdvanceAfterSend(f, record)
           w == Recorded(f, record)
<1>1. case' = Flush(case, seen.case, g.case) /\ work' = g.work
  BY DEF Become
<1>2. CASE g.case = f.case /\ (g.work = w \/ g.work = w \cup {Task("b2c_pipeline_end")})
  <2>1. case' = case
    BY <1>1, <1>2, FlushWrites
  <2>2. Task("b2c_pipeline_end").kind = "task"
    BY DEF Task
  <2> HIDE DEF g, w
  <2>3. w \subseteq work /\ WorkInv(w) /\ Follows(w, work)
    BY DEF w
  <2>4. WorkInv(work') /\ \A x \in work' : x \in work \/ x.kind = "task"
    BY <1>1, <1>2, <2>2, <2>3, TaskAdded
  <2>5. w \subseteq work' /\ \A x \in work' : x \in w \/ x.kind # "review"
    BY <1>1, <1>2, <2>2
  <2>6. ReviewsGo
    BY <2>3, <2>5, NoReviewAdded, FollowsGoes
  <2> QED BY <2>1, <2>4, <2>6, StaysIf DEF Effect
<1>3. ASSUME NEW target, GoneOn(f, g, w, target)
      PROVE  Moves(seen)
  <2>1. target \in Steps
    BY <1>3, PipelineAssumption DEF GoneOn
  <2>2. /\ case' = Flush(case, seen.case, Moved(seen.case, target))
        /\ work' = WorkAfterMove(w, target) \cup {}
    BY <1>1, <1>3 DEF GoneOn
  <2> HIDE DEF g, w
  <2>3. WorkInv(w) /\ Follows(w, work)
    BY DEF w
  <2> QED BY <2>1, <2>2, <2>3 DEF Moves, NewFor
<1> QED BY <1>2, <1>3, AfterSend DEF Effect

LEMMA UnmovedStays ==
    ASSUME WorkInv(work), UNCHANGED <<case, work>>, NEW seen
    PROVE  Stays(seen) /\ Effect(seen)
BY DEF Stays, Effect, ReviewsGo, OfKind

LEMMA CaseHandlerEffect ==
    ASSUME case \in CaseRow, WorkInv(work), NEW seen, Seen(seen), CaseHandler(seen)
    PROVE  Effect(seen)
<1>c. seen.case \in CaseRow
  BY DEF Seen
<1>f. /\ IsFile(File(seen)) /\ File(seen).case = seen.case /\ File(seen).work = work
  BY FileIs
<1>k. Follows(work, work)
  BY DEF Follows
<1>1. ASSUME NEW s \in Steps, move_step(seen, s)
      PROVE  Moves(seen)
  <2>1. Become(seen, MoveTo(File(seen), s))
    BY <1>1 DEF move_step
  <2>2. /\ case' = Flush(case, seen.case, Moved(seen.case, s))
        /\ work' = WorkAfterMove(work, s) \cup {}
    BY <1>f, <2>1, FileMove DEF Become
  <2> QED BY <1>k, <2>2 DEF Moves, NewFor
<1>2. ASSUME NEW s \in Steps, batch_advance_step(seen, s)
      PROVE  Moves(seen)
  <2> DEFINE f == MoveTo(File(seen), s)
             g == [f EXCEPT !.work = f.work \cup {StepTask(s)}]
  <2>1. /\ IsFile(f) /\ f.case = Moved(seen.case, s) /\ f.work = WorkAfterMove(work, s)
    BY <1>f, FileMove
  <2> HIDE DEF f
  <2>2. g.case = f.case /\ g.work = f.work \cup {StepTask(s)}
    BY <2>1, FileWork
  <2>3. [f EXCEPT !.work = @ \cup {StepTask(s)}] = g
    BY <2>1 DEF IsFile
  <2>4. Become(seen, g)
    BY <1>2, <2>3 DEF batch_advance_step, f
  <2> HIDE DEF g
  <2>5. /\ case' = Flush(case, seen.case, Moved(seen.case, s))
        /\ work' = WorkAfterMove(work, s) \cup {StepTask(s)}
    BY <2>1, <2>2, <2>4 DEF Become
  <2> QED BY <1>k, <2>5 DEF Moves, NewFor
<1>3. ASSUME clear_step(seen) PROVE Alters(seen)
  <2>1. [seen.case EXCEPT !.step = NoStep] \in CaseRow
    BY <1>c DEF CaseRow
  <2>2. /\ [seen.case EXCEPT !.step = NoStep].step = NoStep
        /\ [seen.case EXCEPT !.step = NoStep].status = seen.case.status
    BY <1>c DEF CaseRow
  <2> QED BY <1>3, <2>1, <2>2 DEF clear_step, Alters
<1>4. ASSUME set_debtor_type(seen) PROVE Stays(seen)
  BY <1>4, UnmovedStays DEF set_debtor_type, fileVars
<1>5. ASSUME NEW b \in BOOLEAN, set_case_verweer(seen, b) PROVE Alters(seen)
  <2>1. [seen.case EXCEPT !.verweer = b] \in CaseRow
    BY <1>c DEF CaseRow
  <2>2. /\ [seen.case EXCEPT !.verweer = b].step = seen.case.step
        /\ [seen.case EXCEPT !.verweer = b].status = seen.case.status
    BY <1>c DEF CaseRow
  <2> QED BY <1>5, <2>1, <2>2 DEF set_case_verweer, Alters
<1>6. ASSUME NEW status \in Statuses, update_case_status(seen, status)
      PROVE  Closes(seen) \/ Alters(seen)
  <2> DEFINE c == WithStatus(seen.case, status, 0)
             w == WorkWithStatus(work, status)
             g == [File(seen) EXCEPT !.case = c, !.work = w]
  <2>1. [File(seen) EXCEPT !.case = WithStatus(@, status, 0), !.work = WorkWithStatus(@, status)] = g
    BY <1>f DEF IsFile
  <2>2. Become(seen, g)
    BY <1>6, <2>1 DEF update_case_status
  <2> HIDE DEF c, w
  <2>3. g.case = c /\ g.work = w
    BY <1>f DEF IsFile
  <2> HIDE DEF g
  <2>4. case' = Flush(case, seen.case, c) /\ work' = w
    BY <2>2, <2>3 DEF Become
  <2>5. CASE status \in TERMINAL_STATUSES
    BY <2>4, <2>5 DEF c, w, WithStatus, WorkWithStatus, Closes
  <2>6. CASE status \notin TERMINAL_STATUSES
    <3>1. c = ReopenedByHand(seen.case, status) /\ w = work
      BY <2>6 DEF c, w, WithStatus, WorkWithStatus
    <3>2. c \in CaseRow /\ c.status = status /\ c.step \in {seen.case.step, NoStep}
      BY <1>c, <2>6, <3>1, RowWrites
    <3> QED BY <2>4, <2>6, <3>1, <3>2 DEF Alters
  <2> QED BY <2>5, <2>6
<1>7. ASSUME on_payment_received(seen) PROVE Closes(seen)
  <2> DEFINE c == ClosedWith(seen.case, "betaald", 0)
             w == ClosedWork(work)
             g == [File(seen) EXCEPT !.case = c, !.work = w]
  <2>1. [File(seen) EXCEPT !.case = ClosedWith(@, "betaald", 0), !.work = ClosedWork(@)] = g
    BY <1>f DEF IsFile
  <2>2. Become(seen, g)
    BY <1>7, <2>1 DEF on_payment_received
  <2> HIDE DEF c, w
  <2>3. g.case = c /\ g.work = w
    BY <1>f DEF IsFile
  <2> HIDE DEF g
  <2>4. case' = Flush(case, seen.case, c) /\ work' = w
    BY <2>2, <2>3 DEF Become
  <2> QED BY <2>4 DEF c, w, Closes, TERMINAL_STATUSES
<1>8. ASSUME payment_taken_back(seen) PROVE Alters(seen)
  <2> DEFINE c == Reopened(seen.case)
             g == [File(seen) EXCEPT !.case = c]
  <2>1. [File(seen) EXCEPT !.case = Reopened(@)] = g
    BY <1>f DEF IsFile
  <2>2. Become(seen, g)
    BY <1>8, <2>1 DEF payment_taken_back
  <2> HIDE DEF c
  <2>3. g.case = c /\ g.work = work
    BY <1>f DEF IsFile
  <2> HIDE DEF g
  <2>4. case' = Flush(case, seen.case, c) /\ work' = work
    BY <2>2, <2>3 DEF Become
  <2>5. c \in CaseRow /\ c.step = seen.case.step /\ c.status \notin TERMINAL_STATUSES
    BY <1>c, RowWrites DEF c, TERMINAL_STATUSES
  <2> QED BY <2>4, <2>5 DEF Alters
<1> QED BY <1>1, <1>2, <1>3, <1>4, <1>5, <1>6, <1>7, <1>8 DEF CaseHandler, Effect

-----------------------------------------------------------------------------
(* Letters and advice.                                                     *)

\* Advice that is carried out goes with the task that mirrors it.
LEMMA CarriedOut ==
    ASSUME NEW w, WorkInv(w), NEW x, AdviceItem(x), NEW v,
           v \subseteq w, \A y \in w : y # x /\ y.kind \in {"draft", "review", "advice"} => y \in v,
           \A z \in v : ~(z.kind = "mirror" /\ z.source = "followup_send"
                          /\ z.id = x.id /\ z.step = x.step)
    PROVE  WorkInv(v) /\ Follows(v, w)
<1>x. x.kind = "advice"
  BY DEF AdviceItem, Advice
<1>1. \A y \in v : Item(y)
  BY DEF WorkInv
<1>2. Mirroring(v)
  BY DEF WorkInv, Mirroring
<1>3. Follows(v, w)
  BY <1>x, DraftsKept
<1> QED BY <1>1, <1>2, <1>3 DEF WorkInv

LEMMA BatchEffect ==
    ASSUME case \in CaseRow, WorkInv(work), NEW seen, Seen(seen), NEW send \in BOOLEAN,
           batch_generate_document(seen, send)
    PROVE  Effect(seen)
<1> DEFINE s == seen.case.step
           w == WithoutStepTask(work, s)
           f == [File(seen) EXCEPT !.work = w]
<1>1. Become(seen, AdvanceAfterSend(f, send))
  <2>1. [File(seen) EXCEPT !.work = WithoutStepTask(@, s)] = f
    BY FileIs DEF IsFile
  <2> QED BY <2>1 DEF batch_generate_document
<1> HIDE DEF w
<1>2. IsFile(f) /\ f.case = seen.case /\ f.work = w
  BY FileIs, FileWork
<1> HIDE DEF f
<1>3. WorkInv(w) /\ w \subseteq work
  BY StepTaskGone DEF w
<1>4. /\ WorkInv(Recorded(f, send)) /\ Recorded(f, send) \subseteq work
      /\ \A x \in w : x.kind = "draft" => x \in Recorded(f, send)
  BY <1>2, <1>3, MirrorsClosed DEF Recorded
<1>5. Follows(Recorded(f, send), work)
  <2>1. \A x \in work : x.kind = "draft" => x \in w
    BY StepTaskGone DEF w
  <2> QED BY <1>4, <2>1, DraftsKept
<1> QED BY <1>1, <1>2, <1>4, <1>5, SentEffect DEF Seen

LEMMA ComposeEffect ==
    ASSUME case \in CaseRow, WorkInv(work), NEW seen, Seen(seen), NEW t, NEW override,
           compose_send(seen, t, override)
    PROVE  Effect(seen)
<1> DEFINE f == File(seen)
<1>1. IsFile(f) /\ f.case = seen.case /\ f.work = work
  BY FileIs
<1>2. Become(seen, IF t = f.case.step THEN AdvanceAfterSend(f, TRUE) ELSE f)
  BY DEF compose_send
<1> HIDE DEF f
<1>3. CASE t = f.case.step
  <2>1. /\ WorkInv(Recorded(f, TRUE)) /\ Recorded(f, TRUE) \subseteq work
        /\ \A x \in work : x.kind = "draft" => x \in Recorded(f, TRUE)
    BY <1>1, MirrorsClosed DEF Recorded
  <2>2. Follows(Recorded(f, TRUE), work)
    BY <2>1, DraftsKept
  <2> QED BY <1>1, <1>2, <1>3, <2>1, <2>2, SentEffect DEF Seen
<1>4. CASE t # f.case.step
  <2>1. case' = Flush(case, seen.case, seen.case) /\ work' = work
    BY <1>1, <1>2, <1>4 DEF Become
  <2>2. case' = case
    BY <2>1, FlushWrites DEF Seen
  <2> QED BY <2>1, <2>2, UnmovedStays
<1> QED BY <1>3, <1>4

LEMMA ExecuteEffect ==
    ASSUME case \in CaseRow, WorkInv(work), NEW seen, Seen(seen), NEW x, AdviceItem(x),
           execute_recommendation(seen, x)
    PROVE  Effect(seen)
<1> DEFINE w == WithoutStepTask(work \ {x}, x.step)
           f == [File(seen) EXCEPT !.work = w]
<1>f. [File(seen) EXCEPT !.work = WithoutStepTask(@ \ {x}, x.step)] = f
  BY FileIs DEF IsFile
<1>w. /\ w \subseteq work \ {x}
      /\ \A y \in work \ {x} : y.kind # "task" => y \in w
  BY StepTaskGone
<1> HIDE DEF w
<1>i. IsFile(f) /\ f.case = seen.case /\ f.work = w
  BY FileIs DEF IsFile
<1> HIDE DEF f
<1>1. CASE x.step \in LetterSteps /\ MayExecute(f, x) /\ Become(seen, AdvanceAfterSend(f, TRUE))
  <2>1. f.case.step = x.step /\ x.step # NoStep
    BY <1>1, StepsAssumption DEF MayExecute, AdviceItem
  <2> DEFINE v == CloseMirrors(w, x.step, {"followup_send"})
  <2>2. Recorded(f, TRUE) = v
    BY <1>i, <2>1 DEF Recorded
  <2>3. /\ v \subseteq w /\ \A y \in w : y.kind # "mirror" => y \in v
        /\ \A z \in v : ~(z.kind = "mirror" /\ z.source = "followup_send" /\ z.step = x.step)
    BY DEF CloseMirrors
  <2> HIDE DEF v
  <2>4. /\ v \subseteq work
        /\ \A y \in work : y # x /\ y.kind \in {"draft", "review", "advice"} => y \in v
    BY <1>w, <2>3
  <2>5. WorkInv(v) /\ Follows(v, work)
    BY <2>3, <2>4, CarriedOut
  <2> QED BY <1>1, <1>i, <2>2, <2>4, <2>5, SentEffect DEF Seen
<1>2. CASE /\ x.step \notin LetterSteps /\ UNCHANGED case
           /\ work' = IF Mirror(x.id, x.step) \in work THEN work \ {x}
                      ELSE (work \ {x}) \cup {Task("followup_advisor")}
  <2> DEFINE v == work \ {x}
  <2>1. \A z \in v : ~(z.kind = "mirror" /\ z.source = "followup_send"
                       /\ z.id = x.id /\ z.step = x.step)
    BY <1>2 DEF WorkInv, Item, Mirror
  <2>2. WorkInv(v) /\ Follows(v, work)
    BY <2>1, CarriedOut
  <2>3. Task("followup_advisor").kind = "task"
    BY DEF Task
  <2>4. v \subseteq work /\ (work' = v \/ work' = v \cup {Task("followup_advisor")})
    BY <1>2
  <2> HIDE DEF v
  <2>5. WorkInv(work') /\ \A y \in work' : y \in work \/ y.kind = "task"
    BY <2>2, <2>3, <2>4, TaskAdded
  <2>6. v \subseteq work' /\ \A y \in work' : y \in v \/ y.kind # "review"
    BY <2>3, <2>4
  <2>7. ReviewsGo
    BY <2>2, <2>6, NoReviewAdded, FollowsGoes
  <2> QED BY <1>2, <2>5, <2>7, StaysIf DEF Effect
<1> QED BY <1>1, <1>2, <1>f DEF execute_recommendation

LEMMA ReviewEffect ==
    ASSUME case \in CaseRow, WorkInv(work), NEW seen, NEW x, AdviceItem(x),
           approve_recommendation(seen, x) \/ reject_recommendation(seen, x)
    PROVE  Effect(seen)
<1>x. /\ x.kind = "advice" /\ x.id = x.id /\ x.step \in Steps
      /\ [x EXCEPT !.status = "approved"] = Advice(x.id, x.step, "approved")
  BY DEF AdviceItem, Advice
<1>1. CASE approve_recommendation(seen, x)
  <2> DEFINE y == Advice(x.id, x.step, "approved")
             v == (work \ {x}) \cup {y}
  <2>1. work' = v /\ UNCHANGED case
    BY <1>1, <1>x DEF approve_recommendation, Reviewed
  <2>2. /\ AdviceItem(y) /\ y.kind = "advice" /\ y.id = x.id /\ y.step = x.step
        /\ y.status = "approved"
    BY <1>x DEF AdviceItem, Advice
  <2>3. /\ \A z \in v : z \in work \/ z = y
        /\ \A z \in work : z # x => z \in v
        /\ y \in v
    OBVIOUS
  <2> HIDE DEF y, v
  <2>4. \A z \in v : Item(z)
    BY <2>2, <2>3 DEF WorkInv, Item
  <2>5. Mirroring(v)
    BY <1>x, <2>2, <2>3 DEF WorkInv, Mirroring
  <2>6. \A z \in v : Unfit(z, case.step) => z \in work
    BY <2>2, <2>3 DEF Unfit
  <2>7. ReviewsGo
    BY <1>x, <2>1, <2>3, DraftsKept, FollowsGoes
  <2> QED BY <2>1, <2>4, <2>5, <2>6, <2>7 DEF Effect, Stays, WorkInv
<1>2. CASE reject_recommendation(seen, x)
  <2> DEFINE v == CloseMirrors(work \ {x}, x.step, {"followup_send", "followup_escalate"})
  <2>1. work' = v /\ UNCHANGED case
    BY <1>2 DEF reject_recommendation
  <2>2. /\ v \subseteq work
        /\ \A y \in work : y # x /\ y.kind \in {"draft", "review", "advice"} => y \in v
        /\ \A z \in v : ~(z.kind = "mirror" /\ z.source = "followup_send" /\ z.step = x.step)
    BY DEF CloseMirrors
  <2> HIDE DEF v
  <2>3. WorkInv(v) /\ Follows(v, work)
    BY <2>2, CarriedOut
  <2>4. ReviewsGo
    BY <2>1, <2>3, FollowsGoes
  <2> QED BY <2>1, <2>2, <2>3, <2>4, StaysIf DEF Effect
<1> QED BY <1>1, <1>2

-----------------------------------------------------------------------------
(* Drafts, and the jobs.                                                   *)

\* A draft for the step on which the case stands, or the next one.
LEMMA DraftStays ==
    ASSUME WorkInv(work), NEW seen, NEW id, FreeId(id), NEW s,
           case' = case, work' = work \cup DraftFor(id, s),
           seen.case = case => ~Unfit(Draft(id, "next_step", s), case.step)
    PROVE  Stays(seen)
<1>1. WorkInv(work') /\ ReviewsGo
  <2>1. Follows(work, work)
    BY DEF Follows
  <2> QED BY <2>1, DraftAdded, DraftFollows, FollowsGoes
<1>2. ~Unfit(Review(id), case.step)
  BY DEF Unfit, Review
<1> QED BY <1>1, <1>2 DEF Stays, DraftFor

\* A draft of another kind or step may take the place of one that is set aside.
LEMMA DraftReplaced ==
    ASSUME WorkInv(work), UNCHANGED <<case, mailed>>, NEW seen, NEW id, FreeId(id),
           NEW intent \in {"next_step", "reply"},
           NEW old, \A d \in old : d \in work /\ d.kind = "draft" /\ d.intent = intent,
           work' = (work \ old) \cup {Draft(id, intent, seen.case.step)}
    PROVE  Stays(seen)
<1> DEFINE n == Draft(id, intent, seen.case.step)
<1>1. /\ DraftItem(n) /\ n.kind = "draft" /\ n.intent = intent /\ n.step = seen.case.step
      /\ n.id = id
  BY DEF Draft, DraftItem
<1>2. /\ \A x \in work' : x \in work \/ x = n
      /\ \A x \in work : x \in old \/ x \in work'
      /\ n \in work'
  OBVIOUS
<1> HIDE DEF n
<1>3. \A x \in work' : Item(x)
  BY <1>1, <1>2 DEF WorkInv, Item
<1>4. Mirroring(work')
  BY <1>1, <1>2 DEF WorkInv, Mirroring
<1>5. ~Unfit(n, seen.case.step)
  BY <1>1 DEF Unfit
<1>6. n \notin work
  BY <1>1 DEF FreeId
<1>7. ReviewsGo
  <2> SUFFICES ASSUME NEW d \in work, d.kind = "draft", d \notin work' PROVE SetAside(d)
    BY DEF ReviewsGo, OfKind
  <2>1. d.intent = intent
    BY <1>2
  <2> QED BY <1>1, <1>2, <1>6, <2>1 DEF SetAside, OfKind
<1> QED BY <1>2, <1>3, <1>4, <1>5, <1>7 DEF Stays, WorkInv

LEMMA DraftHandlerEffect ==
    ASSUME WorkInv(work), NEW seen, DraftHandler(seen)
    PROVE  Effect(seen)
<1>1. ASSUME NEW id, generate_draft_for_current_step(seen, id)
      PROVE  Stays(seen)
  <2>1. case' = case /\ FreeId(id) /\ work' = work \cup DraftFor(id, seen.case.step)
    BY <1>1 DEF generate_draft_for_current_step
  <2>2. ~Unfit(Draft(id, "next_step", seen.case.step), seen.case.step)
    BY DEF Unfit, Draft
  <2> QED BY <2>1, <2>2, DraftStays
<1>2. ASSUME NEW id, generate_next_step(seen, id) PROVE Stays(seen)
  <2> DEFINE new  == Draft(id, "next_step", seen.case.step)
             same == {d \in OfKind(work, "draft") : d.intent = new.intent /\ d.step = new.step}
  <2>1. UNCHANGED <<case, mailed>> /\ FreeId(id)
    BY <1>2 DEF generate_next_step
  <2>2. \A d \in same : d \in work /\ d.kind = "draft" /\ d.intent = "next_step"
    BY DEF OfKind, Draft
  <2>3. work' = work \cup {new} \/ \E d \in same : work' = (work \ {d}) \cup {new}
    BY <1>2 DEF generate_next_step
  <2> HIDE DEF same
  <2>r. ASSUME NEW old, \A e \in old : e \in same, work' = (work \ old) \cup {new}
        PROVE  Stays(seen)
    <3>1. \A e \in old : e \in work /\ e.kind = "draft" /\ e.intent = "next_step"
      BY <2>2, <2>r
    <3>2. work' = (work \ old) \cup {Draft(id, "next_step", seen.case.step)}
      BY <2>r
    <3> QED BY <2>1, <3>1, <3>2, DraftReplaced
  <2> HIDE DEF new
  <2>4. CASE work' = work \cup {new}
    <3> DEFINE none == {e \in work : FALSE}
    <3>1. (\A e \in none : e \in same) /\ work' = (work \ none) \cup {new}
      BY <2>4
    <3> HIDE DEF none
    <3> QED BY <2>r, <3>1
  <2>5. ASSUME NEW d \in same, work' = (work \ {d}) \cup {new} PROVE Stays(seen)
    <3>1. \A e \in {d} : e \in same
      OBVIOUS
    <3> QED BY <2>5, <2>r, <3>1
  <2> QED BY <2>3, <2>4, <2>5
<1>3. ASSUME NEW id, generate_reply(seen, id) PROVE Stays(seen)
  <2>1. PICK old \in SUBSET {d \in OfKind(work, "draft") : d.intent = "reply"} :
            work' = (work \ old) \cup {Draft(id, "reply", seen.case.step)}
    BY <1>3 DEF generate_reply
  <2>2. UNCHANGED <<case, mailed>> /\ FreeId(id)
    BY <1>3 DEF generate_reply
  <2>3. \A d \in old : d \in work /\ d.kind = "draft" /\ d.intent = "reply"
    BY DEF OfKind
  <2> QED BY <2>1, <2>2, <2>3, DraftReplaced
<1>4. ASSUME NEW d, NEW override, send_draft(seen, d, override) PROVE Stays(seen)
  BY <1>4, UnmovedStays DEF send_draft, fileVars
<1> QED BY <1>1, <1>2, <1>3, <1>4 DEF DraftHandler, Effect

LEMMA CompletionEffect ==
    ASSUME case \in CaseRow, WorkInv(work), NEW seen, Seen(seen), NEW d, d.kind = "draft",
           complete_ai_draft_after_send(seen, d)
    PROVE  Effect(seen)
<1> DEFINE w == work \ {d, Review(d.id)}
           f == [File(seen) EXCEPT !.work = w]
<1>f. [File(seen) EXCEPT !.work = @ \ {d, Review(d.id)}] = f
  BY FileIs DEF IsFile
<1>w. w \subseteq work /\ WorkInv(w) /\ Follows(w, work)
  <2>1. /\ \A x : x \in w <=> x \in work /\ x # d /\ x # Review(d.id)
        /\ Review(d.id).kind = "review"
    BY DEF Review
  <2> HIDE DEF w
  <2>2. \A x \in w : Item(x)
    BY <2>1 DEF WorkInv
  <2>3. Mirroring(w)
    BY <2>1 DEF WorkInv, Mirroring
  <2>4. Follows(w, work)
    BY <2>1 DEF Follows
  <2> QED BY <2>1, <2>2, <2>3, <2>4 DEF WorkInv
<1> HIDE DEF w
<1>i. IsFile(f) /\ f.case = seen.case /\ f.work = w
  BY FileIs DEF IsFile
<1>b. Become(seen, IF d.intent = "next_step" THEN AdvanceAfterSend(f, TRUE) ELSE f)
  BY <1>f DEF complete_ai_draft_after_send
<1> HIDE DEF f
<1>1. CASE d.intent = "next_step"
  <2>1. /\ WorkInv(Recorded(f, TRUE)) /\ Recorded(f, TRUE) \subseteq w
        /\ \A x \in w : x.kind = "draft" => x \in Recorded(f, TRUE)
    BY <1>i, <1>w, MirrorsClosed DEF Recorded
  <2>2. Recorded(f, TRUE) \subseteq work /\ Follows(Recorded(f, TRUE), work)
    BY <1>w, <2>1, DraftsKept, FollowsOn
  <2> QED BY <1>1, <1>i, <1>b, <2>1, <2>2, SentEffect DEF Seen
<1>2. CASE d.intent # "next_step"
  <2>1. case' = Flush(case, seen.case, seen.case) /\ work' = w
    BY <1>2, <1>i, <1>b DEF Become
  <2>2. case' = case
    BY <2>1, FlushWrites DEF Seen
  <2> QED BY <1>w, <2>1, <2>2, FollowsGoes, StaysIf DEF Effect
<1> QED BY <1>1, <1>2

LEMMA ScanEffect ==
    ASSUME WorkInv(work), NEW seen, scan_for_followups
    PROVE  Effect(seen)
<1>1. PICK id \in AdviceIds :
          work' = work \cup {Advice(id, case.step, "pending"), Mirror(id, case.step)}
  BY DEF scan_for_followups
<1> DEFINE a == Advice(id, case.step, "pending")
           m == Mirror(id, case.step)
           v == work \cup {a, m}
<1>2. case.step \in Steps /\ UNCHANGED case /\ work' = v
  BY <1>1 DEF scan_for_followups, MayAdvise, Ripe, WorkSteps
<1>3. /\ AdviceItem(a) /\ a.kind = "advice" /\ a.id = id /\ a.step = case.step
      /\ m.kind = "mirror" /\ m.id = id /\ m.step = case.step /\ m = Mirror(m.id, m.step)
  BY <1>2 DEF AdviceItem, Advice, Mirror
<1>4. (\A x \in v : x \in work \/ x = a \/ x = m) /\ (\A x \in work : x \in v) /\ a \in v
  OBVIOUS
<1> HIDE DEF a, m, v
<1>5. \A x \in v : Item(x)
  BY <1>3, <1>4 DEF WorkInv, Item
<1>6. Mirroring(v)
  BY <1>3, <1>4 DEF WorkInv, Mirroring
<1>7. \A x \in v : Unfit(x, case.step) => x \in work
  BY <1>3, <1>4 DEF Unfit
<1>8. ReviewsGo
  BY <1>2, <1>4, DraftsKept, FollowsGoes
<1> QED BY <1>2, <1>5, <1>6, <1>7, <1>8 DEF WorkInv, Effect, Stays

LEMMA NowSeen ==
    /\ Now.case = case /\ Now.work = work /\ Now.consumer = consumer
    /\ case \in CaseRow /\ WorkInv(work) => Seen(Now)
BY DEF Now, Seen, WorkInv

LEMMA VerweerIs == VerweerStep \in Steps /\ ~IsTerminal(VerweerStep)
BY PipelineAssumption, StepsAssumption DEF IsTerminal

LEMMA DefenseEffect ==
    ASSUME case \in CaseRow, WorkInv(work), NEW id, trigger_defense_response(id)
    PROVE  Effect(Now)
<1> DEFINE moved == MoveTo(File(Now), VerweerStep)
           f == IF case.step \in MainSteps THEN moved ELSE File(Now)
           g == [f EXCEPT !.work = f.work \cup DraftFor(id, VerweerStep)]
<1>n. Now.case = case
  BY NowSeen
<1>1. /\ IsFile(File(Now)) /\ File(Now).case = case /\ File(Now).work = work
  BY FileIs, <1>n
<1>2. /\ IsFile(moved) /\ moved.case = Moved(case, VerweerStep)
      /\ moved.work = WorkAfterMove(work, VerweerStep)
  BY <1>1, FileMove
<1> HIDE DEF moved
<1>3. IsFile(f)
  BY <1>1, <1>2
<1>4. /\ case.step \in MainSteps \cup {VerweerStep}
      /\ Become(Now, f) \/ (FreeId(id) /\ Become(Now, g))
  <2>1. [f EXCEPT !.work = @ \cup DraftFor(id, VerweerStep)] = g
    BY <1>3 DEF IsFile
  <2> HIDE DEF g
  <2> QED BY <2>1 DEF trigger_defense_response, moved
<1>5. g.case = f.case /\ g.work = f.work \cup DraftFor(id, VerweerStep)
  BY <1>3 DEF IsFile
<1> HIDE DEF g
<1>6. /\ case' = Flush(case, case, f.case)
      /\ work' = f.work \/ (FreeId(id) /\ work' = f.work \cup DraftFor(id, VerweerStep))
  BY <1>n, <1>4, <1>5 DEF Become
<1>7. CASE case.step \in MainSteps
  <2>1. \E new : NewFor(new, VerweerStep) /\ work' = WorkAfterMove(work, VerweerStep) \cup new
    <3>1. CASE work' = f.work
      <4>1. work' = WorkAfterMove(work, VerweerStep) \cup {}
        BY <1>2, <1>7, <3>1
      <4> QED BY <4>1 DEF NewFor
    <3>2. CASE FreeId(id) /\ work' = f.work \cup DraftFor(id, VerweerStep)
      BY <1>2, <1>7, <3>2, VerweerIs DEF NewFor
    <3> QED BY <1>6, <3>1, <3>2
  <2>2. case' = Flush(case, Now.case, Moved(Now.case, VerweerStep))
    BY <1>n, <1>2, <1>6, <1>7
  <2>3. Follows(work, work)
    BY DEF Follows
  <2> QED BY <2>1, <2>2, <2>3, VerweerIs DEF Moves, Effect
<1>8. CASE case.step \notin MainSteps
  <2>1. case.step = VerweerStep /\ f.case = case /\ f.work = work
    BY <1>1, <1>4, <1>8
  <2>2. case' = case
    BY <1>6, <2>1, FlushWrites
  <2>3. work' = work \/ (FreeId(id) /\ work' = work \cup DraftFor(id, case.step))
    BY <1>6, <2>1
  <2>4. ~Unfit(Draft(id, "next_step", case.step), case.step)
    BY DEF Unfit, Draft
  <2> QED BY <2>2, <2>3, <2>4, DraftStays, UnmovedStays DEF Effect
<1> QED BY <1>7, <1>8

LEMMA BackgroundWorks ==
    ASSUME case \in CaseRow, WorkInv(work), \A d \in shelf : DraftItem(d), Background
    PROVE  Effect(Now)
<1>1. ASSUME NEW id, daily_pipeline_auto_drafts(id) PROVE Stays(Now)
  <2> DEFINE s == Advance[case.step]
  <2>1. /\ case' = case /\ work' = work \cup DraftFor(id, s) /\ FreeId(id)
        /\ case.step \in DOMAIN Advance
    BY <1>1 DEF daily_pipeline_auto_drafts
  <2>2. ~Unfit(Draft(id, "next_step", s), case.step)
    BY <2>1 DEF Unfit, Draft
  <2> QED BY <2>1, <2>2, DraftStays
<1>2. ASSUME NEW x, complete_task(x) PROVE Stays(Now)
  <2>1. case' = case /\ work' = work \ {x} /\ x.kind \in {"task", "mirror", "review"}
    BY <1>2 DEF complete_task
  <2>2. work' \subseteq work /\ \A y \in work : y.kind \in {"draft", "advice"} => y \in work'
    BY <2>1
  <2>3. ReviewsGo
    BY <2>2, DraftsKept, FollowsGoes
  <2> QED BY <2>1, <2>2, <2>3, TickedOff, StaysIf
<1>3. ASSUME NEW d \in OfKind(work, "draft") \cup shelf, NEW status, update_draft_status(d, status)
      PROVE  Stays(Now)
  <2>1. /\ UNCHANGED <<case, mailed>>
        /\ work' = work \cup {d} \/ work' = work \ {d} \/ work' = Discard(work, {d})
    BY <1>3 DEF update_draft_status
  <2>2. DraftItem(d) /\ d.kind = "draft"
    BY DEF OfKind, WorkInv, Item, DraftItem, Draft
  <2>3. CASE work' = work \cup {d}
    <3>1. WorkInv(work')
      BY <2>2, <2>3 DEF WorkInv, Item, Mirroring
    <3>2. ReviewsGo
      BY <2>3, DraftsKept, FollowsGoes
    <3> QED BY <2>1, <2>3, <3>1, <3>2 DEF Stays, OfKind
  <2>4. CASE work' = work \ {d}
    <3>1. WorkInv(work')
      BY <2>2, <2>4 DEF WorkInv, Mirroring
    <3>2. ReviewsGo
      BY <2>1, <2>4 DEF ReviewsGo, SetAside, OfKind
    <3> QED BY <2>1, <2>4, <3>1, <3>2, StaysIf
  <2>5. CASE work' = Discard(work, {d})
    <3>1. \A e \in {d} : e.kind = "draft"
      BY <2>2
    <3>2. WorkInv(work') /\ work' \subseteq work /\ ReviewsGo
      BY <2>5, <3>1, DiscardKeeps, FollowsGoes
    <3> QED BY <2>1, <3>2, StaysIf
  <2> QED BY <2>1, <2>3, <2>4, <2>5
<1> QED BY <1>1, <1>2, <1>3, ScanEffect, DefenseEffect DEF Background, Effect

LEMMA HandlerWorks ==
    ASSUME case \in CaseRow, WorkInv(work), NEW seen, Seen(seen), Handler(seen)
    PROVE  Effect(seen)
<1>1. CASE CaseHandler(seen)
  BY <1>1, CaseHandlerEffect
<1>2. CASE LetterHandler(seen)
  <2>1. ASSUME NEW x \in OfKind(seen.work, "advice") PROVE AdviceItem(x)
    BY DEF OfKind, Seen, Item
  <2> QED BY <1>2, <2>1, BatchEffect, ComposeEffect, ExecuteEffect, ReviewEffect DEF LetterHandler
<1>3. CASE DraftHandler(seen)
  BY <1>3, DraftHandlerEffect
<1> QED BY <1>1, <1>2, <1>3 DEF Handler

-----------------------------------------------------------------------------
(* Every step.                                                             *)

StepOK ==
    /\ \E seen : Seen(seen) /\ Effect(seen) /\ (Requests = {} => seen.case = case)
    /\ \A d \in mailed' : d \in mailed \/ (d \in work /\ d.kind = "draft")
    /\ \A d \in shelf' : d \in shelf \/ (d \in work /\ d.kind = "draft")
    /\ req' = [r \in Requests |-> req'[r]]
    /\ \A r \in Requests : req'[r] \in {Idle, req[r], Now}

LEMMA HandlerMails ==
    ASSUME NEW seen, Handler(seen)
    PROVE  \A d \in mailed' : d \in mailed \/ (d \in work /\ d.kind = "draft")
<1>1. CASE CaseHandler(seen)
  BY <1>1 DEF CaseHandler, move_step, batch_advance_step, clear_step, set_debtor_type,
              set_case_verweer, update_case_status, on_payment_received, payment_taken_back
<1>2. CASE LetterHandler(seen)
  BY <1>2 DEF LetterHandler, batch_generate_document, compose_send, approve_recommendation,
              reject_recommendation, execute_recommendation
<1>3. CASE DraftHandler(seen)
  BY <1>3 DEF DraftHandler, generate_draft_for_current_step, generate_next_step, generate_reply,
              send_draft, OfKind
<1> QED BY <1>1, <1>2, <1>3 DEF Handler

LEMMA NextWorks ==
    ASSUME PipeInv, [Next]_vars
    PROVE  StepOK
<1>c. /\ case \in CaseRow /\ WorkInv(work) /\ Seen(Now) /\ Now.case = case
      /\ \A d \in shelf : DraftItem(d)
  BY NowSeen DEF PipeInv
<1>r. req = [r \in Requests |-> req[r]]
  BY DEF PipeInv
<1>s. \A d \in shelf' : d \in shelf \/ (d \in work /\ d.kind = "draft")
  BY DEF Next, Shelve, vars, OfKind
<1>1. CASE Handler(Now) /\ UNCHANGED req
  BY <1>1, <1>c, <1>r, <1>s, HandlerWorks, HandlerMails DEF StepOK
<1>2. CASE Background /\ UNCHANGED req
  <2>1. UNCHANGED mailed
    BY <1>2 DEF Background, scan_for_followups, daily_pipeline_auto_drafts,
                trigger_defense_response, complete_task, update_draft_status
  <2> QED BY <1>2, <1>c, <1>r, <1>s, <2>1, BackgroundWorks DEF StepOK
<1>3. CASE NextDay \/ UNCHANGED vars \/ \E d \in mailed : never_completed(d) /\ UNCHANGED req
  <2>1. UNCHANGED <<case, work, req>> /\ mailed' \subseteq mailed
    BY <1>3 DEF NextDay, vars, never_completed, fileVars
  <2> QED BY <1>c, <1>r, <1>s, <2>1, UnmovedStays DEF StepOK
<1>4. ASSUME NEW r \in Requests, Begin(r) \/ Abandon(r)
      PROVE  StepOK
  <2>1. UNCHANGED <<case, work, mailed>>
    BY <1>4 DEF Begin, Abandon, fileVars
  <2>2. req' = [req EXCEPT ![r] = Now] \/ req' = [req EXCEPT ![r] = Idle]
    BY <1>4 DEF Begin, Abandon
  <2>3. /\ req' = [q \in Requests |-> req'[q]]
        /\ \A q \in Requests : req'[q] \in {Idle, req[q], Now}
    BY <1>r, <2>2
  <2> QED BY <1>c, <1>s, <2>1, <2>3, UnmovedStays DEF StepOK
<1>5. ASSUME NEW r \in Requests, req[r] # Idle, Handler(req[r]), req' = [req EXCEPT ![r] = Idle]
      PROVE  StepOK
  <2>1. Seen(req[r])
    BY <1>5 DEF PipeInv
  <2>2. /\ req' = [q \in Requests |-> req'[q]]
        /\ \A q \in Requests : req'[q] \in {Idle, req[q], Now}
    BY <1>5, <1>r
  <2> QED BY <1>5, <1>c, <1>s, <2>1, <2>2, HandlerWorks, HandlerMails DEF StepOK
<1>6. CASE SecondRequest(Now) /\ UNCHANGED req
  <2>1. PICK d \in mailed : complete_ai_draft_after_send(Now, d)
    BY <1>6 DEF SecondRequest
  <2>2. d.kind = "draft"
    BY DEF PipeInv
  <2>3. mailed' \subseteq mailed
    BY <2>1 DEF complete_ai_draft_after_send
  <2> QED BY <1>6, <1>c, <1>r, <1>s, <2>1, <2>2, <2>3, CompletionEffect DEF StepOK
<1> QED BY <1>1, <1>2, <1>3, <1>4, <1>5, <1>6 DEF Next, Step

\* The new work of a case that moves to step s.
LEMMA MovedWork ==
    ASSUME NEW w, WorkInv(w), Follows(w, work), NEW s, NEW new, NewFor(new, s),
           NEW v, v = WorkAfterMove(w, s) \cup new
    PROVE  WorkInv(v) /\ Fits(v, s) /\ (IsTerminal(s) => Swept(v)) /\ Follows(v, work)
<1> DEFINE u == WorkAfterMove(w, s)
<1>1. WorkInv(u) /\ Fits(u, s) /\ (IsTerminal(s) => Swept(u)) /\ Follows(u, work)
  BY MoveSweeps, FollowsOn
<1> HIDE DEF u
<1>2. CASE new = {}
  <2>1. v = u
    BY <1>2 DEF u
  <2> QED BY <1>1, <2>1
<1>3. CASE new = {StepTask(s)}
  <2>1. StepTask(s).kind = "task"
    BY DEF StepTask
  <2>2. v = u \cup {StepTask(s)}
    BY <1>3 DEF u
  <2>3. WorkInv(v) /\ Follows(v, work)
    BY <1>1, <2>1, <2>2, TaskAdded, NoReviewAdded
  <2> QED BY <1>1, <2>1, <2>2, <2>3 DEF Fits, Unfit, Swept
<1>4. ASSUME NEW id, FreeId(id), new = DraftFor(id, s), ~IsTerminal(s)
      PROVE  /\ WorkInv(v) /\ Fits(v, s) /\ (IsTerminal(s) => Swept(v))
             /\ Follows(v, work)
  <2>1. v = u \cup DraftFor(id, s)
    BY <1>4 DEF u
  <2>2. ~Unfit(Draft(id, "next_step", s), s) /\ ~Unfit(Review(id), s)
    BY DEF Unfit, Draft, Review
  <2>3. Fits(v, s)
    BY <1>1, <2>1, <2>2 DEF Fits, DraftFor
  <2> QED BY <1>1, <1>4, <2>1, <2>3, DraftAdded, DraftFollows
<1> QED BY <1>2, <1>3, <1>4 DEF NewFor

\* What an effect keeps, whatever the request had loaded; and what it keeps when
\* that is the row of the moment.
LEMMA EffectKeeps ==
    ASSUME case \in CaseRow, WorkInv(work), NEW seen, Seen(seen), Effect(seen)
    PROVE  /\ case' \in CaseRow /\ WorkInv(work') /\ ReviewsGo
           /\ ~Closed(case) /\ Closed(case') => Swept(work') /\ Follows(work', work)
           /\ seen.case = case => \A x \in work' : Unfit(x, case'.step) =>
                 x \in shelf \/ (x \in work /\ case'.step = case.step)
<1>c. seen.case \in CaseRow
  BY DEF Seen
<1>1. CASE Moves(seen)
  <2>1. PICK s \in Steps : \E w, new :
            /\ case' = Flush(case, seen.case, Moved(seen.case, s))
            /\ WorkInv(w) /\ Follows(w, work) /\ NewFor(new, s)
            /\ work' = WorkAfterMove(w, s) \cup new
    BY <1>1 DEF Moves
  <2> DEFINE c == Moved(seen.case, s)
  <2>2. c \in CaseRow /\ c.step = s /\ (Closed(c) <=> IsTerminal(s))
    BY <1>c, RowWrites
  <2>3. case' = Flush(case, seen.case, c)
    BY <2>1
  <2> HIDE DEF c
  <2>4. /\ case' \in CaseRow /\ case'.status \in {case.status, c.status}
        /\ seen.case = case => case' = c
    BY <1>c, <2>2, <2>3, FlushWrites
  <2>5. WorkInv(work') /\ Fits(work', s) /\ (IsTerminal(s) => Swept(work')) /\ Follows(work', work)
    BY <2>1, MovedWork
  <2>6. seen.case = case => \A x \in work' : ~Unfit(x, case'.step)
    BY <2>2, <2>4, <2>5 DEF Fits
  <2> QED BY <2>2, <2>4, <2>5, <2>6, FollowsGoes DEF Closed
<1>2. CASE Closes(seen)
  <2>1. PICK status \in TERMINAL_STATUSES :
            case' = Flush(case, seen.case, ClosedWith(seen.case, status, 0)) /\ work' = ClosedWork(work)
    BY <1>2 DEF Closes
  <2>2. ClosedWith(seen.case, status, 0) \in CaseRow /\ ClosedWith(seen.case, status, 0).step = seen.case.step
    BY <1>c, RowWrites
  <2>3. case' \in CaseRow /\ (seen.case = case => case'.step = case.step)
    BY <1>c, <2>1, <2>2, FlushWrites
  <2>4. WorkInv(work') /\ Swept(work') /\ work' \subseteq work /\ Follows(work', work)
    BY <2>1, ClosedWorkSwept
  <2> QED BY <2>3, <2>4, FollowsGoes
<1>3. CASE Alters(seen)
  <2>1. PICK c \in CaseRow : /\ case' = Flush(case, seen.case, c)
                             /\ c.step \in {seen.case.step, NoStep}
                             /\ c.status = seen.case.status \/ c.status \notin TERMINAL_STATUSES
                             /\ work' = work
    BY <1>3 DEF Alters
  <2>2. /\ case' \in CaseRow /\ case'.status \in {case.status, c.status}
        /\ c.status = seen.case.status => case'.status = case.status
        /\ seen.case = case => case' = c
    BY <1>c, <2>1, FlushWrites
  <2>3. ReviewsGo
    BY <2>1 DEF ReviewsGo, OfKind
  <2>4. seen.case = case => case'.step = case.step \/ case'.step = NoStep
    BY <2>1, <2>2
  <2>5. ~(~Closed(case) /\ Closed(case'))
    BY <2>1, <2>2 DEF Closed
  <2> QED BY <2>1, <2>2, <2>3, <2>4, <2>5 DEF Unfit
<1>4. CASE Stays(seen)
  BY <1>4 DEF Stays
<1> QED BY <1>1, <1>2, <1>3, <1>4 DEF Effect

LEMMA PipeStep ==
    ASSUME PipeInv, [Next]_vars
    PROVE  PipeInv'
<1>1. StepOK
  BY NextWorks
<1>2. case' \in CaseRow /\ WorkInv(work')
  BY <1>1, EffectKeeps DEF StepOK, PipeInv
<1>3. \A d \in mailed' \cup shelf' : d.kind = "draft" /\ DraftItem(d)
  BY <1>1 DEF StepOK, PipeInv, WorkInv, Item
<1>4. \A r \in Requests : req'[r] # Idle => Seen(req'[r])
  <2>1. Seen(Now)
    BY NowSeen DEF PipeInv
  <2> QED BY <1>1, <2>1 DEF StepOK, PipeInv
<1>5. req' = [r \in Requests |-> req'[r]]
  BY <1>1 DEF StepOK
<1> QED BY <1>2, <1>3, <1>4, <1>5 DEF PipeInv

LEMMA PipeInit == Init => PipeInv
<1> SUFFICES ASSUME Init PROVE PipeInv
  OBVIOUS
<1>1. case \in CaseRow
  <2>1. PICK s \in FirstSteps : case = NewCase(s)
    BY DEF Init
  <2>2. s \in Steps \cup {NoStep}
    BY PipelineAssumption
  <2> QED BY <2>1, <2>2 DEF NewCase, CaseRow, Statuses
<1> QED BY <1>1 DEF Init, PipeInv, WorkInv, Mirroring

LEMMA PipeInvariant == Spec => []PipeInv
BY PipeInit, PipeStep, PTL DEF Spec

-----------------------------------------------------------------------------
(* With any number of overlapping requests.                                *)

\* A draft that goes takes the task to review it along, whatever moves or closes the
\* case, completes the draft or discards it: only a person who marks the draft as
\* sent, or has it written anew with force_new, leaves the task behind.
THEOREM ReviewsGoWithDrafts == Spec => ReviewsFollowDrafts
<1>1. PipeInv /\ [Next]_vars => [ReviewsGo]_vars
  BY NextWorks, EffectKeeps DEF StepOK, PipeInv
<1> QED BY <1>1, PipeInvariant, PTL DEF Spec, ReviewsFollowDrafts, ReviewsGo

\* The task "send this letter" stays on the list no longer than the advice to send
\* it does: sent, rejected, superseded or closed, it goes.
THEOREM MirrorsHaveAdvice == Spec => []MirrorHasAdvice
<1>1. PipeInv => MirrorHasAdvice
  BY DEF PipeInv, WorkInv, Mirroring, MirrorHasAdvice, OfKind
<1> QED BY <1>1, PipeInvariant, PTL

Sweeping ==
    (~Closed(case) /\ Closed(case')) =>
        \A x \in work' :
           /\ x.kind \notin {"draft", "mirror"}
           /\ x.kind = "advice" => x.status = "approved"
           /\ x.kind = "review" => \A d \in OfKind(work, "draft") : d.id # x.draft

\* However a case closes - by hand, by its last payment, by a batch - no draft, no
\* mirrored task and no pending advice is left, and no review of an open draft.
THEOREM EveryClosingSweeps == Spec => ClosingSweeps
<1>1. ASSUME PipeInv, [Next]_vars PROVE [Sweeping]_vars
  <2>1. /\ WorkInv(work')
        /\ ~Closed(case) /\ Closed(case') => Swept(work') /\ Follows(work', work)
    BY <1>1, NextWorks, EffectKeeps DEF StepOK, PipeInv
  <2>2. ASSUME Swept(work'), Follows(work', work), NEW x \in work', x.kind = "review",
               NEW d \in work, d.kind = "draft"
        PROVE  d.id # x.draft
    <3>1. x = Review(x.draft) /\ d \notin work'
      BY <2>1, <2>2 DEF WorkInv, Item, Swept
    <3> QED BY <2>2, <3>1 DEF Follows
  <2> QED BY <2>1, <2>2 DEF Sweeping, Swept, OfKind
<1> QED BY <1>1, PipeInvariant, PTL DEF Spec, ClosingSweeps, Sweeping

-----------------------------------------------------------------------------
(* Letters.                                                                *)

\* The letter of step s, as the gates and rules see it: the evidence of the
\* 14-day letter is new only with that letter; what goes by itself goes for an
\* open case on that step, past the gate; and what moves the case afterwards
\* is the rule of the step.
Ruled(seen, target) ==
    /\ seen.case.step \in DOMAIN Advance /\ target = Advance[seen.case.step]
    /\ ~Guarded(File(seen), target)
    /\ case' = Flush(case, seen.case, Moved(seen.case, target))

LetterFor(seen, s, route) ==
    /\ Sent(s, route)
    /\ \/ evidence' = evidence
       \/ s = DagenbriefStep /\ evidence = Never /\ evidence' = today
    /\ route \in Automatic => ~Closed(seen.case) /\ DagenbriefGate(File(seen), s)
    /\ \/ case' = case
       \/ s = seen.case.step /\ \E target : Ruled(seen, target)

Posts(seen) ==
    \/ Quiet /\ UNCHANGED evidence
    \/ \E s, route : LetterFor(seen, s, route)

\* What the file of a letter leaves to the case and the evidence.
LEMMA LetterWrites ==
    ASSUME case \in CaseRow, NEW seen, seen.case \in CaseRow,
           NEW w, NEW f, f = [File(seen) EXCEPT !.work = w],
           NEW record \in BOOLEAN, Become(seen, AdvanceAfterSend(f, record))
    PROVE  /\ f.case = seen.case
           /\ \/ evidence' = evidence
              \/ /\ record /\ seen.case.step = DagenbriefStep
                 /\ evidence = Never /\ evidence' = today
           /\ case' = case \/ \E target : Ruled(seen, target)
<1> DEFINE g == AdvanceAfterSend(f, record)
<1>1. /\ IsFile(f) /\ f.case = seen.case /\ f.evidence = evidence
      /\ f.consumer = File(seen).consumer /\ File(seen).case = seen.case
  BY FileIs, FileWork
<1>2. case' = Flush(case, seen.case, g.case) /\ evidence' = g.evidence
  BY DEF Become
<1>3. /\ \/ g.evidence = f.evidence
         \/ record /\ f.case.step = DagenbriefStep /\ f.evidence = Never /\ g.evidence = today
      /\ g.case = f.case \/ \E target : GoneOn(f, g, Recorded(f, record), target)
  BY <1>1, AfterSend, ZenonT(60)
<1> HIDE DEF g
<1>4. g.case = f.case => case' = case
  BY <1>1, <1>2, FlushWrites
<1>5. ASSUME NEW target, GoneOn(f, g, Recorded(f, record), target)
      PROVE  Ruled(seen, target)
  BY <1>1, <1>2, <1>5 DEF GoneOn, Ruled, Guarded
<1> QED BY <1>1, <1>2, <1>3, <1>4, <1>5

LEMMA BatchPosts ==
    ASSUME case \in CaseRow, NEW seen, Seen(seen), NEW send \in BOOLEAN,
           batch_generate_document(seen, send)
    PROVE  Posts(seen)
<1> DEFINE s == seen.case.step
           f == [File(seen) EXCEPT !.work = WithoutStepTask(work, s)]
<1>1. Become(seen, AdvanceAfterSend(f, send))
  <2>1. [File(seen) EXCEPT !.work = WithoutStepTask(@, s)] = f
    BY FileIs DEF IsFile
  <2> QED BY <2>1 DEF batch_generate_document
<1> HIDE DEF f
<1>2. /\ \/ evidence' = evidence
         \/ send /\ s = DagenbriefStep /\ evidence = Never /\ evidence' = today
      /\ case' = case \/ \E target : Ruled(seen, target)
  BY <1>1, LetterWrites DEF Seen, f
<1>3. /\ ~Closed(seen.case) /\ DagenbriefGate(File(seen), s)
      /\ IF send THEN Sent(s, "batch") ELSE Quiet
  BY FileIs DEF batch_generate_document, MayBatch
<1>4. CASE send
  BY <1>2, <1>3, <1>4 DEF Posts, LetterFor
<1>5. CASE ~send
  BY <1>2, <1>3, <1>5 DEF Posts
<1> QED BY <1>4, <1>5

LEMMA ExecutePosts ==
    ASSUME case \in CaseRow, NEW seen, Seen(seen), NEW x, execute_recommendation(seen, x)
    PROVE  Posts(seen)
<1> DEFINE w == WithoutStepTask(work \ {x}, x.step)
           f == [File(seen) EXCEPT !.work = w]
<1>f. [File(seen) EXCEPT !.work = WithoutStepTask(@ \ {x}, x.step)] = f
  BY FileIs DEF IsFile
<1> HIDE DEF w
<1>1. CASE /\ MayExecute(f, x) /\ Become(seen, AdvanceAfterSend(f, TRUE))
           /\ Sent(x.step, "advice")
  <2>1. /\ f.case = seen.case
        /\ \/ evidence' = evidence
           \/ seen.case.step = DagenbriefStep /\ evidence = Never /\ evidence' = today
        /\ case' = case \/ \E target : Ruled(seen, target)
    BY <1>1, LetterWrites DEF Seen
  <2>2. f.consumer = File(seen).consumer /\ f.evidence = File(seen).evidence
    BY FileIs, FileWork
  <2> HIDE DEF f
  <2>3. ~Closed(seen.case) /\ seen.case.step = x.step /\ DagenbriefGate(File(seen), x.step)
    BY <1>1, <2>1, <2>2 DEF MayExecute, DagenbriefGate
  <2> QED BY <1>1, <2>1, <2>3 DEF Posts, LetterFor
<1>2. CASE Quiet /\ UNCHANGED evidence
  BY <1>2 DEF Posts
<1> QED BY <1>1, <1>2, <1>f DEF execute_recommendation

LEMMA ComposePosts ==
    ASSUME case \in CaseRow, NEW seen, Seen(seen), NEW t, NEW override,
           compose_send(seen, t, override)
    PROVE  Posts(seen)
<1> DEFINE f == File(seen)
           route == IF override THEN "override" ELSE "compose"
<1>1. f = [File(seen) EXCEPT !.work = work] /\ f.case = seen.case /\ f.evidence = evidence
  BY FileIs DEF IsFile
<1>2. /\ Become(seen, IF t = f.case.step THEN AdvanceAfterSend(f, TRUE) ELSE f)
      /\ Sent(t, route)
  BY DEF compose_send
<1>3. route \notin Automatic
  BY DEF Automatic
<1> HIDE DEF f, route
<1>4. CASE t = f.case.step
  <2>1. /\ \/ evidence' = evidence
           \/ seen.case.step = DagenbriefStep /\ evidence = Never /\ evidence' = today
        /\ case' = case \/ \E target : Ruled(seen, target)
    BY <1>1, <1>2, <1>4, LetterWrites DEF Seen
  <2> QED BY <1>1, <1>2, <1>3, <1>4, <2>1 DEF Posts, LetterFor
<1>5. CASE t # f.case.step
  <2>1. case' = Flush(case, seen.case, seen.case) /\ evidence' = evidence
    BY <1>1, <1>2, <1>5 DEF Become
  <2>2. case' = case
    BY <2>1, FlushWrites DEF Seen
  <2> QED BY <1>2, <1>3, <2>1, <2>2 DEF Posts, LetterFor
<1> QED BY <1>4, <1>5

LEMMA CaseHandlerPosts ==
    ASSUME NEW seen, CaseHandler(seen)
    PROVE  Posts(seen)
<1>f. IsFile(File(seen)) /\ File(seen).evidence = evidence
  BY FileIs
<1>1. ASSUME NEW s, move_step(seen, s) PROVE Quiet /\ UNCHANGED evidence
  BY <1>f, <1>1, FileMove DEF move_step, Become
<1>2. ASSUME NEW s, batch_advance_step(seen, s) PROVE Quiet /\ UNCHANGED evidence
  <2> DEFINE f == MoveTo(File(seen), s)
             g == [f EXCEPT !.work = f.work \cup {StepTask(s)}]
  <2>1. IsFile(f) /\ f.evidence = evidence
    BY <1>f, FileMove
  <2>2. Quiet /\ Become(seen, [f EXCEPT !.work = @ \cup {StepTask(s)}])
    BY <1>2 DEF batch_advance_step
  <2> HIDE DEF f
  <2>3. [f EXCEPT !.work = @ \cup {StepTask(s)}].evidence = evidence
    BY <2>1 DEF IsFile
  <2> QED BY <2>2, <2>3 DEF Become
<1>3. ASSUME NEW status, update_case_status(seen, status) PROVE Quiet /\ UNCHANGED evidence
  <2>1. [File(seen) EXCEPT !.case = WithStatus(@, status, 0),
                           !.work = WorkWithStatus(@, status)].evidence = evidence
    BY <1>f DEF IsFile
  <2> QED BY <1>3, <2>1 DEF update_case_status, Become
<1>4. ASSUME on_payment_received(seen) PROVE Quiet /\ UNCHANGED evidence
  <2>1. [File(seen) EXCEPT !.case = ClosedWith(@, "betaald", 0),
                           !.work = ClosedWork(@)].evidence = evidence
    BY <1>f DEF IsFile
  <2> QED BY <1>4, <2>1 DEF on_payment_received, Become
<1>5. ASSUME payment_taken_back(seen) PROVE Quiet /\ UNCHANGED evidence
  <2>1. [File(seen) EXCEPT !.case = Reopened(@)].evidence = evidence
    BY <1>f DEF IsFile
  <2> QED BY <1>5, <2>1 DEF payment_taken_back, Become
<1>6. ASSUME \/ clear_step(seen) \/ set_debtor_type(seen)
             \/ \E b \in BOOLEAN : set_case_verweer(seen, b)
      PROVE  Quiet /\ UNCHANGED evidence
  BY <1>6 DEF clear_step, set_debtor_type, set_case_verweer, fileVars
<1> QED BY <1>1, <1>2, <1>3, <1>4, <1>5, <1>6 DEF CaseHandler, Posts

LEMMA HandlerPosts ==
    ASSUME case \in CaseRow, NEW seen, Seen(seen), Handler(seen)
    PROVE  Posts(seen)
<1>1. ASSUME NEW x, approve_recommendation(seen, x) \/ reject_recommendation(seen, x)
      PROVE  Posts(seen)
  BY <1>1 DEF approve_recommendation, reject_recommendation, Posts
<1>2. ASSUME NEW d, NEW override, send_draft(seen, d, override)
      PROVE  Posts(seen)
  <2>1. "draft" \notin Automatic
    BY DEF Automatic
  <2> QED BY <1>2, <2>1 DEF send_draft, fileVars, Posts, LetterFor
<1>3. ASSUME NEW id, \/ generate_draft_for_current_step(seen, id)
                     \/ generate_next_step(seen, id) \/ generate_reply(seen, id)
      PROVE  Posts(seen)
  BY <1>3 DEF generate_draft_for_current_step, generate_next_step, generate_reply, Posts
<1> QED BY <1>1, <1>2, <1>3, CaseHandlerPosts, BatchPosts, ExecutePosts, ComposePosts
        DEF Handler, LetterHandler, DraftHandler

\* The other steps send nothing; only the completion of a draft can give the
\* evidence another day.
LEMMA BackgroundQuiet ==
    ASSUME Background
    PROVE  Quiet /\ UNCHANGED evidence
<1>1. ASSUME NEW id, trigger_defense_response(id) PROVE Quiet /\ UNCHANGED evidence
  <2> DEFINE moved == MoveTo(File(Now), VerweerStep)
             f == IF case.step \in MainSteps THEN moved ELSE File(Now)
  <2>1. IsFile(File(Now)) /\ File(Now).evidence = evidence
    BY FileIs
  <2>2. IsFile(moved) /\ moved.evidence = evidence
    BY <2>1, FileMove
  <2> HIDE DEF moved
  <2>3. IsFile(f) /\ f.evidence = evidence
    BY <2>1, <2>2
  <2>4. Quiet /\ (Become(Now, f) \/ Become(Now, [f EXCEPT !.work = @ \cup DraftFor(id, VerweerStep)]))
    BY <1>1 DEF trigger_defense_response, moved
  <2> HIDE DEF f
  <2>5. [f EXCEPT !.work = @ \cup DraftFor(id, VerweerStep)].evidence = evidence
    BY <2>3 DEF IsFile
  <2> QED BY <2>3, <2>4, <2>5 DEF Become
<1> QED BY <1>1 DEF Background, scan_for_followups, daily_pipeline_auto_drafts,
                    complete_task, update_draft_status

\* Whose step it is when a letter goes: a handler's, on the row of the moment or
\* on that of a request that ends.
LEMMA WhoPosts ==
    ASSUME PipeInv, [Next]_vars
    PROVE  \/ UNCHANGED vars
           \/ /\ letter' = NoLetter /\ UNCHANGED brief
              /\ UNCHANGED evidence \/ mailed # {}
           \/ Posts(Now) /\ UNCHANGED today
           \/ \E r \in Requests : /\ req[r] # Idle /\ req'[r] = Idle /\ Posts(req[r])
                                 /\ UNCHANGED today
<1>c. case \in CaseRow /\ Seen(Now)
  BY NowSeen DEF PipeInv
<1>1. CASE Handler(Now) /\ UNCHANGED today
  BY <1>1, <1>c, HandlerPosts
<1>2. CASE Background
  BY <1>2, BackgroundQuiet DEF Quiet
<1>3. CASE NextDay \/ \E r \in Requests : Begin(r) \/ Abandon(r)
  BY <1>3 DEF NextDay, Begin, Abandon, Quiet, fileVars
<1>4. ASSUME NEW r \in Requests, req[r] # Idle, Handler(req[r]),
             req' = [req EXCEPT ![r] = Idle], UNCHANGED today
      PROVE  req'[r] = Idle /\ Posts(req[r])
  <2>1. req'[r] = Idle /\ Seen(req[r])
    BY <1>4 DEF PipeInv
  <2> QED BY <1>4, <1>c, <2>1, HandlerPosts
<1>5. CASE SecondRequest(Now) \/ \E d \in mailed : never_completed(d)
  BY <1>5 DEF SecondRequest, complete_ai_draft_after_send, never_completed, Quiet
<1>6. CASE UNCHANGED vars
  BY <1>6
<1> QED BY <1>1, <1>2, <1>3, <1>4, <1>5, <1>6 DEF Next, Step

\* What goes by itself goes for a case that was open when it was loaded.
LEMMA PostedOpen ==
    ASSUME NEW seen, Posts(seen), AutomaticLetter
    PROVE  ~Closed(seen.case)
<1>1. CASE Quiet
  BY <1>1 DEF Quiet, AutomaticLetter, Automatic, NoLetter
<1>2. ASSUME NEW s, NEW route, LetterFor(seen, s, route)
      PROVE  ~Closed(seen.case)
  BY <1>2 DEF LetterFor, Sent, AutomaticLetter
<1> QED BY <1>1, <1>2 DEF Posts

MailedByOld ==
    (AutomaticLetter /\ Closed(case)) =>
        \E r \in Requests : req[r] # Idle /\ req'[r] = Idle /\ ~Closed(req[r].case)

\* With requests that overlap, one thing only lets a letter go by itself to a
\* closed case: the request that sends it loaded the case while it was open.
THEOREM ClosedMailIsOld == Spec => ClosedIsMailedByOldRequestsOnly
<1>1. ASSUME PipeInv, [Next]_vars
      PROVE  [MailedByOld]_vars
  <2>1. CASE letter' = NoLetter
    BY <2>1 DEF MailedByOld, AutomaticLetter, Automatic, NoLetter
  <2>2. CASE Posts(Now)
    BY <2>2, PostedOpen, NowSeen DEF MailedByOld
  <2>3. ASSUME NEW r \in Requests, req[r] # Idle, req'[r] = Idle, Posts(req[r])
        PROVE  MailedByOld
    BY <2>3, PostedOpen DEF MailedByOld
  <2> QED BY <1>1, <2>1, <2>2, <2>3, WhoPosts
<1> QED BY <1>1, PipeInvariant, PTL DEF Spec, ClosedIsMailedByOldRequestsOnly, MailedByOld

-----------------------------------------------------------------------------
(* While no two requests overlap.                                          *)

Fitting == \A x \in Misfits' : x \in shelf \/ (x \in Misfits /\ case'.step = case.step)

\* What still waits belongs to where the case stands: no advice and no draft for a
\* step is left behind when the case moves on, whatever moved it, and none is made
\* that does not fit.  Only a person can put an old draft back on the list.
THEOREM FitsItsStep ==
    ASSUME Requests = {}
    PROVE  Spec => WaitingFitsStep
<1>1. ASSUME PipeInv, [Next]_vars PROVE [Fitting]_vars
  <2>1. \A x : x \in Misfits <=> x \in work /\ Unfit(x, case.step)
    BY DEF Misfits, Unfit
  <2>2. \A x : x \in Misfits' <=> x \in work' /\ Unfit(x, case'.step)
    BY DEF Misfits, Unfit
  <2>3. \A x \in work' : Unfit(x, case'.step) => x \in shelf \/ (x \in work /\ case'.step = case.step)
    BY <1>1, NextWorks, EffectKeeps DEF StepOK, PipeInv
  <2> QED BY <2>1, <2>2, <2>3 DEF Fitting
<1> QED BY <1>1, PipeInvariant, PTL DEF Spec, WaitingFitsStep, Fitting

Going ==
    ((letter' # NoLetter \/ mailed' # mailed) /\ case'.step # case.step) =>
        /\ case.step \in DOMAIN Advance /\ case'.step = Advance[case.step]
        /\ letter' # NoLetter => letter'.step = case.step
        /\ ~case.verweer /\ ~Closed(case) /\ ~Closed(case')
        /\ ~(consumer /\ case'.step \in B2BSteps)

LEMMA RuledGoing ==
    ASSUME case \in CaseRow, NEW target, Ruled(Now, target)
    PROVE  /\ case.step \in DOMAIN Advance /\ case'.step = Advance[case.step]
           /\ ~case.verweer /\ ~Closed(case) /\ ~Closed(case')
           /\ ~(consumer /\ case'.step \in B2BSteps)
<1>1. /\ Now.case = case /\ File(Now).case = case /\ File(Now).consumer = consumer
  BY NowSeen, FileIs
<1>2. target = Advance[case.step] /\ case.step \in DOMAIN Advance /\ target \in Steps
  BY <1>1, PipelineAssumption DEF Ruled
<1>3. /\ ~Closed(case) /\ ~case.verweer /\ ~IsTerminal(target)
      /\ ~(consumer /\ target \in B2BSteps)
  BY <1>1 DEF Ruled, Guarded
<1>4. case' = Moved(case, target)
  <2>1. case' = Flush(case, case, Moved(case, target)) /\ Moved(case, target) \in CaseRow
    BY <1>1, <1>2, RowWrites DEF Ruled
  <2> QED BY <2>1, FlushWrites
<1>5. case'.step = target /\ ~Closed(case')
  BY <1>2, <1>3, <1>4, RowWrites
<1> QED BY <1>2, <1>3, <1>5

LEMMA PostedGoing ==
    ASSUME case \in CaseRow, Posts(Now), letter' # NoLetter
    PROVE  Going
<1>1. ~Quiet
  BY DEF Quiet
<1>2. ASSUME NEW s, NEW route, LetterFor(Now, s, route), case'.step # case.step
      PROVE  Going
  <2>1. Now.case = case /\ letter'.step = s
    BY <1>2, NowSeen DEF LetterFor, Sent
  <2>2. PICK target : s = case.step /\ Ruled(Now, target)
    BY <1>2, <2>1 DEF LetterFor
  <2> QED BY <2>1, <2>2, RuledGoing DEF Going
<1> QED BY <1>1, <1>2 DEF Posts, Going

\* The second request of a draft that was sent.
LEMMA CompletionGoing ==
    ASSUME case \in CaseRow, NEW d, complete_ai_draft_after_send(Now, d)
    PROVE  Going
<1> DEFINE w == work \ {d, Review(d.id)}
           f == [File(Now) EXCEPT !.work = w]
<1>n. Now.case = case
  BY NowSeen
<1>1. [File(Now) EXCEPT !.work = @ \ {d, Review(d.id)}] = f
  BY FileIs DEF IsFile
<1>2. /\ Become(Now, IF d.intent = "next_step" THEN AdvanceAfterSend(f, TRUE) ELSE f)
      /\ letter' = NoLetter
  BY <1>1 DEF complete_ai_draft_after_send, Quiet
<1>3. f.case = case
  BY <1>n, FileIs, FileWork
<1> HIDE DEF w
<1>4. CASE Become(Now, AdvanceAfterSend(f, TRUE))
  <2>1. case' = case \/ \E target : Ruled(Now, target)
    BY <1>n, <1>4, LetterWrites
  <2> QED BY <1>2, <2>1, RuledGoing DEF Going
<1>5. CASE Become(Now, f)
  <2>1. case' = Flush(case, case, case)
    BY <1>n, <1>3, <1>5 DEF Become
  <2>2. case' = case
    BY <2>1, FlushWrites
  <2> QED BY <2>2 DEF Going
<1> QED BY <1>2, <1>4, <1>5

\* The drafts that are under way change with the case on one route only.
LEMMA WhoCompletes ==
    ASSUME Next
    PROVE  UNCHANGED mailed \/ UNCHANGED case \/ SecondRequest(Now)
<1>1. ASSUME NEW seen, Handler(seen) PROVE UNCHANGED mailed \/ UNCHANGED case
  <2>1. CASE CaseHandler(seen)
    BY <2>1 DEF CaseHandler, move_step, batch_advance_step, clear_step, set_debtor_type,
                set_case_verweer, update_case_status, on_payment_received, payment_taken_back
  <2>2. CASE LetterHandler(seen)
    BY <2>2 DEF LetterHandler, batch_generate_document, compose_send, approve_recommendation,
                reject_recommendation, execute_recommendation
  <2>3. CASE DraftHandler(seen)
    BY <2>3 DEF DraftHandler, generate_draft_for_current_step, generate_next_step, generate_reply,
                send_draft, fileVars
  <2> QED BY <1>1, <2>1, <2>2, <2>3 DEF Handler
<1>2. ASSUME Background PROVE UNCHANGED mailed
  BY <1>2 DEF Background, scan_for_followups, daily_pipeline_auto_drafts,
              trigger_defense_response, complete_task, update_draft_status
<1>3. ASSUME \/ NextDay \/ \E r \in Requests : Begin(r) \/ Abandon(r)
             \/ \E d \in mailed : never_completed(d)
      PROVE  UNCHANGED case
  BY <1>3 DEF NextDay, Begin, Abandon, never_completed, fileVars
<1> QED BY <1>1, <1>2, <1>3 DEF Next, Step

\* A case that goes on by itself, after a letter or by the completion of a draft,
\* follows the rule of the step it stood on, and never out of a dispute, to a closing
\* step or to a step that is not for its debtor (advance_after_step_send,
\* advance_guard_reason).
THEOREM GoesOnByTheRules ==
    ASSUME Requests = {}
    PROVE  Spec => GoesOnAsRuled
<1>1. ASSUME PipeInv, [Next]_vars PROVE [Going]_vars
  <2>c. case \in CaseRow
    BY <1>1 DEF PipeInv
  <2>1. CASE letter' # NoLetter
    BY <1>1, <2>c, <2>1, WhoPosts, PostedGoing
  <2>2. CASE letter' = NoLetter /\ Next
    <3>1. CASE SecondRequest(Now)
      BY <2>c, <3>1, CompletionGoing DEF SecondRequest
    <3> QED BY <2>2, <3>1, WhoCompletes DEF Going
  <2> QED BY <1>1, <2>1, <2>2
<1> QED BY <1>1, PipeInvariant, PTL DEF Spec, GoesOnAsRuled, Going

\* The evidence of the 14-day letter, as long as no draft is sent: a letter left,
\* not later than the evidence says.
TermInv ==
    /\ today \in Nat
    /\ brief \in {Never} \cup 0..today
    /\ evidence # Never => evidence \in Nat /\ brief \in 0..evidence

LEMMA TermInit == Init => TermInv
BY DEF Init, TermInv, Never

LEMMA PostedTerm ==
    ASSUME TermInv, UNCHANGED today, NEW seen, Posts(seen)
    PROVE  TermInv'
<1>1. CASE Quiet /\ UNCHANGED evidence
  BY <1>1 DEF Quiet, TermInv
<1>2. ASSUME NEW s, NEW route, LetterFor(seen, s, route)
      PROVE  TermInv'
  <2>1. /\ brief' = IF s = DagenbriefStep /\ brief = Never THEN today ELSE brief
        /\ \/ evidence' = evidence
           \/ s = DagenbriefStep /\ evidence = Never /\ evidence' = today
    BY <1>2 DEF LetterFor, Sent
  <2> QED BY <2>1 DEF TermInv, Never
<1> QED BY <1>1, <1>2 DEF Posts

LEMMA TermStep ==
    ASSUME PipeInv, mailed = {}, TermInv, [Next]_vars
    PROVE  TermInv'
<1>1. CASE UNCHANGED vars
  BY <1>1 DEF vars, fileVars, TermInv
<1>2. CASE letter' = NoLetter /\ UNCHANGED <<brief, evidence>>
  <2>1. today' \in Nat /\ today' >= today
    <3>1. today' \in {today, today + 1}
      BY DEF Next, Step, NextDay, Begin, Abandon, vars
    <3> QED BY <3>1 DEF TermInv
  <2> QED BY <1>2, <2>1 DEF TermInv
<1> QED BY <1>1, <1>2, WhoPosts, PostedTerm

Respecting ==
    (AutomaticLetter /\ consumer /\ letter'.step # DagenbriefStep)
        => (brief # Never /\ today - brief >= TermDays)

LEMMA PostedRespecting ==
    ASSUME TermInv, Posts(Now)
    PROVE  Respecting
<1>1. CASE Quiet
  BY <1>1 DEF Quiet, Respecting, AutomaticLetter, Automatic, NoLetter
<1>2. ASSUME NEW s, NEW route, LetterFor(Now, s, route), AutomaticLetter, consumer,
             letter'.step # DagenbriefStep
      PROVE  brief # Never /\ today - brief >= TermDays
  <2>1. letter'.step = s /\ letter'.route = route
    BY <1>2 DEF LetterFor, Sent
  <2>2. DagenbriefGate(File(Now), s)
    BY <1>2, <2>1 DEF LetterFor, AutomaticLetter
  <2>3. evidence # Never /\ today - evidence >= TermDays
    BY <1>2, <2>1, <2>2, NowSeen, FileIs DEF DagenbriefGate
  <2> QED BY <2>3, PipelineAssumption DEF TermInv, Never
<1> QED BY <1>1, <1>2 DEF Posts, Respecting

\* A letter that goes out by itself, with collection costs, reaches a consumer only
\* when the statutory term after the 14-day letter is over, counted from the day
\* the letter really left.  No request overlaps another, and no draft is ever sent:
\* the completion of a draft may record evidence of a letter that did not go.
THEOREM TermIsRespected ==
    ASSUME Requests = {}
    PROVE  Spec /\ [](mailed = {}) => TermRespected
<1>1. PipeInv /\ mailed = {} /\ TermInv /\ [Next]_vars => TermInv'
  BY TermStep
<1>2. PipeInv /\ mailed = {} /\ TermInv /\ [Next]_vars => [Respecting]_vars
  <2>1. letter' = NoLetter => Respecting
    BY DEF Respecting, AutomaticLetter, Automatic, NoLetter
  <2> QED BY <2>1, WhoPosts, PostedRespecting
<1> QED BY <1>1, <1>2, TermInit, PipeInvariant, PTL DEF Spec, TermRespected, Respecting

-----------------------------------------------------------------------------
(* Types, whatever overlaps: the columns besides the case row, the trail   *)
(* of history rows, and the numbers of the drafts.                         *)

TrailRows == [Steps -> UNION {[1..n -> BOOLEAN] : n \in 0..MaxRows}]

\* The columns of a file that are not in the case row.
FileOK(f) ==
    /\ IsFile(f) /\ f.case \in CaseRow /\ f.entered \in 0..today
    /\ f.evidence \in Days \cup {Never} /\ f.rows \in [Steps -> Seq(BOOLEAN)]

UniqueDrafts(w) == \A d, e \in OfKind(w, "draft") : d.id = e.id => d = e

Columns ==
    /\ today \in Days /\ entered \in 0..today /\ evidence \in Days \cup {Never}
    /\ rows \in TrailRows

TypeInv ==
    /\ Columns /\ UniqueDrafts(work \cup shelf)
    /\ consumer \in BOOLEAN /\ brief \in Days \cup {Never} /\ executed \subseteq Steps
    /\ \A r \in Requests : req[r] # Idle => req[r].consumer \in BOOLEAN

LEMMA RowsAreSeqs ==
    ASSUME NEW open \in TrailRows
    PROVE  open \in [Steps -> Seq(BOOLEAN)]
<1>1. ASSUME NEW s \in Steps PROVE open[s] \in Seq(BOOLEAN)
  <2>1. PICK n \in 0..MaxRows : open[s] \in [1..n -> BOOLEAN]
    BY DEF TrailRows
  <2> QED BY <2>1, PipelineAssumption
<1> QED BY <1>1 DEF TrailRows

LEMMA SeqsAreRows ==
    ASSUME NEW open \in [Steps -> Seq(BOOLEAN)], \A s \in Steps : Len(open[s]) <= MaxRows
    PROVE  open \in TrailRows
<1>1. ASSUME NEW s \in Steps
      PROVE  open[s] \in UNION {[1..n -> BOOLEAN] : n \in 0..MaxRows}
  <2>1. /\ open[s] \in Seq(BOOLEAN) /\ Len(open[s]) \in 0..MaxRows
        /\ open[s] \in [1..Len(open[s]) -> BOOLEAN]
    BY PipelineAssumption
  <2> QED BY <2>1
<1> QED BY <1>1 DEF TrailRows

\* A move closes one row and opens one.
LEMMA TrailTyped ==
    ASSUME NEW open \in [Steps -> Seq(BOOLEAN)], NEW from, NEW to \in Steps
    PROVE  Trail(open, from, to) \in [Steps -> Seq(BOOLEAN)]
<1> DEFINE left == [s \in Steps |->
                       IF s = from /\ open[s] # <<>>
                       THEN SubSeq(open[s], 1, Len(open[s]) - 1) ELSE open[s]]
<1>1. ASSUME NEW s \in Steps PROVE left[s] \in Seq(BOOLEAN)
  <2>1. open[s] \in Seq(BOOLEAN) /\ Len(open[s]) \in Nat
    OBVIOUS
  <2>2. \A i \in 1..(Len(open[s]) - 1) : open[s][i] \in BOOLEAN
    BY <2>1, ElementOfSeq
  <2>3. SubSeq(open[s], 1, Len(open[s]) - 1) \in Seq(BOOLEAN)
    BY <2>1, <2>2, SubSeqProperties
  <2> QED BY <2>1, <2>3
<1>2. left \in [Steps -> Seq(BOOLEAN)]
  BY <1>1
<1>3. Trail(open, from, to) = [left EXCEPT ![to] = Append(left[to], FALSE)]
  BY <1>2 DEF Trail
<1> HIDE DEF left
<1>4. Append(left[to], FALSE) \in Seq(BOOLEAN)
  BY <1>2, AppendProperties
<1> QED BY <1>2, <1>3, <1>4

LEMMA FileOKNow ==
    ASSUME Columns, NEW seen, seen.case \in CaseRow
    PROVE  FileOK(File(seen))
<1>1. rows \in [Steps -> Seq(BOOLEAN)]
  BY RowsAreSeqs DEF Columns
<1> QED BY <1>1, FileIs DEF FileOK, File, Columns

LEMMA FileOKWork ==
    ASSUME NEW f, FileOK(f), NEW w
    PROVE  FileOK([f EXCEPT !.work = w])
<1> DEFINE g == [f EXCEPT !.work = w]
<1>i. IsFile(f)
  BY DEF FileOK
<1>1. /\ IsFile(g) /\ g.case = f.case /\ g.evidence = f.evidence
      /\ g.entered = f.entered /\ g.rows = f.rows
  BY <1>i, FileWork
<1> HIDE DEF g
<1>2. FileOK(g)
  BY <1>1 DEF FileOK
<1> QED BY <1>2 DEF g

LEMMA FileOKMove ==
    ASSUME Columns, NEW f, FileOK(f), NEW s \in Steps
    PROVE  FileOK(MoveTo(f, s))
<1> DEFINE g == MoveTo(f, s)
<1>1. /\ IsFile(g) /\ g.case = Moved(f.case, s) /\ g.evidence = f.evidence
      /\ g.entered = today /\ g.rows = Trail(f.rows, f.case.step, s)
  BY FileMove DEF FileOK
<1> HIDE DEF g
<1>2. g.rows \in [Steps -> Seq(BOOLEAN)]
  BY <1>1, TrailTyped DEF FileOK
<1>3. today \in 0..today
  BY MaxDayAssumption DEF Columns, Days
<1>4. Moved(f.case, s) \in CaseRow
  BY RowWrites DEF FileOK
<1>5. FileOK(g)
  BY <1>1, <1>2, <1>3, <1>4 DEF FileOK
<1> QED BY <1>5 DEF g

LEMMA FileOKMarked ==
    ASSUME Columns, NEW f, FileOK(f), f.case.step # NoStep
    PROVE  FileOK(Marked(f))
<1> DEFINE g == Marked(f)
           s == f.case.step
           n == Len(f.rows[s])
<1>1. /\ IsFile(g) /\ g.case = f.case /\ g.entered = f.entered
      /\ g.rows = f.rows \/ (n # 0 /\ g.rows = [f.rows EXCEPT ![s][n] = TRUE])
      /\ g.evidence \in {f.evidence, today}
  BY FileMarked DEF FileOK
<1> HIDE DEF g
<1>2. n # 0 => FileOK(g)
  <2> SUFFICES ASSUME n # 0 PROVE FileOK(g)
    OBVIOUS
  <2>1. s \in Steps /\ f.rows[s] \in Seq(BOOLEAN) /\ n \in 1..Len(f.rows[s])
    BY DEF FileOK, CaseRow
  <2>2. [f.rows[s] EXCEPT ![n] = TRUE] \in Seq(BOOLEAN)
    <3> HIDE DEF n, s
    <3> QED BY <2>1, ExceptSeq
  <2>3. [f.rows EXCEPT ![s][n] = TRUE] \in [Steps -> Seq(BOOLEAN)]
    BY <2>1, <2>2 DEF FileOK
  <2> HIDE DEF n, s
  <2> QED BY <1>1, <2>3 DEF FileOK, Columns
<1>3. n = 0 => FileOK(g)
  BY <1>1 DEF FileOK, Columns
<1>4. FileOK(g)
  BY <1>2, <1>3
<1> QED BY <1>4 DEF g

LEMMA FileOKGoOn ==
    ASSUME Columns, NEW f, FileOK(f)
    PROVE  FileOK(GoOn(f))
<1> DEFINE target == Advance[f.case.step]
           asked == f.work \cup {Task("b2c_pipeline_end")}
<1>1. CASE f.case.step \notin DOMAIN Advance
  BY <1>1 DEF GoOn
<1>2. CASE f.case.step \in DOMAIN Advance
  <2>1. target \in Steps
    BY <1>2, PipelineAssumption
  <2>2. FileOK(MoveTo(f, target)) /\ FileOK([f EXCEPT !.work = asked])
    BY <2>1, FileOKMove, FileOKWork
  <2>i. IsFile(f)
    BY DEF FileOK
  <2>3. [f EXCEPT !.work = @ \cup {Task("b2c_pipeline_end")}] = [f EXCEPT !.work = asked]
    BY <2>i DEF IsFile
  <2>4. GoOn(f) \in {MoveTo(f, target), [f EXCEPT !.work = asked], f}
    BY <1>2, <2>3 DEF GoOn
  <2> HIDE DEF target, asked
  <2> QED BY <2>2, <2>4
<1> QED BY <1>1, <1>2

LEMMA FileOKAfterSend ==
    ASSUME Columns, NEW f, FileOK(f), NEW record \in BOOLEAN
    PROVE  FileOK(AdvanceAfterSend(f, record))
<1> DEFINE m == Marked(f)
           mirrored == CloseMirrors(m.work, f.case.step, {"followup_send"})
           sent == [m EXCEPT !.work = mirrored]
<1>1. CASE f.case.step = NoStep
  BY <1>1 DEF AdvanceAfterSend
<1>2. CASE f.case.step # NoStep
  <2>1. FileOK(m)
    BY <1>2, FileOKMarked
  <2>2. FileOK(sent)
    <3> HIDE DEF m, mirrored
    <3> QED BY <2>1, FileOKWork
  <2>3. [Marked(f) EXCEPT !.work = CloseMirrors(@, f.case.step, {"followup_send"})] = sent
    <3>1. IsFile(m)
      BY <2>1 DEF FileOK
    <3> QED BY <3>1 DEF IsFile
  <2>4. AdvanceAfterSend(f, record) = GoOn(IF record THEN sent ELSE f)
    BY <1>2, <2>3 DEF AdvanceAfterSend
  <2> HIDE DEF sent
  <2> QED BY <2>2, <2>4, FileOKGoOn
<1> QED BY <1>1, <1>2

\* What a step leaves in the other columns, and of the drafts: at most one is new,
\* and it takes a free number.
Booked == entered' \in 0..today /\ evidence' \in Days \cup {Never} /\ rows' \in TrailRows

OldDrafts(w) == \A d \in w : d.kind = "draft" => d \in work \cup shelf

OneDraft(w) ==
    \E id, n : FreeId(id) /\ n.id = id /\ \A d \in w : d.kind = "draft" => d \in work \/ d = n

TypeEffect == Booked /\ (OldDrafts(work') \/ OneDraft(work'))

LEMMA BecomeBooks ==
    ASSUME NEW seen, NEW f, FileOK(f), Become(seen, f)
    PROVE  Booked
<1>1. /\ entered' = f.entered /\ evidence' = f.evidence /\ rows' = f.rows
      /\ \A s \in Steps : Len(f.rows[s]) <= MaxRows
  BY DEF Become
<1>2. f.rows \in TrailRows
  BY <1>1, SeqsAreRows DEF FileOK
<1> QED BY <1>1, <1>2 DEF FileOK, Booked

LEMMA UntouchedBooked ==
    ASSUME Columns, UNCHANGED <<entered, rows, evidence>>
    PROVE  Booked
BY DEF Columns, Booked

\* Moving and closing only take work away.
LEMMA WorkShrinks ==
    ASSUME NEW w, NEW s
    PROVE  /\ WorkAfterMove(w, s) \subseteq w /\ ClosedWork(w) \subseteq w
           /\ \A sources : CloseMirrors(w, s, sources) \subseteq w
           /\ WithoutStepTask(w, s) \subseteq w
<1>1. ASSUME NEW v, NEW D PROVE Discard(v, D) \subseteq v
  BY DEF Discard
<1>2. ASSUME NEW v PROVE supersede_open_recommendations(v) \subseteq v
  BY DEF supersede_open_recommendations
<1>3. ASSUME NEW v PROVE discard_open_drafts_on_close(v) \subseteq v
  BY <1>1 DEF discard_open_drafts_on_close
<1>4. ASSUME NEW v PROVE discard_stale_step_drafts(v, s) \subseteq v
  BY <1>1 DEF discard_stale_step_drafts
<1>5. WorkAfterMove(w, s) \subseteq w
  BY <1>2, <1>3, <1>4 DEF WorkAfterMove
<1>6. ClosedWork(w) \subseteq w
  BY <1>2, <1>3 DEF ClosedWork, close_payment_promise_tasks
<1>7. \A sources : CloseMirrors(w, s, sources) \subseteq w
  BY DEF CloseMirrors
<1>8. WithoutStepTask(w, s) \subseteq w
  BY DEF WithoutStepTask
<1> QED BY <1>5, <1>6, <1>7, <1>8

LEMMA SentTypes ==
    ASSUME Columns, NEW seen, NEW f, FileOK(f), f.work \subseteq work, NEW record \in BOOLEAN,
           Become(seen, AdvanceAfterSend(f, record))
    PROVE  TypeEffect
<1> DEFINE g == AdvanceAfterSend(f, record)
           w == Recorded(f, record)
<1>1. Booked
  BY FileOKAfterSend, BecomeBooks
<1>i. IsFile(f)
  BY DEF FileOK
<1>2. \/ g.work = w \/ g.work = w \cup {Task("b2c_pipeline_end")}
      \/ \E target : g.work = WorkAfterMove(w, target)
  BY <1>i, AfterSend DEF GoneOn
<1>3. work' = g.work
  BY DEF Become
<1> HIDE DEF g
<1>4. w \subseteq work
  BY WorkShrinks DEF Recorded
<1> HIDE DEF w
<1>5. Task("b2c_pipeline_end").kind = "task"
  BY DEF Task
<1>6. OldDrafts(work')
  BY <1>2, <1>3, <1>4, <1>5, WorkShrinks DEF OldDrafts
<1> QED BY <1>1, <1>6 DEF TypeEffect

LEMMA RowTypes ==
    ASSUME NEW seen, NEW f, FileOK(f), NEW c \in CaseRow, NEW w, w \subseteq work,
           Become(seen, [f EXCEPT !.case = c, !.work = w])
    PROVE  TypeEffect
<1> DEFINE g == [f EXCEPT !.case = c, !.work = w]
<1>i. IsFile(f)
  BY DEF FileOK
<1>1. g = [case |-> c, consumer |-> f.consumer, work |-> w,
           entered |-> f.entered, rows |-> f.rows, evidence |-> f.evidence]
  BY <1>i, FileRow
<1>2. Become(seen, g)
  OBVIOUS
<1> HIDE DEF g
<1>3. FileOK(g)
  BY <1>1 DEF FileOK, IsFile
<1>4. OldDrafts(work')
  BY <1>1, <1>2 DEF Become, OldDrafts
<1> QED BY <1>2, <1>3, <1>4, BecomeBooks DEF TypeEffect

LEMMA CaseHandlerTypes ==
    ASSUME Columns, NEW seen, seen.case \in CaseRow, CaseHandler(seen)
    PROVE  TypeEffect
<1>f. FileOK(File(seen)) /\ IsFile(File(seen)) /\ File(seen).work = work
  BY FileOKNow, FileIs
<1>1. ASSUME NEW s \in Steps, move_step(seen, s) PROVE TypeEffect
  <2> DEFINE g == MoveTo(File(seen), s)
  <2>1. FileOK(g) /\ g.work = WorkAfterMove(work, s)
    BY <1>f, FileOKMove, FileMove
  <2>2. Become(seen, g)
    BY <1>1 DEF move_step
  <2> HIDE DEF g
  <2>3. OldDrafts(work')
    BY <2>1, <2>2, WorkShrinks DEF Become, OldDrafts
  <2> QED BY <2>1, <2>2, <2>3, BecomeBooks DEF TypeEffect
<1>2. ASSUME NEW s \in Steps, batch_advance_step(seen, s) PROVE TypeEffect
  <2> DEFINE f == MoveTo(File(seen), s)
             g == [f EXCEPT !.work = f.work \cup {StepTask(s)}]
  <2>1. FileOK(f) /\ IsFile(f) /\ f.work = WorkAfterMove(work, s)
    BY <1>f, FileOKMove, FileMove
  <2>2. Become(seen, [f EXCEPT !.work = @ \cup {StepTask(s)}])
    BY <1>2 DEF batch_advance_step
  <2> HIDE DEF f
  <2>3. [f EXCEPT !.work = @ \cup {StepTask(s)}] = g
    BY <2>1 DEF IsFile
  <2>4. FileOK(g) /\ g.work = f.work \cup {StepTask(s)}
    BY <2>1, FileOKWork, FileWork
  <2> HIDE DEF g
  <2>5. work' = WorkAfterMove(work, s) \cup {StepTask(s)}
    BY <2>1, <2>2, <2>3, <2>4 DEF Become
  <2>6. StepTask(s).kind = "task"
    BY DEF StepTask
  <2>7. OldDrafts(work')
    BY <2>5, <2>6, WorkShrinks DEF OldDrafts
  <2> QED BY <2>2, <2>3, <2>4, <2>7, BecomeBooks DEF TypeEffect
<1>3. ASSUME NEW c \in CaseRow, NEW w, w \subseteq work,
             Become(seen, [File(seen) EXCEPT !.case = c, !.work = w])
      PROVE  TypeEffect
  BY <1>f, <1>3, RowTypes
<1>4. ASSUME NEW status \in Statuses, update_case_status(seen, status) PROVE TypeEffect
  <2> DEFINE c == WithStatus(seen.case, status, 0)
             w == WorkWithStatus(work, status)
  <2>1. [File(seen) EXCEPT !.case = WithStatus(@, status, 0), !.work = WorkWithStatus(@, status)]
            = [File(seen) EXCEPT !.case = c, !.work = w]
    BY <1>f, FileIs DEF IsFile
  <2>2. c \in CaseRow
    BY RowWrites DEF WithStatus
  <2>3. w \subseteq work
    BY WorkShrinks DEF WorkWithStatus
  <2>4. Become(seen, [File(seen) EXCEPT !.case = c, !.work = w])
    BY <1>4, <2>1 DEF update_case_status
  <2> HIDE DEF c, w
  <2> QED BY <1>3, <2>2, <2>3, <2>4
<1>5. ASSUME on_payment_received(seen) PROVE TypeEffect
  <2> DEFINE c == ClosedWith(seen.case, "betaald", 0)
             w == ClosedWork(work)
  <2>1. [File(seen) EXCEPT !.case = ClosedWith(@, "betaald", 0), !.work = ClosedWork(@)]
            = [File(seen) EXCEPT !.case = c, !.work = w]
    BY <1>f, FileIs DEF IsFile
  <2>2. c \in CaseRow
    BY RowWrites DEF TERMINAL_STATUSES
  <2>3. w \subseteq work
    BY WorkShrinks
  <2>4. Become(seen, [File(seen) EXCEPT !.case = c, !.work = w])
    BY <1>5, <2>1 DEF on_payment_received
  <2> HIDE DEF c, w
  <2> QED BY <1>3, <2>2, <2>3, <2>4
<1>6. ASSUME payment_taken_back(seen) PROVE TypeEffect
  <2> DEFINE c == Reopened(seen.case)
  <2>1. [File(seen) EXCEPT !.case = Reopened(@)] = [File(seen) EXCEPT !.case = c, !.work = work]
    BY <1>f, FileIs DEF IsFile
  <2>2. c \in CaseRow
    BY RowWrites
  <2>3. Become(seen, [File(seen) EXCEPT !.case = c, !.work = work])
    BY <1>6, <2>1 DEF payment_taken_back
  <2> HIDE DEF c
  <2> QED BY <1>3, <2>2, <2>3
<1>7. ASSUME \/ clear_step(seen) \/ set_debtor_type(seen)
             \/ \E b \in BOOLEAN : set_case_verweer(seen, b)
      PROVE  TypeEffect
  <2>1. UNCHANGED <<work, entered, rows, evidence>>
    BY <1>7 DEF clear_step, set_debtor_type, set_case_verweer, fileVars
  <2> QED BY <2>1, UntouchedBooked DEF TypeEffect, OldDrafts
<1> QED BY <1>1, <1>2, <1>4, <1>5, <1>6, <1>7 DEF CaseHandler

LEMMA LetterHandlerTypes ==
    ASSUME Columns, NEW seen, Seen(seen), LetterHandler(seen)
    PROVE  TypeEffect
<1>f. FileOK(File(seen)) /\ IsFile(File(seen)) /\ File(seen).work = work
  BY FileOKNow, FileIs DEF Seen
<1>1. ASSUME NEW send \in BOOLEAN, batch_generate_document(seen, send) PROVE TypeEffect
  <2> DEFINE w == WithoutStepTask(work, seen.case.step)
             f == [File(seen) EXCEPT !.work = w]
  <2>1. [File(seen) EXCEPT !.work = WithoutStepTask(@, seen.case.step)] = f
    BY <1>f DEF IsFile
  <2>2. Become(seen, AdvanceAfterSend(f, send))
    BY <1>1, <2>1 DEF batch_generate_document
  <2>3. w \subseteq work
    BY WorkShrinks
  <2> HIDE DEF w
  <2>4. FileOK(f) /\ f.work = w
    BY <1>f, FileOKWork, FileWork
  <2> HIDE DEF f
  <2> QED BY <2>2, <2>3, <2>4, SentTypes
<1>2. ASSUME NEW t, NEW override, compose_send(seen, t, override) PROVE TypeEffect
  <2> DEFINE f == File(seen)
  <2>1. Become(seen, IF t = f.case.step THEN AdvanceAfterSend(f, TRUE) ELSE f)
    BY <1>2 DEF compose_send
  <2> HIDE DEF f
  <2>2. FileOK(f) /\ f.work = work
    BY <1>f DEF f
  <2>3. CASE Become(seen, AdvanceAfterSend(f, TRUE))
    BY <2>2, <2>3, SentTypes
  <2>4. CASE Become(seen, f)
    <3>1. OldDrafts(work')
      BY <2>2, <2>4 DEF Become, OldDrafts
    <3> QED BY <2>2, <2>4, <3>1, BecomeBooks DEF TypeEffect
  <2> QED BY <2>1, <2>3, <2>4
<1>3. ASSUME NEW x, execute_recommendation(seen, x) PROVE TypeEffect
  <2> DEFINE w == WithoutStepTask(work \ {x}, x.step)
             f == [File(seen) EXCEPT !.work = w]
  <2>1. [File(seen) EXCEPT !.work = WithoutStepTask(@ \ {x}, x.step)] = f
    BY <1>f DEF IsFile
  <2>2. w \subseteq work
    BY WorkShrinks
  <2> HIDE DEF w
  <2>3. FileOK(f) /\ f.work = w
    BY <1>f, FileOKWork, FileWork
  <2> HIDE DEF f
  <2>4. CASE Become(seen, AdvanceAfterSend(f, TRUE))
    BY <2>2, <2>3, <2>4, SentTypes
  <2>5. CASE /\ work' = IF Mirror(x.id, x.step) \in work THEN work \ {x}
                        ELSE (work \ {x}) \cup {Task("followup_advisor")}
             /\ UNCHANGED <<entered, rows, evidence>>
    <3>1. OldDrafts(work')
      BY <2>5 DEF OldDrafts, Task
    <3> QED BY <2>5, <3>1, UntouchedBooked DEF TypeEffect
  <2> QED BY <1>3, <2>1, <2>4, <2>5 DEF execute_recommendation
<1>4. ASSUME NEW x \in OfKind(seen.work, "advice"),
             approve_recommendation(seen, x) \/ reject_recommendation(seen, x)
      PROVE  TypeEffect
  <2>1. UNCHANGED <<entered, rows, evidence>>
    BY <1>4 DEF approve_recommendation, reject_recommendation
  <2>2. CASE approve_recommendation(seen, x)
    <3>1. x = Advice(x.id, x.step, x.status)
      BY DEF OfKind, Seen, Item, AdviceItem
    <3>2. [x EXCEPT !.status = "approved"].kind = "advice"
      BY <3>1 DEF Advice
    <3>3. OldDrafts(work')
      BY <2>2, <3>2 DEF approve_recommendation, Reviewed, OldDrafts
    <3> QED BY <2>1, <3>3, UntouchedBooked DEF TypeEffect
  <2>3. CASE reject_recommendation(seen, x)
    <3>1. work' \subseteq work
      BY <2>3 DEF reject_recommendation, CloseMirrors
    <3> QED BY <2>1, <3>1, UntouchedBooked DEF TypeEffect, OldDrafts
  <2> QED BY <1>4, <2>2, <2>3
<1> QED BY <1>1, <1>2, <1>3, <1>4 DEF LetterHandler

\* A draft that is added takes a free number.
LEMMA DraftForOne ==
    ASSUME NEW id, FreeId(id), NEW s, NEW w, w \subseteq work
    PROVE  OneDraft(w \cup DraftFor(id, s))
<1> DEFINE n == Draft(id, "next_step", s)
<1>1. n.id = id /\ Review(id).kind = "review"
  BY DEF Draft, Review
<1>2. \A d \in w \cup DraftFor(id, s) : d.kind = "draft" => d \in work \/ d = n
  BY <1>1 DEF DraftFor
<1> QED BY <1>1, <1>2 DEF OneDraft

LEMMA DraftHandlerTypes ==
    ASSUME Columns, NEW seen, DraftHandler(seen)
    PROVE  TypeEffect
<1>1. ASSUME NEW id, generate_draft_for_current_step(seen, id) PROVE TypeEffect
  <2>1. /\ UNCHANGED <<entered, rows, evidence>> /\ FreeId(id)
        /\ work' = work \cup DraftFor(id, seen.case.step)
    BY <1>1 DEF generate_draft_for_current_step
  <2> QED BY <2>1, UntouchedBooked, DraftForOne DEF TypeEffect
<1>2. ASSUME NEW id, NEW intent, NEW w, w \subseteq work, FreeId(id),
             work' = w \cup {Draft(id, intent, seen.case.step)},
             UNCHANGED <<entered, rows, evidence>>
      PROVE  TypeEffect
  <2> DEFINE n == Draft(id, intent, seen.case.step)
  <2>1. n.id = id
    BY DEF Draft
  <2>2. \A d \in work' : d \in work \/ d = n
    BY <1>2
  <2> HIDE DEF n
  <2>3. OneDraft(work')
    BY <1>2, <2>1, <2>2 DEF OneDraft
  <2> QED BY <1>2, <2>3, UntouchedBooked DEF TypeEffect
<1>3. ASSUME NEW id, generate_next_step(seen, id) PROVE TypeEffect
  <2> DEFINE new  == Draft(id, "next_step", seen.case.step)
  <2>1. UNCHANGED <<entered, rows, evidence>> /\ FreeId(id)
    BY <1>3 DEF generate_next_step
  <2>2. work' = work \cup {new} \/ \E d : work' = (work \ {d}) \cup {new}
    BY <1>3 DEF generate_next_step
  <2>3. PICK w : w \subseteq work /\ work' = w \cup {new}
    <3> HIDE DEF new
    <3>1. \A d : work \ {d} \subseteq work
      OBVIOUS
    <3> QED BY <2>2, <3>1
  <2> QED BY <1>2, <2>1, <2>3
<1>4. ASSUME NEW id, generate_reply(seen, id) PROVE TypeEffect
  <2>1. PICK old : work' = (work \ old) \cup {Draft(id, "reply", seen.case.step)}
    BY <1>4 DEF generate_reply
  <2>2. work \ old \subseteq work /\ FreeId(id) /\ UNCHANGED <<entered, rows, evidence>>
    BY <1>4 DEF generate_reply
  <2> QED BY <1>2, <2>1, <2>2
<1>5. ASSUME NEW d, NEW override, send_draft(seen, d, override) PROVE TypeEffect
  <2>1. UNCHANGED <<work, entered, rows, evidence>>
    BY <1>5 DEF send_draft, fileVars
  <2> QED BY <2>1, UntouchedBooked DEF TypeEffect, OldDrafts
<1> QED BY <1>1, <1>3, <1>4, <1>5 DEF DraftHandler

LEMMA CompletionTypes ==
    ASSUME Columns, NEW seen, Seen(seen), NEW d, complete_ai_draft_after_send(seen, d)
    PROVE  TypeEffect
<1> DEFINE w == work \ {d, Review(d.id)}
           f == [File(seen) EXCEPT !.work = w]
<1>f. FileOK(File(seen)) /\ IsFile(File(seen)) /\ File(seen).work = work
  BY FileOKNow, FileIs DEF Seen
<1>1. [File(seen) EXCEPT !.work = @ \ {d, Review(d.id)}] = f
  BY <1>f DEF IsFile
<1>2. Become(seen, IF d.intent = "next_step" THEN AdvanceAfterSend(f, TRUE) ELSE f)
  BY <1>1 DEF complete_ai_draft_after_send
<1>3. w \subseteq work
  OBVIOUS
<1> HIDE DEF w
<1>4. FileOK(f)
  BY <1>f, FileOKWork
<1>w. f.work = w
  BY <1>f, FileWork
<1> HIDE DEF f
<1>5. CASE Become(seen, AdvanceAfterSend(f, TRUE))
  BY <1>3, <1>4, <1>5, <1>w, SentTypes
<1>6. CASE Become(seen, f)
  <2>1. OldDrafts(work')
    BY <1>3, <1>6, <1>w DEF Become, OldDrafts
  <2> QED BY <1>4, <1>6, <2>1, BecomeBooks DEF TypeEffect
<1> QED BY <1>2, <1>5, <1>6

LEMMA BackgroundTypes ==
    ASSUME Columns, case \in CaseRow, Background
    PROVE  TypeEffect
<1>1. ASSUME scan_for_followups PROVE TypeEffect
  <2>1. UNCHANGED <<entered, rows, evidence>>
    BY <1>1 DEF scan_for_followups
  <2>2. PICK id : work' = work \cup {Advice(id, case.step, "pending"), Mirror(id, case.step)}
    BY <1>1 DEF scan_for_followups
  <2>3. Advice(id, case.step, "pending").kind = "advice" /\ Mirror(id, case.step).kind = "mirror"
    BY DEF Advice, Mirror
  <2>4. OldDrafts(work')
    BY <2>2, <2>3 DEF OldDrafts
  <2> QED BY <2>1, <2>4, UntouchedBooked DEF TypeEffect
<1>2. ASSUME NEW id, daily_pipeline_auto_drafts(id) PROVE TypeEffect
  <2>1. /\ UNCHANGED <<entered, rows, evidence>> /\ FreeId(id)
        /\ work' = work \cup DraftFor(id, Advance[case.step])
    BY <1>2 DEF daily_pipeline_auto_drafts
  <2> QED BY <2>1, UntouchedBooked, DraftForOne DEF TypeEffect
<1>3. ASSUME NEW id, trigger_defense_response(id) PROVE TypeEffect
  <2> DEFINE moved == MoveTo(File(Now), VerweerStep)
             f == IF case.step \in MainSteps THEN moved ELSE File(Now)
             g == [f EXCEPT !.work = f.work \cup DraftFor(id, VerweerStep)]
  <2>1. FileOK(File(Now)) /\ IsFile(File(Now)) /\ File(Now).work = work
    BY FileOKNow, FileIs, NowSeen
  <2>2. FileOK(moved) /\ IsFile(moved) /\ moved.work \subseteq work
    BY <2>1, FileOKMove, FileMove, VerweerIs, WorkShrinks
  <2> HIDE DEF moved
  <2>3. FileOK(f) /\ IsFile(f) /\ f.work \subseteq work
    BY <2>1, <2>2
  <2>4. \/ Become(Now, f)
        \/ FreeId(id) /\ Become(Now, [f EXCEPT !.work = @ \cup DraftFor(id, VerweerStep)])
    BY <1>3 DEF trigger_defense_response, moved
  <2> HIDE DEF f
  <2>5. [f EXCEPT !.work = @ \cup DraftFor(id, VerweerStep)] = g
    BY <2>3 DEF IsFile
  <2>6. FileOK(g) /\ g.work = f.work \cup DraftFor(id, VerweerStep)
    BY <2>3, FileOKWork, FileWork
  <2> HIDE DEF g
  <2>7. CASE Become(Now, f)
    <3>1. OldDrafts(work')
      BY <2>3, <2>7 DEF Become, OldDrafts
    <3> QED BY <2>3, <2>7, <3>1, BecomeBooks DEF TypeEffect
  <2>8. CASE FreeId(id) /\ Become(Now, g)
    <3>1. work' = f.work \cup DraftFor(id, VerweerStep)
      BY <2>6, <2>8 DEF Become
    <3>2. OneDraft(work')
      BY <2>3, <2>8, <3>1, DraftForOne
    <3> QED BY <2>6, <2>8, <3>2, BecomeBooks DEF TypeEffect
  <2> QED BY <2>4, <2>5, <2>7, <2>8
<1>4. ASSUME \/ \E x \in work : complete_task(x)
             \/ \E d \in OfKind(work, "draft") \cup shelf, status \in {"open", "sent", "discarded"} :
                    update_draft_status(d, status)
      PROVE  TypeEffect
  <2>1. UNCHANGED <<entered, rows, evidence>> /\ work' \subseteq work \cup shelf
    BY <1>4 DEF complete_task, update_draft_status, Discard, OfKind
  <2> QED BY <2>1, UntouchedBooked DEF TypeEffect, OldDrafts
<1> QED BY <1>1, <1>2, <1>3, <1>4 DEF Background

\* The columns that only a few handlers write.
Flags ==
    /\ consumer' \in BOOLEAN /\ brief' \in Days \cup {Never} /\ executed' \subseteq Steps

LEMMA LetterFlag ==
    ASSUME today \in Days, brief \in Days \cup {Never}
    PROVE  /\ Quiet => brief' \in Days \cup {Never}
           /\ \A s, route : Sent(s, route) => brief' \in Days \cup {Never}
BY DEF Quiet, Sent

LEMMA HandlerFlags ==
    ASSUME TypeInv, NEW seen, Seen(seen), seen.consumer \in BOOLEAN, Handler(seen)
    PROVE  Flags
<1>t. today \in Days /\ brief \in Days \cup {Never} /\ consumer \in BOOLEAN /\ executed \subseteq Steps
  BY DEF TypeInv, Columns
<1>1. CASE CaseHandler(seen)
  <2>1. Quiet /\ executed' = executed /\ consumer' \in {consumer, ~seen.consumer}
    BY <1>1 DEF CaseHandler, move_step, batch_advance_step, clear_step, set_debtor_type,
                set_case_verweer, update_case_status, on_payment_received, payment_taken_back
  <2> QED BY <1>t, <2>1, LetterFlag DEF Flags
<1>2. ASSUME NEW x \in OfKind(seen.work, "advice"), execute_recommendation(seen, x)
      PROVE  Flags
  <2>1. x.step \in Steps
    BY DEF OfKind, Seen, Item, AdviceItem
  <2>2. /\ executed' = executed \cup {x.step} /\ consumer' = consumer
        /\ Quiet \/ Sent(x.step, "advice")
    BY <1>2 DEF execute_recommendation
  <2> QED BY <1>t, <2>1, <2>2, LetterFlag DEF Flags
<1>3. ASSUME NEW x, approve_recommendation(seen, x) \/ reject_recommendation(seen, x)
      PROVE  Flags
  <2>1. Quiet /\ UNCHANGED <<consumer, executed>>
    BY <1>3 DEF approve_recommendation, reject_recommendation
  <2> QED BY <1>t, <2>1, LetterFlag DEF Flags
<1>4. ASSUME NEW send, batch_generate_document(seen, send) PROVE Flags
  <2>1. UNCHANGED <<consumer, executed>> /\ (Quiet \/ Sent(seen.case.step, "batch"))
    BY <1>4 DEF batch_generate_document
  <2> QED BY <1>t, <2>1, LetterFlag DEF Flags
<1>5. ASSUME NEW t, NEW override, compose_send(seen, t, override) PROVE Flags
  <2>1. UNCHANGED <<consumer, executed>> /\ \E route : Sent(t, route)
    BY <1>5 DEF compose_send
  <2> QED BY <1>t, <2>1, LetterFlag DEF Flags
<1>6. CASE DraftHandler(seen)
  <2>1. UNCHANGED <<consumer, executed>> /\ (Quiet \/ \E s, route : Sent(s, route))
    BY <1>6 DEF DraftHandler, generate_draft_for_current_step, generate_next_step,
                generate_reply, send_draft
  <2> QED BY <1>t, <2>1, LetterFlag DEF Flags
<1> QED BY <1>1, <1>2, <1>3, <1>4, <1>5, <1>6 DEF Handler, LetterHandler

\* Every step, but for a new day.
LEMMA StepTypes ==
    ASSUME PipeInv, TypeInv, Next, ~NextDay
    PROVE  TypeEffect /\ Flags /\ today' = today
<1>c. Columns /\ case \in CaseRow /\ Seen(Now) /\ Now.consumer \in BOOLEAN
  BY NowSeen DEF PipeInv, TypeInv
<1>1. ASSUME NEW seen, Seen(seen), seen.consumer \in BOOLEAN, Handler(seen), today' = today
      PROVE  TypeEffect /\ Flags /\ today' = today
  <2>1. seen.case \in CaseRow
    BY <1>1 DEF Seen
  <2>2. TypeEffect
    BY <1>c, <1>1, <2>1, CaseHandlerTypes, LetterHandlerTypes, DraftHandlerTypes DEF Handler
  <2> QED BY <1>1, <2>2, HandlerFlags
<1>2. ASSUME Background \/ SecondRequest(Now), today' = today
      PROVE  TypeEffect /\ Flags /\ today' = today
  <2>1. TypeEffect
    BY <1>c, <1>2, BackgroundTypes, CompletionTypes DEF SecondRequest
  <2>2. Quiet /\ UNCHANGED <<consumer, executed>>
    BY <1>2 DEF Background, scan_for_followups, daily_pipeline_auto_drafts, complete_task,
                trigger_defense_response, update_draft_status, SecondRequest, complete_ai_draft_after_send
  <2> QED BY <1>2, <2>1, <2>2 DEF Flags, TypeInv, Quiet
<1>3. ASSUME \/ \E r \in Requests : Begin(r) \/ Abandon(r)
             \/ \E d \in mailed : never_completed(d) /\ today' = today
      PROVE  TypeEffect /\ Flags /\ today' = today
  <2>1. /\ UNCHANGED <<work, entered, rows, evidence, consumer, executed, today>> /\ Quiet
    BY <1>3 DEF Begin, Abandon, never_completed, fileVars
  <2>2. TypeEffect
    BY <1>c, <2>1, UntouchedBooked DEF TypeEffect, OldDrafts
  <2> QED BY <2>1, <2>2 DEF Flags, TypeInv, Quiet
<1>4. ASSUME NEW r \in Requests, req[r] # Idle
      PROVE  Seen(req[r]) /\ req[r].consumer \in BOOLEAN
  BY <1>4 DEF PipeInv, TypeInv
<1> QED BY <1>c, <1>1, <1>2, <1>3, <1>4 DEF Next, Step

LEMMA DraftsStayUnique ==
    ASSUME UniqueDrafts(work \cup shelf), Shelve, OldDrafts(work') \/ OneDraft(work')
    PROVE  UniqueDrafts(work' \cup shelf')
<1>s. \A d : d \in shelf' <=> /\ d \in shelf \/ (d \in work /\ d.kind = "draft")
                             /\ \A e \in work' : e.kind = "draft" => e.id # d.id
  BY DEF Shelve, OfKind
<1>1. CASE OldDrafts(work')
  BY <1>1, <1>s DEF OldDrafts, UniqueDrafts, OfKind
<1>2. ASSUME NEW id, NEW n, FreeId(id), n.id = id,
             \A d \in work' : d.kind = "draft" => d \in work \/ d = n
      PROVE  UniqueDrafts(work' \cup shelf')
  <2>1. \A d \in work : d.kind = "draft" => d.id # n.id
    BY <1>2 DEF FreeId
  <2> QED BY <1>2, <1>s, <2>1 DEF UniqueDrafts, OfKind
<1> QED BY <1>1, <1>2 DEF OneDraft

LEMMA TypeStep ==
    ASSUME PipeInv, TypeInv, [Next]_vars
    PROVE  TypeInv'
<1>r. \A r \in Requests : req'[r] # Idle => req'[r].consumer \in BOOLEAN
  <2>1. \A r \in Requests : req'[r] \in {Idle, req[r], Now}
    BY NextWorks DEF StepOK
  <2>2. Now.consumer \in BOOLEAN
    BY NowSeen DEF TypeInv
  <2> QED BY <2>1, <2>2 DEF TypeInv
<1>1. CASE Next /\ ~NextDay
  <2>1. TypeEffect /\ Flags /\ today' = today
    BY <1>1, StepTypes
  <2>2. Columns'
    BY <2>1 DEF TypeEffect, Booked, TypeInv, Columns, TrailRows, Days
  <2>3. UniqueDrafts(work' \cup shelf')
    BY <1>1, <2>1, DraftsStayUnique DEF TypeEffect, TypeInv, Next
  <2> QED BY <1>r, <2>1, <2>2, <2>3 DEF TypeInv, Flags, UniqueDrafts, OfKind, Days
<1>2. CASE NextDay
  <2>1. /\ UNCHANGED <<work, entered, rows, evidence, consumer, executed, brief>>
        /\ today < MaxDay /\ today' = today + 1
    BY <1>2 DEF NextDay, fileVars, Quiet
  <2>2. Columns'
    BY <2>1, MaxDayAssumption DEF TypeInv, Columns, TrailRows, Days
  <2>3. CASE UNCHANGED shelf
    BY <1>r, <2>1, <2>2, <2>3 DEF TypeInv, UniqueDrafts, OfKind, Days
  <2>4. CASE Shelve
    <3>1. UniqueDrafts(work' \cup shelf')
      BY <2>1, <2>4, DraftsStayUnique DEF OldDrafts, TypeInv
    <3> QED BY <1>r, <2>1, <2>2, <3>1 DEF TypeInv, UniqueDrafts, OfKind, Days
  <2> QED BY <2>3, <2>4 DEF Next, vars
<1>3. CASE UNCHANGED vars
  BY <1>r, <1>3 DEF vars, fileVars, TypeInv, Columns, TrailRows, UniqueDrafts, OfKind, Days
<1> QED BY <1>1, <1>2, <1>3

LEMMA TypeInit == Init => TypeInv
<1> SUFFICES ASSUME Init PROVE TypeInv
  OBVIOUS
<1>1. Columns
  <2>1. PICK s : rows = [t \in Steps |-> IF t = s THEN <<FALSE>> ELSE <<>>]
    BY DEF Init
  <2>2. rows \in [Steps -> Seq(BOOLEAN)] /\ \A t \in Steps : Len(rows[t]) <= MaxRows
    <3>1. <<FALSE>> \in Seq(BOOLEAN) /\ Len(<<FALSE>>) = 1
      OBVIOUS
    <3>2. <<>> \in Seq(BOOLEAN) /\ Len(<<>>) = 0
      OBVIOUS
    <3>3. ASSUME NEW t \in Steps PROVE rows[t] \in {<<FALSE>>, <<>>}
      BY <2>1
    <3>4. rows \in [Steps -> Seq(BOOLEAN)]
      BY <2>1, <3>1, <3>2, <3>3
    <3>5. ASSUME NEW t \in Steps PROVE Len(rows[t]) <= MaxRows
      <4>1. Len(rows[t]) \in {0, 1}
        BY <3>1, <3>2, <3>3
      <4>2. \A n \in {0, 1} : n <= MaxRows
        BY PipelineAssumption
      <4> QED BY <4>1, <4>2, Zenon
    <3> QED BY <3>4, <3>5
  <2>3. rows \in TrailRows
    BY <2>2, SeqsAreRows
  <2> QED BY <2>3, MaxDayAssumption DEF Init, Columns, Days
<1>2. consumer \in BOOLEAN
  BY PipelineAssumption DEF Init
<1> QED BY <1>1, <1>2 DEF Init, TypeInv, UniqueDrafts, OfKind

\* Every column keeps a value its schema allows, along every route and with any
\* number of overlapping requests, and no two open drafts have the same number.
THEOREM PipelineTypeCorrect == Spec => []PipelineTypeOK
<1>1. PipeInv /\ TypeInv => PipelineTypeOK
  <2> SUFFICES ASSUME PipeInv, TypeInv PROVE PipelineTypeOK
    OBVIOUS
  <2>1. \A d, e \in OfKind(work, "draft") \cup shelf : d.id = e.id => d = e
    BY DEF PipeInv, TypeInv, UniqueDrafts, OfKind
  <2>2. \A x \in work : x.kind \in {"draft", "review", "advice", "mirror", "task"}
    BY DEF PipeInv, WorkInv, Item
  <2> QED BY <2>1, <2>2 DEF PipeInv, TypeInv, Columns, TrailRows, PipelineTypeOK
<1>2. Spec => []TypeInv
  BY TypeInit, TypeStep, PipeInvariant, PTL DEF Spec
<1> QED BY <1>1, <1>2, PipeInvariant, PTL

=============================================================================
