---------------------------------- MODULE Intake ----------------------------------
(***************************************************************************)
(* Requests for a new case (app/ai_agent/intake_service.py, its router     *)
(* and the jobs of workflow/scheduler.py): a mail of a client that hangs   *)
(* on no case becomes a request, a person approves it, and a case with the *)
(* mail on it is the result.  Composes with Mailbox, whose rows it reads   *)
(* and links.                                                              *)
(*                                                                         *)
(* The language model may answer or fail, and its answer may be one that   *)
(* the code or the table does not take; what it reads in a mail is left    *)
(* out, except the debtor that the mail names.                             *)
(***************************************************************************)
EXTENDS Mailbox

CONSTANTS
    Blank,      \* mails without readable text
    Unfit,      \* mails of which the answer does not fit: a value too long for its
                \* column, a field that cannot be read
    DebtorIn,   \* DebtorIn[m]: the debtor that the mail names
    Batch,      \* the mails that one run of the job turns into requests (10)
    Readings    \* the requests that one run has the model read (5)

ASSUME IntakeAssumption ==
    Blank \cup Unfit \subseteq Mails /\ Batch \in Nat \ {0} /\ Readings \in Nat \ {0}

VARIABLE intakes    \* intakes[i]: the intake request of row i

vars == <<mailVars, intakes, req>>

NoIntake == [status |-> "none", client |-> NoContact, case |-> NoCase]

InboxNow == [op |-> "open", rows |-> rows, intakes |-> intakes]

\* A contact is a client as long as a case names it, a deleted one included.
Clients == {cases[c].client : c \in {d \in Cases : cases[d].state # "none"}} \ {NoContact}

-----------------------------------------------------------------------------
(* Making requests.                                                        *)

Candidates ==
    {i \in DOMAIN rows :
        /\ Inbound(rows[i]) /\ rows[i].case = NoCase /\ ~rows[i].dismissed
        /\ intakes[i].status = "none" /\ From[rows[i].about] \in Clients}

Requested(S) ==
    [i \in DOMAIN intakes |->
        IF i \in S THEN [NoIntake EXCEPT !.status = "detected", !.client = From[rows[i].about]]
        ELSE intakes[i]]

\* Mutant of Detected: the limit counts all mail that hangs nowhere (S188c).
DetectedAmongAll ==
    LET loose == {i \in DOMAIN rows :
                     /\ Inbound(rows[i]) /\ rows[i].case = NoCase /\ ~rows[i].dismissed
                     /\ intakes[i].status = "none"}
    IN  Requested(Oldest(loose, Batch) \cap Candidates)

\* detect_intake_emails: the limit counts mail of clients only.
Detected == Requested(Oldest(Candidates, Batch))

\* The answer to request i is one that process_intake stumbles over: only the
\* call of the model itself is guarded.
Stumbles(i, failed) == rows[i].about \in Unfit \ Blank /\ i \notin failed

\* process_intake of the requests of S, where the model fails on some: no text,
\* or a model that fails, is the end of it; an answer that the code stumbles
\* over leaves the request behind half done.
Processed(table, S, failed) ==
    [i \in DOMAIN table |->
        IF i \in S /\ table[i].status = "detected"
        THEN [table[i] EXCEPT !.status =
                  CASE Stumbles(i, failed) -> "processing"
                    [] ~Stumbles(i, failed) /\ (rows[i].about \in Blank \/ i \in failed) -> "failed"
                    [] OTHER -> "pending_review"]
        ELSE table[i]]

WaitingFor(table) == {i \in DOMAIN rows : table[i].status = "detected"}

\* The job: detect, then process some of what was detected, up to a limit; the
\* order is that of detection, which tells nothing within one run.  An answer
\* that cannot be read ends the run, and what it did so far is committed.
ai_intake_detection ==
    LET waiting == WaitingFor(Detected)
        most == Min({Readings, Cardinality(waiting)})
    IN  \E S \in SUBSET waiting : \E failed \in SUBSET S :
            LET odd == {i \in S : Stumbles(i, failed)} IN
            /\ Cardinality(S) <= most /\ Cardinality(odd) <= 1
            /\ odd = {} => Cardinality(S) = most
            /\ intakes' = Processed(Detected, S, failed)

\* A value that the table refuses costs the run its transaction: nothing of it
\* remains, the requests it detected neither.
ai_intake_lost ==
    /\ \E i \in WaitingFor(Detected) : Stumbles(i, {})
    /\ UNCHANGED intakes

\* What a person has read: an answer that the code stumbles over is an error
\* to him and changes nothing.
ReadNow(table, i) ==
    \E failed \in SUBSET {i} :
        ~Stumbles(i, failed) /\ intakes' = Processed(table, {i}, failed)

\* create_intake_from_email, for mail that has no request yet, and
\* trigger_process, for a request that a run left waiting.
create_intake_from_email(i) ==
    /\ i \in DOMAIN rows /\ Inbound(rows[i]) /\ rows[i].about \in ByHand
    /\ intakes[i].status \in {"none", "detected"}
    /\ LET writer == From[rows[i].about]
           new == [NoIntake EXCEPT !.status = "detected",
                                   !.client = IF writer \in Clients THEN writer ELSE NoContact]
       IN  ReadNow(IF intakes[i].status = "none" THEN [intakes EXCEPT ![i] = new] ELSE intakes, i)

-----------------------------------------------------------------------------
(* Reviewing them.                                                         *)

\* Mutant of Pending: a request may be approved again.
ApprovedOnceMore(seen, i) ==
    i \in DOMAIN seen.rows /\ seen.intakes[i].status \in {"pending_review", "approved"}

Pending(seen, i) == i \in DOMAIN seen.rows /\ seen.intakes[i].status = "pending_review"

\* approve_intake: a new case for the client against the debtor that the mail
\* names, and the mail is put on it, wherever it hangs by now.  A case must
\* have a client.
approve_intake(seen, i, c) ==
    /\ Pending(seen, i) /\ cases[c].state = "none" /\ seen.intakes[i].client # NoContact
    /\ LET m == seen.rows[i].about IN
       cases' = [cases EXCEPT ![c] = [state |-> "open", client |-> seen.intakes[i].client,
                                      debtor |-> DebtorIn[m], party |-> NoContact, source |-> m]]
    /\ rows' = FlushRows(seen.rows, [seen.rows EXCEPT ![i].case = c])
    /\ decided' = [decided EXCEPT ![i] = [case |-> c, by |-> "intake",
                                          dismissed |-> rows[i].dismissed]]
    /\ intakes' = [intakes EXCEPT ![i].status = "approved", ![i].case = c]
    /\ UNCHANGED post

reject_intake(seen, i) ==
    /\ Pending(seen, i)
    /\ intakes' = [intakes EXCEPT ![i].status = "rejected"]

-----------------------------------------------------------------------------

Handler(seen) ==
    \/ MailHandler(seen) /\ UNCHANGED intakes
    \/ \E i \in DOMAIN rows :
          \/ \E c \in Cases : approve_intake(seen, i, c)
          \/ reject_intake(seen, i) /\ UNCHANGED mailVars

\* What reads the tables as they are when it begins.
Reading ==
    /\ \/ ai_intake_detection
       \/ ai_intake_lost
       \/ \E i \in DOMAIN rows : create_intake_from_email(i)
    /\ UNCHANGED mailVars

Init == MailInit /\ intakes = [i \in 1..MaxRows |-> NoIntake]

Begin(r) == req[r] = Idle /\ req' = [req EXCEPT ![r] = InboxNow]

Abandon(r) == req[r] # Idle /\ req' = [req EXCEPT ![r] = Idle]

Next ==
    \/ Handler(InboxNow) /\ UNCHANGED req
    \/ Reading /\ UNCHANGED req
    \/ World /\ UNCHANGED <<intakes, req>>

Spec == Init /\ [][Next]_vars

\* Requests, and synchronisations among them, may overlap.
RaceNext ==
    \/ Next
    \/ \E r \in Requests :
          \/ (Begin(r) \/ Abandon(r)) /\ UNCHANGED <<mailVars, intakes>>
          \/ req[r] # Idle /\ Handler(req[r]) /\ req' = [req EXCEPT ![r] = Idle]

RaceSpec == Init /\ [][RaceNext]_vars

email_auto_sync ==
    rows' # rows /\ UNCHANGED <<post, cases, decided, intakes, req>> /\ sync(InboxNow, NoCase)

\* ENABLED email_auto_sync, written out.
SyncHasWork ==
    \E messages \in Returned(NoCase), oldest \in FirstOrLast(rows) :
        Synced(rows, messages, NoCase, oldest) # rows

\* The synchronisation runs every five minutes, the intake job every seven.  A
\* run that meets an answer it cannot take may be lost, so nothing is assumed
\* of such runs.
FairSpec ==
    /\ Spec
    /\ []<>~SyncHasWork \/ []<><<email_auto_sync>>_vars
    /\ WF_vars(/\ UNCHANGED <<mailVars, req>>
               /\ \A i \in WaitingFor(Detected) : ~Stumbles(i, {})
               /\ ai_intake_detection)

-----------------------------------------------------------------------------
(* Properties.                                                             *)

\* Every row stands for a message that was sent or received and hangs on a
\* case that exists, and a request has a mail and one of its states.
InboxTypeOK ==
    /\ \A i \in DOMAIN rows :
          /\ rows[i].about \in Range(post) /\ rows[i].msg \in Messages \cup {Synthetic}
          /\ rows[i].case = NoCase \/ cases[rows[i].case].state # "none"
    /\ \A i \in DOMAIN intakes :
          /\ intakes[i].status \in
                {"none", "detected", "processing", "pending_review", "failed", "approved",
                 "rejected"}
          /\ intakes[i].status # "none" => i \in DOMAIN rows

\* What a person decided of a mail - where it hangs, that it does not count -
\* stands against every synchronisation and every job.
DecisionStands ==
    \A i \in DOMAIN rows : decided[i].by # "nobody" =>
        /\ rows[i].case = decided[i].case
        /\ rows[i].dismissed = decided[i].dismissed

\* One mail is the source of one case at most.
OneCasePerMail ==
    \A c, d \in Cases : (cases[c].source \in Mails /\ cases[c].source = cases[d].source) => c = d

\* No message is in the table twice.
OneRowPerMessage ==
    \A i, j \in DOMAIN rows : (rows[i].msg = rows[j].msg /\ rows[i].msg # Synthetic) => i = j

\* An answer that is linked by its thread hangs on the case of the letter it
\* answers, unless mail of that thread was moved by a person or linked by a
\* guess: by the people in it, or by the page it was synchronised from.
Guessed(i) == rows'[i].by \in {"force_case_id", "contact_email"} \/ decided'[i].by # "nobody"

ThreadFollowsLetter ==
    [][\A i \in DOMAIN rows' :
          LET l == Thread(rows'[i].about) IN
          (/\ rows'[i].by = "thread" /\ l \in Letters
           /\ \A j \in DOMAIN rows' : Thread(rows'[j].about) = l => ~Guessed(j))
          => rows'[i].case = About[l]]_vars

\* No answer is linked to another case than that of the letter it answers,
\* by whatever signal.
AnswersReachTheirCase ==
    \A i \in DOMAIN rows :
        (/\ Inbound(rows[i]) /\ rows[i].case # NoCase /\ decided[i].by = "nobody"
         /\ Thread(rows[i].about) \in Letters)
        => rows[i].case = About[Thread(rows[i].about)]

\* A client's mail that came in does not stay unseen: again and again there is
\* none that is not on a case, laid aside by a person, or the subject of a
\* request that waits for review or is done.  Two things are excepted, and no
\* third: mail of which the answer does not fit, and other mail as long as one
\* of those is met by every run of the job again.
Awaits(i) ==
    rows[i].case = NoCase /\ ~rows[i].dismissed /\ intakes[i].status \in {"none", "detected"}

PickedUp(m) ==
    \E i \in DOMAIN rows : /\ rows[i].about = m
                           /\ \/ rows[i].case # NoCase \/ rows[i].dismissed
                              \/ intakes[i].status \notin {"none", "detected", "processing"}

ClientMailIsPickedUp ==
    []<>(\/ \E i \in DOMAIN rows : Awaits(i) /\ Stumbles(i, {})
         \/ \A m \in (Range(post) \cap Mails) \ Unfit : From[m] \in Clients => PickedUp(m))

\* Every message that came in is synchronised in the end.
EveryMailIsFetched ==
    \A m \in Mails : (m \in Range(post)) ~> \E i \in DOMAIN rows : rows[i].msg = m

\* A request that waits for review can be approved.
RequestCanBeApproved ==
    \A i \in DOMAIN intakes :
        intakes[i].status = "pending_review" => intakes[i].client # NoContact

\* A synchronisation from a case links mail of its people only.
ForcedFitsCase ==
    [][\A i \in DOMAIN rows' :
          (rows'[i].by = "force_case_id" /\ (i \in DOMAIN rows => rows[i].by # rows'[i].by))
             => Participant(rows'[i].about) \in Parties(rows'[i].case)]_vars

\* Mail is matched to active cases only.
MatchedToActive ==
    [][\A i \in DOMAIN rows' :
          (rows'[i].case # NoCase /\ decided'[i].by = "nobody"
             /\ (i \in DOMAIN rows => rows[i].case = NoCase))
             => cases[rows'[i].case].state # "deleted"]_vars

\* An approved request takes mail that hung nowhere.
ApprovalTakesLooseMail ==
    [][\A i \in DOMAIN rows :
          (intakes'[i].status = "approved" /\ intakes[i].status # "approved")
             => rows[i].case = NoCase]_vars
=============================================================================
