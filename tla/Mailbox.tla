--------------------------------- MODULE Mailbox ---------------------------------
(***************************************************************************)
(* The mailbox of an office as Luxis keeps it (app/email/sync_service.py,  *)
(* sync_router.py and the outbound log of send_service.py): the letters it *)
(* sends, the mail that comes in, and the rows of synced_emails that a     *)
(* synchronisation makes of both and hangs on cases.                       *)
(*                                                                         *)
(* What a mail says is given by constants: whose thread it is in, which    *)
(* case number it quotes, who wrote it.  A row is a record; rows are never *)
(* deleted, so a row is known by its place in the sequence.  A provider    *)
(* with search (Graph) gives a sent letter its identity only in the Sent   *)
(* folder; one without (IMAP) takes the identity that Luxis made.          *)
(***************************************************************************)
EXTENDS Integers, Sequences, SequencesExt, FiniteSets, FiniteSetsExt

CONSTANTS
    Requests,   \* slots for requests that overlap others
    Mails,      \* mails that others may send
    Letters,    \* letters that the office may send
    Cases,      \* bound: the cases there can be
    NoCase,     \* "not linked"
    NoContact,  \* no address known
    From,       \* From[m]: who wrote the mail
    Answers,    \* Answers[m]: the message whose thread the mail is in
    Quotes,     \* Quotes[m]: the case whose number it carries, or NoCase
    System,     \* bounces, automatic replies
    To,         \* To[l]: whom the letter is for
    About,      \* About[l]: the case it was sent from
    Prefix,     \* Prefix[l]: the first thirty characters of its subject
    Graph,      \* the provider: one with search, or IMAP
    Window,     \* max_results: the newest messages that one synchronisation sees
    FirstCases, \* the cases of the beginning, as rows
    ByHand,     \* bound: the messages that people link, lay aside or read by hand
    MayDelete   \* bound: the cases that the staff may delete

ASSUME MailboxAssumption ==
    /\ NoCase \notin Cases /\ Mails \cap Letters = {}
    /\ Window \in Nat \ {0} /\ Graph \in BOOLEAN /\ System \subseteq Mails
    /\ \A m \in Mails : Answers[m] \in Letters \cup {m}

\* A letter is sent from a case, and no case stems from mail still to come.
ASSUME CasesAssumption ==
    /\ IsFiniteSet(Mails) /\ IsFiniteSet(Letters) /\ IsFiniteSet(Cases)
    /\ "outlook-sent" \notin Mails \cup Letters
    /\ \A l \in Letters : About[l] \in Cases
    /\ \A m \in Mails : Quotes[m] \in Cases \cup {NoCase}
    /\ MayDelete \subseteq Cases /\ DOMAIN FirstCases = Cases
    /\ \A c \in Cases :
          /\ DOMAIN FirstCases[c] = {"state", "client", "debtor", "party", "source"}
          /\ FirstCases[c].state \in {"none", "open", "deleted"}
          /\ FirstCases[c].source \notin Mails

VARIABLES
    post,     \* every message sent or received, by date
    rows,     \* the table synced_emails, by insertion
    cases,    \* the table cases: [state, client, debtor, party, source]
    decided,  \* decided[i]: the place a person gave row i, if one did
    req       \* req[r]: what the request in slot r has loaded

Synthetic == "outlook-sent"

Messages == Mails \cup Letters

\* Bound: the rows that the table may have.
MaxRows == 2 * Cardinality(Messages)

Undecided == [case |-> NoCase, dismissed |-> FALSE, by |-> "nobody"]

Idle == [op |-> "idle"]

Participant(x) == IF x \in Letters THEN To[x] ELSE From[x]

Thread(x) == IF x \in Letters THEN x ELSE Answers[x]

Inbound(row) == row.about \in Mails

Parties(c) == {cases[c].client, cases[c].debtor, cases[c].party} \ {NoContact}

\* For the matching of mail a closed case is like an open one.
Live(c) == cases[c].state = "open"

-----------------------------------------------------------------------------
(* Which case a message belongs to.                                        *)

\* _find_case_by_case_number: the case it names, and whether it names one.
\* A number without a live case stops the search.
Number(x) == IF x \in Letters THEN About[x] ELSE Quotes[x]

NamedCase(x) == IF Number(x) # NoCase /\ Live(Number(x)) THEN Number(x) ELSE NoCase

Named(x) == Number(x) # NoCase

\* _find_case_by_thread: the newest row of the thread that is on a case.
Date(x) == CHOOSE n \in DOMAIN post : post[n] = x

CaseOfNewest(table, linked) ==
    IF linked = {} THEN NoCase
    ELSE table[CHOOSE i \in linked :
                  \A j \in linked : Date(table[j].about) <= Date(table[i].about)].case

\* Mutant of ThreadCase: the thread is not compared.
AnyThreadCase(table, x) ==
    CaseOfNewest(table, {i \in DOMAIN table : table[i].case # NoCase})

ThreadCase(table, x) ==
    CaseOfNewest(table, {i \in DOMAIN table : table[i].thread = Thread(x) /\ table[i].case # NoCase})

\* _find_case_for_email: the only case of the people in the mail.  As a party
\* to the case they count for a deleted one as well.
ContactCase(x) ==
    LET who == Participant(x)
        hits == {c \in Cases : \/ Live(c) /\ who \in {cases[c].client, cases[c].debtor}
                               \/ cases[c].state # "none" /\ who = cases[c].party}
    IN  IF Cardinality(hits) = 1 THEN CHOOSE c \in hits : TRUE ELSE NoCase

\* The order of the signals for a new message: thread, number, people; a
\* synchronisation from a case puts the case in the place of the people.
Match(table, x, force) ==
    LET byThread == ThreadCase(table, x)
        rest == IF force # NoCase THEN force ELSE ContactCase(x)
        restBy == IF force # NoCase THEN "force_case_id" ELSE "contact_email"
    IN  CASE byThread # NoCase -> [case |-> byThread, by |-> "thread"]
          [] byThread = NoCase /\ NamedCase(x) # NoCase ->
                [case |-> NamedCase(x), by |-> "case_number"]
          [] byThread = NoCase /\ NamedCase(x) = NoCase /\ ~Named(x) /\ x \notin System
                 /\ rest # NoCase ->
                [case |-> rest, by |-> restBy]
          [] OTHER -> [case |-> NoCase, by |-> "none"]

\* The first n of a set of rows, oldest mail first.
Oldest(S, n) ==
    {i \in S : Cardinality({j \in S : Date(rows[j].about) < Date(rows[i].about)}) < n}

-----------------------------------------------------------------------------
(* One message in the loop of sync_emails_for_account.                     *)

\* Mutant of Again: what a person dismissed is linked all the same (S241).
AgainDismissed(table, i, x, force) ==
    LET to == CASE NamedCase(x) # NoCase -> [case |-> NamedCase(x), by |-> "case_number"]
                [] ~Named(x) /\ x \notin System /\ force # NoCase ->
                      [case |-> force, by |-> "force_case_id"]
                [] OTHER -> [case |-> NoCase, by |-> "none"]
    IN  IF table[i].case = NoCase /\ to.case # NoCase
        THEN [table EXCEPT ![i].case = to.case, ![i].by = to.by]
        ELSE table

\* A message that was synchronised before and hangs nowhere is tried again
\* by its number, or put on the case of the synchronisation.  What a person
\* dismissed stays where it is; a bounce was dismissed by the program.
Again(table, i, x, force) ==
    LET to == CASE NamedCase(x) # NoCase -> [case |-> NamedCase(x), by |-> "case_number"]
                [] ~Named(x) /\ x \notin System /\ force # NoCase ->
                      [case |-> force, by |-> "force_case_id"]
                [] OTHER -> [case |-> NoCase, by |-> "none"]
    IN  IF table[i].case = NoCase /\ ~(table[i].dismissed /\ ~table[i].bounce) /\ to.case # NoCase
        THEN [table EXCEPT ![i].case = to.case, ![i].by = to.by]
        ELSE table

\* The copy of a letter in the Sent folder gives its identity to a row that
\* still waits for one and has the same beginning of a subject, any of them.
Waiting(table, l) ==
    {i \in DOMAIN table : table[i].msg = Synthetic /\ Prefix[table[i].about] = Prefix[l]}

\* Which of several is not determined: TRUE stands for the first.
FirstOrLast(table) ==
    IF Cardinality({i \in DOMAIN table : table[i].msg = Synthetic}) > 1 THEN BOOLEAN ELSE {TRUE}

Merged(table, i, l) == [table EXCEPT ![i].msg = l, ![i].thread = l]

NewRow(table, x, force) ==
    LET to == Match(table, x, force)
        bounce == x \in System /\ to.by # "thread"
    IN  Append(table, [msg |-> x, about |-> x, thread |-> Thread(x), case |-> to.case,
                       by |-> to.by, bounce |-> bounce, dismissed |-> bounce])

Take(table, x, force, oldest) ==
    LET known == {i \in DOMAIN table : table[i].msg = x}
        waiting == IF x \in Letters THEN Waiting(table, x) ELSE {}
    IN  CASE known # {} -> Again(table, CHOOSE i \in known : \A j \in known : i <= j, x, force)
          [] known = {} /\ waiting # {} ->
                Merged(table, CHOOSE i \in waiting :
                                 \A j \in waiting : IF oldest THEN i <= j ELSE j <= i, x)
          [] OTHER -> NewRow(table, x, force)

\* Mutant of Rematch: what a person dismissed is matched again (S188c).
RematchDismissed(table, i) ==
    LET to == Match(table, table[i].about, NoCase) IN
    IF table[i].case = NoCase /\ ~table[i].bounce /\ to.case # NoCase
    THEN [table EXCEPT ![i].case = to.case, ![i].by = to.by] ELSE table

\* _rematch_unlinked_emails: every row that hangs nowhere, bounces and
\* dismissed mail excepted, by thread, number and people.
Rematch(table, i) ==
    LET to == Match(table, table[i].about, NoCase) IN
    IF table[i].case = NoCase /\ ~table[i].bounce /\ ~table[i].dismissed /\ to.case # NoCase
    THEN [table EXCEPT ![i].case = to.case, ![i].by = to.by] ELSE table

\* What the provider returns: the newest messages, newest first; to a search
\* from the page of a case, where the provider can search and the case has
\* people, their mail in whatever order it finds relevant.
Returned(force) ==
    IF force # NoCase /\ Graph /\ Parties(force) # {}
    THEN LET found == {x \in Range(post) : Participant(x) \in Parties(force)}
         IN  {order \in SetToAllKPermutations(found) :
                 Len(order) = Min({Window, Cardinality(found)})}
    ELSE {Reverse(SubSeq(post, Max({1, Len(post) - Window + 1}), Len(post)))}

Synced(table, messages, force, oldest) ==
    LET taken == FoldLeft(LAMBDA t, x : Take(t, x, force, oldest), table, messages)
    IN  FoldLeft(Rematch, taken, [i \in DOMAIN taken |-> i])

-----------------------------------------------------------------------------
(* Handlers.  A request works on the rows it loaded and writes back the    *)
(* columns it changed; new rows come at the end.                           *)

Now == [op |-> "open", rows |-> rows]

FlushRows(loaded, changed) ==
    [i \in DOMAIN rows |->
        IF i \in DOMAIN loaded
        THEN [f \in DOMAIN rows[i] |-> IF changed[i][f] = loaded[i][f]
                                       THEN rows[i][f] ELSE changed[i][f]]
        ELSE rows[i]] \o SubSeq(changed, Len(loaded) + 1, Len(changed))

\* sync_emails_for_account, by the job or from the page of a case.
sync(seen, force) ==
    /\ UNCHANGED <<post, cases, decided>>
    /\ force # NoCase => cases[force].state # "none"
    /\ \E messages \in Returned(force), oldest \in FirstOrLast(seen.rows) :
          rows' = FlushRows(seen.rows, Synced(seen.rows, messages, force, oldest))
    /\ Len(rows') <= MaxRows

\* What a person decides of a row: where it hangs, and whether it counts.
Decide(seen, i, changed) ==
    /\ rows' = FlushRows(seen.rows, changed)
    /\ decided' = [decided EXCEPT ![i] = [case |-> changed[i].case, by |-> "person",
                                          dismissed |-> changed[i].dismissed]]
    /\ UNCHANGED <<post, cases>>

Sorted(seen, i) == i \in DOMAIN seen.rows /\ seen.rows[i].about \in ByHand

link_email_to_case(seen, i, c) ==
    /\ Sorted(seen, i)
    /\ cases[c].state # "none"
    /\ Decide(seen, i, [seen.rows EXCEPT ![i].case = c])

\* bulk_link_emails also takes back that the mail was dismissed.
bulk_link_emails(seen, i, c) ==
    /\ Sorted(seen, i)
    /\ cases[c].state # "none"
    /\ Decide(seen, i, [seen.rows EXCEPT ![i].case = c, ![i].dismissed = FALSE])

\* A bounce is dismissed already.
dismiss_emails(seen, i) ==
    /\ Sorted(seen, i) /\ ~seen.rows[i].bounce
    /\ Decide(seen, i, [seen.rows EXCEPT ![i].dismissed = TRUE])

\* write_outbound_log: the letter left, and a row says so, unless the request
\* fails after the provider took the letter.
send_letter(l, logged) ==
    /\ l \notin Range(post) /\ Live(About[l])
    /\ post' = Append(post, l)
    /\ rows' = IF logged
               THEN Append(rows, [msg |-> IF Graph THEN Synthetic ELSE l, about |-> l,
                                  thread |-> IF Graph THEN Synthetic ELSE l,
                                  case |-> About[l], by |-> "outbound_send",
                                  bounce |-> FALSE, dismissed |-> FALSE])
               ELSE rows
    /\ UNCHANGED <<cases, decided>>

\* Somebody writes; an answer follows the letter it answers.
receive(m) ==
    /\ m \notin Range(post) /\ (Answers[m] # m => Answers[m] \in Range(post))
    /\ post' = Append(post, m)
    /\ UNCHANGED <<rows, cases, decided>>

delete_case(c) ==
    /\ Live(c)
    /\ cases' = [cases EXCEPT ![c].state = "deleted"]
    /\ UNCHANGED <<post, rows, decided>>

mailVars == <<post, rows, cases, decided>>

MailHandler(seen) ==
    \/ \E c \in Cases \cup {NoCase} : sync(seen, c)
    \/ \E i \in DOMAIN seen.rows :
          \/ dismiss_emails(seen, i)
          \/ \E c \in Cases : link_email_to_case(seen, i, c) \/ bulk_link_emails(seen, i, c)

World ==
    \/ \E l \in Letters, logged \in BOOLEAN : send_letter(l, logged)
    \/ \E m \in Mails : receive(m)
    \/ \E c \in MayDelete : delete_case(c)

MailInit ==
    /\ post = <<>> /\ rows = <<>> /\ cases = FirstCases
    /\ decided = [i \in 1..MaxRows |-> Undecided]
    /\ req = [r \in Requests |-> Idle]
=============================================================================
