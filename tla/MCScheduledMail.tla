---------------------------- MODULE MCScheduledMail ----------------------------
(* TLC instances of the mail queue.                                            *)
EXTENDS ScheduledMail

CONSTANTS m1, m2, d1, p1, p2

TwoMails == {m1, m2}
OneMail == {m1}
OtherMail == {m2}
OneDraft == {d1}
NoDrafts == {}
TwoDispatchers == {p1, p2}
OneSubject == [m \in Mails |-> "subject"]
OwnSubjects == [m \in Mails |-> m]
OneDispatcher == {p1}
=============================================================================
