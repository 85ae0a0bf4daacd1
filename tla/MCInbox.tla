---------------------------------- MODULE MCInbox ----------------------------------
(* TLC instances of the mailbox and of the requests for a new case.               *)
EXTENDS Intake

CONSTANTS caseA, caseN, caseO, client, debtor, reply, order, noise, letterA, letterB

NewFile == [state |-> "none", client |-> NoContact, debtor |-> NoContact,
            party |-> NoContact, source |-> NoContact]
OldFile == [NewFile EXCEPT !.state = "open", !.client = client, !.debtor = debtor]

ThreeCases == {caseA, caseN, caseO}
OneFile == [c \in Cases |-> IF c = caseA THEN OldFile ELSE NewFile]
TwoFiles == [c \in Cases |-> IF c = caseO THEN NewFile ELSE OldFile]
TwoMails == {reply, order}
ThreeMails == {reply, order, noise}
OneLetter == {letterA}
TwoLetters == {letterA, letterB}
Writers == [m \in Mails |-> IF m = reply THEN debtor ELSE client]
OneStranger == [m \in Mails |-> IF m = noise THEN "stranger" ELSE client]
Strangers == [m \in Mails |-> "stranger"]
Replies == [m \in Mails |-> IF m = reply THEN letterA ELSE m]
NoNumbers == [m \in Mails |-> NoCase]
ToDebtor == [l \in Letters |-> debtor]
ToClient == [l \in Letters |-> client]
OwnCase == [l \in Letters |-> IF l = letterA THEN caseA ELSE caseN]
OwnPrefix == [l \in Letters |-> l]
SamePrefix == [l \in Letters |-> "prefix"]
NamesDebtor == [m \in Mails |-> debtor]
=============================================================================
