------------------------------ MODULE OwedMail ------------------------------
(***************************************************************************)
(* What the email outbox promises (app/services/outbox.py, docstrings): a  *)
(* mail that was written down stays owed until the mail server has it or a *)
(* person is asked to look; sent is sent for good; and one that a person   *)
(* stopped does not go out any more.  Mails that travel as one message     *)
(* leave together.                                                         *)
(***************************************************************************)
CONSTANT Mail

VARIABLES
    debt,   \* what the CRM knows of each mail
    left    \* mails of which the mail server has accepted a copy

mailVars == <<debt, left>>

MailDebt == {"none", "owed", "settled", "givenup", "withdrawn"}

MailInit ==
    /\ debt = [e \in Mail |-> "none"]
    /\ left = {}

AllOwed(S) == S \subseteq Mail /\ \A e \in S : debt[e] = "owed"

Becomes(S, d) == debt' = [e \in Mail |-> IF e \in S THEN d ELSE debt[e]]

Owe(e) ==
    /\ debt[e] = "none"
    /\ Becomes({e}, "owed")
    /\ UNCHANGED left

\* A message leaves.  A fault may make it leave again while it is owed; when it
\* is settled or withdrawn, never.
Leave(S) ==
    /\ AllOwed(S)
    /\ left' = left \cup S
    /\ UNCHANGED debt

\* Only what has left is settled.
SettleMail(S) ==
    /\ AllOwed(S) /\ S \subseteq left
    /\ Becomes(S, "settled")
    /\ UNCHANGED left

GiveUp(S) ==
    /\ AllOwed(S)
    /\ Becomes(S, "givenup")
    /\ UNCHANGED left

\* A person stops a mail, or puts one back that was given up.
Withdraw(e) ==
    /\ debt[e] \in {"owed", "givenup"}
    /\ Becomes({e}, "withdrawn")
    /\ UNCHANGED left

PutBack(e) ==
    /\ debt[e] = "givenup"
    /\ Becomes({e}, "owed")
    /\ UNCHANGED left

MailNext ==
    \/ \E S \in SUBSET Mail : Leave(S) \/ SettleMail(S) \/ GiveUp(S)
    \/ \E e \in Mail : Owe(e) \/ Withdraw(e) \/ PutBack(e)

MailSpec == MailInit /\ [][MailNext]_mailVars
=============================================================================
