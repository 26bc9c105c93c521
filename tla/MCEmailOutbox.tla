---------------------------- MODULE MCEmailOutbox ----------------------------
(* Instances of EmailOutbox for TLC: one or two passes over up to two       *)
(* mails, alone or in a batch.                                              *)
EXTENDS EmailOutbox, TLC

CONSTANTS w1, w2, m1, m2

OnePass == {w1}
TwoPasses == {w1, w2}
NoRenewers == {}
OneMail == {m1}
TwoMails == {m1, m2}
Alone == [e \in Mail |-> e]
Together == [e \in Mail |-> m1]
BackoffTicks == [n \in 1..MAX |-> n]
ShortBackoff == [n \in 1..MAX |-> 1]

\* Passes are interchangeable, and so are mails (safety runs only).
Symmetric == Permutations(TwoPasses) \cup Permutations(Mail)
=============================================================================
