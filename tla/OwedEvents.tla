----------------------------- MODULE OwedEvents -----------------------------
(***************************************************************************)
(* What the webhook queue promises (app/services/webhooks.py, docstring):  *)
(* an event the TMS is owed stays owed until the TMS has it or a person is *)
(* asked to look; an event that is settled is settled for good.            *)
(***************************************************************************)
CONSTANT Event

VARIABLES
    debt,   \* what the CRM knows of each event
    tms     \* events the TMS has processed

owedVars == <<debt, tms>>

Debt == {"none", "owed", "settled", "givenup"}

OwedInit ==
    /\ debt = [e \in Event |-> "none"]
    /\ tms = {}

Owe(e) ==
    /\ debt[e] = "none"
    /\ debt' = [debt EXCEPT ![e] = "owed"]
    /\ UNCHANGED tms

\* The TMS takes an event in.  It may take it again: it deduplicates.
Process(e) ==
    /\ debt[e] = "owed"
    /\ tms' = tms \cup {e}
    /\ UNCHANGED debt

\* Only what the TMS has is settled.
SettleDebt(e) ==
    /\ debt[e] = "owed"
    /\ e \in tms
    /\ debt' = [debt EXCEPT ![e] = "settled"]
    /\ UNCHANGED tms

GiveUp(e) ==
    /\ debt[e] = "owed"
    /\ debt' = [debt EXCEPT ![e] = "givenup"]
    /\ UNCHANGED tms

\* A person puts a dead event back.
PutBack(e) ==
    /\ debt[e] = "givenup"
    /\ debt' = [debt EXCEPT ![e] = "owed"]
    /\ UNCHANGED tms

OwedNext ==
    \E e \in Event : \/ Owe(e) \/ Process(e) \/ SettleDebt(e) \/ GiveUp(e)
                     \/ PutBack(e)

OwedSpec == OwedInit /\ [][OwedNext]_owedVars
=============================================================================
