------------------------------- MODULE MCLead -------------------------------
(* An instance of LeadLifecycle for TLC: one worker, a lead that goes       *)
(* through every screen and one that only takes part in merges.             *)
EXTENDS LeadLifecycle

CONSTANTS l1, l2, call, quote, discussion, opportunity, quoted, nobody, pic, desk

TwoLeads == {l1, l2}
OneLead == {l1}
Calls == {call, quote}
RaisedBy == [k \in Calls |-> IF k = call THEN "created" ELSE opportunity]
CompletedBy == [k \in Calls |-> IF k = call THEN discussion ELSE quoted]
\* The call is for the lead's owner, if it has one; the quotation for the member
\* of the desk the lead has, and for the desk while it has none.
Assigned == {nobody, pic}
PeopleAndRoles == {pic, desk}
NextOwner ==
    [k \in Calls |-> [t \in Assigned |->
        IF t = pic THEN {pic} ELSE IF k = quote THEN {desk} ELSE {}]]
Stages == <<discussion, opportunity, quoted>>
StripStages == {discussion, quoted}
=============================================================================
