\* One request at a time, with crashes between a commit and the task engine.
SPECIFICATION Spec
CONSTANTS
    l1 = l1
    l2 = l2
    call = call
    quote = quote
    discussion = discussion
    opportunity = opportunity
    quoted = quoted
    nobody = nobody
    pic = pic
    desk = desk
    None = None
    Clerk = {c1}
    Lead <- TwoLeads
    Worked <- OneLead
    Task <- Calls
    Begins <- RaisedBy
    Ends <- CompletedBy
    Team <- Assigned
    Unassigned <- nobody
    Owner <- PeopleAndRoles
    Owners <- NextOwner
    Journey <- Stages
    Discussion <- discussion
    Opportunity <- opportunity
    Quoted <- quoted
    Strip <- StripStages
    Fallback <- opportunity
INVARIANTS LeadTypeOK SomebodySurvives NoWorkOnAClosedLead OneTaskPerOwner
PROPERTIES ReopensWhereItWas
