------------------------------- MODULE RfqChain -------------------------------
(***************************************************************************)
(* The chain of steps behind one RFQ (app/services/rfq_chain.py).  Each    *)
(* step is a row of the task table; the event that closes one opens the    *)
(* next.  A clock runs on each open step, stops while the RFQ is on hold,  *)
(* and gives its verdict when the step is closed; due dates follow the     *)
(* priority and the holds.  No key of the table keeps a step from being    *)
(* opened twice.                                                           *)
(*                                                                         *)
(* Left out: owners, rights, evidence and conditions, the customer's       *)
(* questions at the screening (the step just stays open), and what the     *)
(* caller saves besides.  Times are counted in units of a test's choosing. *)
(***************************************************************************)
EXTENDS Integers

CONSTANTS
    Clerk,          \* web workers
    Slot,           \* the table's ids for task rows, as many as are needed
    Step,           \* the numbers of the steps
    First,          \* the one a chain is started at, from outside
    Registration, Costing, Approval, Submission, Award,  \* closed by events
    Confirmed,      \* closed by a person's click
    Optional,       \* run only if ticked at the registration
    Last,
    Priority,
    Standard,       \* hours of a step at a priority; 0 where there is none
    HORIZON,        \* bound on the time a run looks at
    None

ASSUME ChainAssumption ==
    /\ Step \subseteq Nat
    /\ {First, Registration, Costing, Approval, Submission, Award, Last}
          \cup Confirmed \cup Optional \subseteq Step
    /\ Last \notin Optional /\ \A s \in Step : s <= Last
    /\ Standard \in [Step -> [Priority -> Nat]]
    /\ HORIZON \in Nat
    /\ Slot \subseteq Nat
    /\ None \notin Int

VARIABLES
    now,
    priority, wanted, heldAt,   \* the RFQ: its priority, the optional steps it
                                \* runs, since when it is on hold
    task,       \* the rows
    at, seen,   \* each worker's request, and what it loaded
    worked,     \* the time each step was open and the RFQ not on hold
    pace,       \* the priority each due date or verdict was reckoned by
    ticked      \* the rows closed with the Done button

rfq == <<priority, wanted, heldAt>>
requests == <<at, seen>>
ghosts == <<worked, pace, ticked>>
vars == <<now, rfq, task, requests, ghosts>>

Result == {"Early", "On time", "Delayed", None}

Row == [step : Step \cup {None}, status : {"free", "open", "closed"},
        started : Nat, paused : Nat, held : Nat \cup {None}, due : Nat,
        result : Result]

Free == [step |-> None, status |-> "free", started |-> 0, paused |-> 0,
         held |-> None, due |-> 0, result |-> None]

Nothing == [priority |-> None, wanted |-> {}, held |-> None,
            task |-> [i \in Slot |-> Free]]

Current == [priority |-> priority, wanted |-> wanted, held |-> heldAt,
            task |-> task]

\* A row of open_step(): not held, even while the RFQ is.
Fresh(s, p) == [step |-> s, status |-> "open", started |-> now, paused |-> 0,
                held |-> None, due |-> now + Standard[s][p], result |-> None]

Init ==
    /\ now = 0
    /\ priority \in Priority
    /\ wanted = {}
    /\ heldAt = None
    /\ \E i \in Slot :
          /\ \A j \in Slot : i <= j
          /\ task = [j \in Slot |-> IF j = i THEN Fresh(First, priority) ELSE Free]
    /\ at = [c \in Clerk |-> "idle"]
    /\ seen = [c \in Clerk |-> Nothing]
    /\ worked = [i \in Slot |-> 0]
    /\ pace = [i \in Slot |-> priority]
    /\ ticked = {}

-----------------------------------------------------------------------------
Load(c) ==
    /\ at[c] = "idle"
    /\ at' = [at EXCEPT ![c] = "loaded"]
    /\ seen' = [seen EXCEPT ![c] = Current]
    /\ UNCHANGED <<now, rfq, task, ghosts>>

\* Its request is answered.
Done(c) ==
    /\ at[c] = "loaded"
    /\ at' = [at EXCEPT ![c] = "idle"]
    /\ seen' = [seen EXCEPT ![c] = Nothing]
    /\ UNCHANGED now

\* Refused and rolled back, or an event the chain is not waiting for.
Refused(c) == Done(c) /\ UNCHANGED <<rfq, task, ghosts>>

Tick ==
    /\ now < HORIZON
    /\ now' = now + 1
    /\ worked' = [i \in Slot |->
          worked[i] + (IF task[i].status = "open" /\ heldAt = None THEN 1 ELSE 0)]
    /\ UNCHANGED <<rfq, task, requests, pace, ticked>>

Listed(t) == {t[i].step : i \in Slot} \ {None}

\* steps_for(): one row for each step that has one, whichever comes last.
StepsFor(t) ==
    {rows \in SUBSET {i \in Slot : t[i].step # None} :
        \A s \in Listed(t) : \E i \in rows :
            /\ t[i].step = s
            /\ \A j \in rows : t[j].step = s => j = i}

IsNextId(j) ==
    /\ task[j].status = "free"
    /\ \A k \in Slot : task[k].status = "free" => j <= k

Flush(column, new, old) == column' = IF new = old THEN column ELSE new

-----------------------------------------------------------------------------
(* Closing a step *)

\* elapsed_hours() that forgets the holds.
ElapsedHeldOrNot(r) == now - r.started

\* elapsed_hours()
Elapsed(r) == IF now - r.started > r.paused THEN now - r.started - r.paused ELSE 0

\* result_for(), without the standard time's own exceptions.
Verdict(standard, spent) ==
    IF standard = 0 THEN None
    ELSE IF spent > standard THEN "Delayed"
    ELSE IF 2 * spent <= standard THEN "Early" ELSE "On time"

\* "bare" is the reason "Others" without a remark.
Reason == {"none", "given", "bare"}

\* close_step() that does not look whether the step is closed already.
CloseableAgain(r, result, reason) ==
    /\ r.status # "free"
    /\ r.held = None
    /\ reason # "bare"
    /\ result \in {"Delayed", "Early"} => reason = "given"

\* What close_step() does not refuse.
Closeable(r, result, reason) ==
    /\ r.status = "open"
    /\ r.held = None
    /\ reason # "bare"
    /\ result \in {"Delayed", "Early"} => reason = "given"

\* applicable()
Applicable(w) == {s \in Step : s \in Optional => s \in w}

\* next_step()
Follows(n, s, w) ==
    /\ n \in Applicable(w) /\ n > s
    /\ \A m \in Applicable(w) : m > s => n <= m

\* The steps that closing step s makes open_step() add.
ToOpen(c, s, w) == {n \in Step : Follows(n, s, w) /\ n \notin Listed(seen[c].task)}

\* close_step(), on an RFQ of priority p that runs the optional steps w.
CloseStep(c, s, p, w, reason) ==
    \E i \in Slot :
      /\ seen[c].task[i].step = s
      /\ LET result == Verdict(Standard[s][p], Elapsed(seen[c].task[i]))
             closed == [task EXCEPT ![i].status = "closed", ![i].result = result]
         IN  /\ Closeable(seen[c].task[i], result, reason)
             /\ \/ /\ ToOpen(c, s, w) = {}
                   /\ task' = closed
                   /\ pace' = [pace EXCEPT ![i] = p]
                \/ \E n \in ToOpen(c, s, w), j \in Slot :
                      /\ IsNextId(j)
                      /\ task' = [closed EXCEPT ![j] = Fresh(n, p)]
                      /\ pace' = [pace EXCEPT ![i] = p, ![j] = p]
      /\ UNCHANGED <<worked, ticked>>

CloseStepIsRefused(c, s, p, reason) ==
    /\ \/ s \notin Listed(seen[c].task)
       \/ \E i \in Slot :
            LET r == seen[c].task[i]
            IN  /\ r.step = s
                /\ ~Closeable(r, Verdict(Standard[s][p], Elapsed(r)), reason)
    /\ UNCHANGED <<task, ghosts>>

\* api_register(): what was typed stands, whether step 2 is closed or not; the
\* due dates of other open steps stay.
Register(c, p, w, reason) ==
    /\ Done(c)
    /\ Flush(priority, p, seen[c].priority)
    /\ Flush(wanted, w, seen[c].wanted)
    /\ UNCHANGED heldAt
    /\ \/ CloseStep(c, Registration, p, w, reason)
       \/ CloseStepIsRefused(c, Registration, p, reason)

\* A step closed by a click or an event that leaves the RFQ itself alone.
Closes(c, s, reason) ==
    /\ Done(c)
    /\ CloseStep(c, s, seen[c].priority, seen[c].wanted, reason)
    /\ UNCHANGED rfq

\* api_screening(), api_confirm()
Confirm(c, s, reason) == s \in Confirmed /\ Closes(c, s, reason)

\* cost_sheet.save(); its remarks are the reason.
CostSheetSaved(c, reason) == Closes(c, Costing, reason)

\* cost_sheet.on_approved() gives no reason: an approval in time to be early, or
\* late, leaves its step open.
QuoteApproved(c) == Closes(c, Approval, "none")

\* on_quote_sent(), neither from the CRM nor from the mailbox with a reason.
QuoteSent(c) == Closes(c, Submission, "none")

\* on_po_recorded()
PoRecorded(c) == Closes(c, Award, "none")

\* api_task_done(): any open task of anybody's, a step of the chain too,
\* whatever its event and held or not; no result, and no next step.
TaskDone(c, i) ==
    /\ Done(c)
    /\ seen[c].task[i].status = "open"
    /\ task' = [task EXCEPT ![i].status = "closed"]
    /\ ticked' = ticked \cup {i}
    /\ UNCHANGED <<rfq, worked, pace>>

-----------------------------------------------------------------------------
(* Holds and priorities *)

OpenRows(c, rows) ==
    {i \in rows : seen[c].task[i].status = "open"}

\* hold()
Hold(c) ==
    /\ Done(c)
    /\ seen[c].held = None
    /\ heldAt' = now
    /\ \E rows \in StepsFor(seen[c].task) :
          task' = [i \in Slot |-> IF i \in OpenRows(c, rows)
                                  THEN [task[i] EXCEPT !.held = now]
                                  ELSE task[i]]
    /\ UNCHANGED <<priority, wanted, ghosts>>

\* The two times of a hold mixed up.
HeldForBackwards(since) == since - now

HeldFor(since) == now - since

\* reactivate(): only rows that are held get their time back.
Reactivate(c) ==
    /\ Done(c)
    /\ seen[c].held # None
    /\ heldAt' = None
    /\ \E rows \in StepsFor(seen[c].task) :
          task' = [i \in Slot |->
              LET r == seen[c].task[i] IN
              IF i \in OpenRows(c, rows) /\ r.held # None
              THEN [task[i] EXCEPT !.paused = r.paused + HeldFor(r.held),
                                   !.held = None,
                                   !.due = r.due + HeldFor(seen[c].held)]
              ELSE task[i]]
    /\ UNCHANGED <<priority, wanted, ghosts>>

\* set_priority(): the due dates of the open steps that have a standard time.
SetPriority(c, p) ==
    /\ Done(c)
    /\ p # seen[c].priority
    /\ priority' = p
    /\ \E rows \in StepsFor(seen[c].task) :
          LET moved == {i \in OpenRows(c, rows) :
                          Standard[seen[c].task[i].step][p] > 0}
          IN  /\ task' = [i \in Slot |->
                    IF i \in moved
                    THEN [task[i] EXCEPT !.due =
                            seen[c].task[i].started
                            + Standard[seen[c].task[i].step][p]
                            + seen[c].task[i].paused]
                    ELSE task[i]]
              /\ pace' = [i \in Slot |-> IF i \in moved THEN p ELSE pace[i]]
    /\ UNCHANGED <<wanted, heldAt, worked, ticked>>

-----------------------------------------------------------------------------
Request(c) ==
    \/ Load(c)
    \/ Refused(c)
    \/ \E p \in Priority, w \in SUBSET Optional, reason \in Reason :
          Register(c, p, w, reason)
    \/ \E s \in Step, reason \in Reason : Confirm(c, s, reason)
    \/ \E reason \in Reason : CostSheetSaved(c, reason)
    \/ QuoteApproved(c) \/ QuoteSent(c) \/ PoRecorded(c)
    \/ \E i \in Slot : TaskDone(c, i)
    \/ Hold(c) \/ Reactivate(c)
    \/ \E p \in Priority : SetPriority(c, p)

Next == Tick \/ \E c \in Clerk : Request(c)

Spec == Init /\ [][Next]_vars

\* Nothing in the code keeps two requests from the same RFQ.  This says that
\* they keep apart all the same, as with a lock on it, or one worker.
RequestsApart ==
    \A c, d \in Clerk : at[c] = "loaded" /\ at[d] = "loaded" => c = d

ApartSpec == Init /\ [][Next /\ RequestsApart']_vars

-----------------------------------------------------------------------------
RfqTypeOK ==
    /\ now \in Nat
    /\ priority \in Priority
    /\ wanted \in SUBSET Optional
    /\ heldAt \in Nat \cup {None}
    /\ task \in [Slot -> Row]
    /\ at \in [Clerk -> {"idle", "loaded"}]
    /\ seen \in [Clerk -> [priority : Priority \cup {None},
                           wanted : SUBSET Optional,
                           held : Nat \cup {None}, task : [Slot -> Row]]]
    /\ \A c \in Clerk : at[c] = "loaded" => seen[c].priority \in Priority
    /\ worked \in [Slot -> Nat]
    /\ pace \in [Slot -> Priority]
    /\ ticked \in SUBSET Slot

Live == {i \in Slot : task[i].status = "open"}

\* The chain neither forks nor stalls: never are two of its steps open, however
\* the optional ones are ticked and unticked meanwhile, and one is until the
\* last is closed - unless somebody used the Done button on one.
OneLiveStep ==
    /\ \A i, j \in Live : i = j
    /\ Live = {} => \/ ticked # {}
                    \/ \E i \in Slot : /\ task[i].step = Last
                                       /\ task[i].status = "closed"

\* "That time is not counted against anybody": whatever holds, reactivations
\* and changes of priority went before, a running step is overdue when the time
\* the RFQ was not on hold exceeds its standard, and a closed one is judged by
\* that time.
HoldsCostNobody ==
    \A i \in Slot :
      LET standard == Standard[task[i].step][pace[i]] IN
      /\ i \in Live /\ heldAt = None /\ standard > 0
            => (now > task[i].due <=> worked[i] > standard)
      /\ task[i].status = "closed" /\ i \notin ticked
            => task[i].result = Verdict(standard, worked[i])
=============================================================================
