---------------------------- MODULE LeadLifecycle ----------------------------
(***************************************************************************)
(* A lead's stage, and what follows it: the stage history, the open tasks, *)
(* the archive, the bin of junk, the merging of duplicates.  Some twenty   *)
(* screens, jobs and mails write the stage; each decides for itself        *)
(* whether it writes a history row, and whether it closes the tasks, in    *)
(* its own transaction or in a second one after its commit.                *)
(*                                                                         *)
(* Left out: the gates that only refuse (value, account, minimum entry,    *)
(* rights: Abort), the lead's other fields.  A form that changes the stage *)
(* and the owner is Reassign, then the stage.                              *)
(***************************************************************************)
EXTENDS Naturals, Sequences

CONSTANTS
    Clerk,       \* web workers and the mail job
    Lead,
    Worked,      \* leads that have requests of their own; the code's is all of
                 \* Lead, an instance may keep some, made at Fallback, for
                 \* merging only
    Task,        \* task definitions of leads that are active
    Begins,      \* the stage that raises each, or "created"
    Ends,        \* the stage that completes it
    Team,        \* who may be assigned to a lead
    Unassigned,  \* ... before anybody is
    Owner,       \* owners of tasks: people, and roles that share a pool
    Owners,      \* next_owner_rule: whom each definition raises its task for,
                 \* by who is assigned to the lead
    Journey,     \* the open stages in order, without Won
    Discussion, Opportunity, Quoted,   \* stages the code names
    Strip,       \* the open stages of the strip
    Fallback,    \* where a lead without history is reopened
    None

Open == {Journey[i] : i \in DOMAIN Journey}
Over == {"Won", "Lost", "On Hold", "Not Interested"}
Stage == Open \cup Over

\* A definition and an owner: what may be open once.
Duty == Task \X Owner

ASSUME LeadAssumption ==
    /\ None \notin Lead \cup Stage
    /\ Worked \subseteq Lead
    /\ {Discussion, Opportunity, Quoted, Fallback} \cup Strip \subseteq Open
    /\ Open \cap (Over \cup {"absent", "created"}) = {}
    /\ Begins \in [Task -> Open \cup {"created"}]
    /\ Ends \in [Task -> Open]
    /\ Unassigned \in Team
    /\ Owners \in [Task -> [Team -> SUBSET Owner]]

VARIABLES
    stage,      \* "absent" before the lead is made
    frozen,     \* lost_reason says that the client is blocked
    archived, junk,
    merged,     \* merged_into_id, or None
    team,       \* who is assigned to the lead
    mark,       \* the newest open stage its history names, or None
    tasks,      \* how many open tasks each owner has of each definition
    step, row, other, seen,   \* each worker's request: where it is, its lead,
                              \* the lead to merge into, the row it loaded
    held,       \* the last open stage the lead was really in
    told,       \* the history says how it left that stage
    swept       \* a route that closes its tasks has run since it left play

columns == <<stage, frozen, archived, junk, merged, team>>
requests == <<step, row, other, seen>>
history == <<held, told, swept>>
vars == <<columns, mark, tasks, requests, history>>

Row == [stage : Stage \cup {"absent"}, frozen : BOOLEAN, archived : BOOLEAN,
        junk : BOOLEAN, merged : Lead \cup {None}, team : Team,
        tasks : [Duty -> Nat]]

Stored(l) == [stage |-> stage[l], frozen |-> frozen[l],
              archived |-> archived[l], junk |-> junk[l],
              merged |-> merged[l], team |-> team[l], tasks |-> tasks[l]]

NoTasks == [d \in Duty |-> 0]

Blank == [stage |-> "absent", frozen |-> FALSE, archived |-> FALSE,
          junk |-> FALSE, merged |-> None, team |-> Unassigned,
          tasks |-> NoTasks]

Place(s) == CHOOSE i \in DOMAIN Journey : Journey[i] = s

Init ==
    /\ stage = [l \in Lead |-> "absent"]
    /\ frozen = [l \in Lead |-> FALSE]
    /\ archived = [l \in Lead |-> FALSE]
    /\ junk = [l \in Lead |-> FALSE]
    /\ merged = [l \in Lead |-> None]
    /\ team = [l \in Lead |-> Unassigned]
    /\ mark = [l \in Lead |-> None]
    /\ tasks = [l \in Lead |-> NoTasks]
    /\ step = [c \in Clerk |-> "idle"]
    /\ row = [c \in Clerk |-> None]
    /\ other = [c \in Clerk |-> None]
    /\ seen = [c \in Clerk |-> Blank]
    /\ held = [l \in Lead |-> None]
    /\ told = [l \in Lead |-> FALSE]
    /\ swept = [l \in Lead |-> FALSE]

-----------------------------------------------------------------------------
(* A request: the row is loaded, its handler decides by what it loaded, and *)
(* the commit writes the columns it changed.                                *)

Loads(c, l, k, next) ==
    /\ step[c] = "idle"
    /\ stage[l] # "absent"
    /\ step' = [step EXCEPT ![c] = next]
    /\ row' = [row EXCEPT ![c] = l]
    /\ other' = [other EXCEPT ![c] = k]
    /\ seen' = [seen EXCEPT ![c] = Stored(l)]
    /\ UNCHANGED <<columns, mark, tasks, history>>

Load(c, l) == l \in Worked /\ Loads(c, l, None, "loaded")

\* A mail whose conversation, references or subject lead to the lead,
\* whatever became of it.
LoadForMail(c, l) == l \in Worked /\ Loads(c, l, None, "mail")

\* blockers() that does not ask what became of the other lead.
LoadForMergeAnywhere(c, l, k) ==
    /\ l # k
    /\ merged[l] = None
    /\ stage[k] # "absent"
    /\ stage[l] # "Won"
    /\ Loads(c, l, k, "merging")

\* blockers(): not the same lead, neither of them merged, and none that is won.
LoadForMerge(c, l, k) ==
    /\ l # k
    /\ merged[l] = None /\ merged[k] = None
    /\ stage[k] # "absent"
    /\ stage[l] # "Won"
    /\ Loads(c, l, k, "merging")

Done(c) ==
    /\ step' = [step EXCEPT ![c] = "idle"]
    /\ row' = [row EXCEPT ![c] = None]
    /\ other' = [other EXCEPT ![c] = None]
    /\ seen' = [seen EXCEPT ![c] = Blank]

\* The commit is done, the task engine is called next.
ThenHook(c, next) ==
    /\ step' = [step EXCEPT ![c] = next]
    /\ seen' = [seen EXCEPT ![c] = Blank]
    /\ UNCHANGED <<row, other>>

\* Refused, failed or killed: also between the commit and the task engine,
\* whose errors nobody sees.
Abort(c) ==
    /\ step[c] # "idle"
    /\ Done(c)
    /\ UNCHANGED <<columns, mark, tasks, history>>

Flush(column, l, new, old) ==
    column' = IF new = old THEN column ELSE [column EXCEPT ![l] = new]

\* The oldest row that names an open stage.
MarkedFirst(from, to, before) ==
    IF before # None THEN before
    ELSE IF from \in Open THEN from ELSE IF to \in Open THEN to ELSE before

\* What last_open_stage() reads in a row of the history: the stage it came
\* from before the stage it went to.
Marked(from, to, before) ==
    IF from \in Open THEN from ELSE IF to \in Open THEN to ELSE before

Enters(l, s) ==
    /\ held' = IF s \in Open THEN [held EXCEPT ![l] = s] ELSE held
    /\ stage' = [stage EXCEPT ![l] = s]

\* Worker c writes stage s without a word in the history.
Sets(c, s) ==
    LET l == row[c]
        t == IF s = seen[c].stage THEN stage[l] ELSE s
    IN  /\ Enters(l, t)
        /\ told' = [told EXCEPT ![l] = @ /\ t \notin Open /\ stage[l] \notin Open]
        /\ mark' = mark

\* Worker c writes stage s and a history row.
Logs(c, s) ==
    LET l == row[c]
        t == IF s = seen[c].stage THEN stage[l] ELSE s
    IN  /\ Enters(l, t)
        /\ told' = [told EXCEPT
               ![l] = t \notin Open /\ (@ \/ stage[l] \in Open)]
        /\ mark' = [mark EXCEPT ![l] = Marked(seen[c].stage, s, @)]

\* The open tasks are left as they are.
KeepsTasks(c) ==
    /\ swept' = [swept EXCEPT ![row[c]] = @ /\ stage'[row[c]] \notin Open]
    /\ UNCHANGED tasks

\* TERMINAL_STAGES with one of them forgotten.
IsTerminalButHeld(s) == s \in Over \ {"On Hold"}

\* task_autoclose.is_terminal()
IsTerminal(s) == s \in Over

\* close_for_lead() in the same transaction.
SweepsTasks(c) ==
    /\ tasks' = [tasks EXCEPT ![row[c]] = NoTasks]
    /\ swept' = [swept EXCEPT ![row[c]] = TRUE]

Reason(c, blocked) == Flush(frozen, row[c], blocked, seen[c].frozen)

-----------------------------------------------------------------------------
(* The screens of a lead (app.py): stage, then the task engine. *)

Create(c, l, s) ==
    /\ step[c] = "idle"
    /\ stage[l] = "absent"
    /\ Enters(l, s)
    /\ step' = [step EXCEPT ![c] = "created"]
    /\ row' = [row EXCEPT ![c] = l]
    /\ UNCHANGED <<frozen, archived, junk, merged, team, mark, tasks, other,
                   seen, told, swept>>

\* PUT /api/leads/<id>: any stage, unless the client is blocked; the task
\* engine only if the stage changed.
SaveForm(c, s) ==
    /\ step[c] = "loaded"
    /\ ~seen[c].frozen
    /\ Sets(c, s)
    /\ KeepsTasks(c)
    /\ IF s # seen[c].stage THEN ThenHook(c, "changed") ELSE Done(c)
    /\ UNCHANGED <<frozen, archived, junk, merged, team>>

\* POST .../advance: any stage of the list.
Advance(c, s) ==
    /\ step[c] = "loaded"
    /\ Logs(c, s)
    /\ KeepsTasks(c)
    /\ ThenHook(c, "changed")
    /\ UNCHANGED <<frozen, archived, junk, merged, team>>

\* POST .../decision
Decide(c, s) ==
    /\ step[c] = "loaded"
    /\ s \in Over \ {"Not Interested"}
    /\ Logs(c, s)
    /\ KeepsTasks(c)
    /\ Reason(c, seen[c].frozen /\ s # "Lost")
    /\ ThenHook(c, "changed")
    /\ UNCHANGED <<archived, junk, merged, team>>

\* POST .../close-lost, and .../duplicate-of, which only names another lead.
CloseLost(c) ==
    /\ step[c] = "loaded"
    /\ Sets(c, "Lost")
    /\ SweepsTasks(c)
    /\ Reason(c, FALSE)
    /\ Done(c)
    /\ UNCHANGED <<archived, junk, merged, team>>

-----------------------------------------------------------------------------
(* The task engine, in a second transaction: on_state_change(), then       *)
(* close_for_lead().  It reads the lead and its open tasks, then writes.   *)

Look(c) ==
    /\ step[c] \in {"created", "changed"}
    /\ step' = [step EXCEPT ![c] = IF @ = "created" THEN "fresh" ELSE "looked"]
    /\ seen' = [seen EXCEPT ![c] = Stored(row[c])]
    /\ UNCHANGED <<columns, mark, tasks, row, other, history>>

Event(c) == IF step[c] = "fresh" THEN "created" ELSE seen[c].stage

\* The duties a state raises: of each definition, for whom the rule names.
Due(c) == {d \in Duty : /\ Begins[d[1]] = Event(c)
                        /\ d[2] \in Owners[d[1]][seen[c].team]}

\* _upsert_task_instance() that does not look for an open one.
RaisedAgain(c) == Due(c)

\* Whoever owns them.
Completed(c) == {d \in Duty : Ends[d[1]] = Event(c)}

\* The tasks _upsert_task_instance() adds: this owner has none still open.
Raised(c) == {d \in Due(c) : seen[c].tasks[d] = 0 \/ d \in Completed(c)}

Less(m, n) == IF m > n THEN m - n ELSE 0

RunHook(c) ==
    LET l == row[c] IN
    /\ step[c] \in {"fresh", "looked"}
    /\ tasks' = [tasks EXCEPT ![l] =
           IF IsTerminal(seen[c].stage)
           THEN NoTasks
           ELSE [d \in Duty |->
                   (IF d \in Completed(c) THEN Less(@[d], seen[c].tasks[d])
                                          ELSE @[d])
                   + (IF d \in Raised(c) THEN 1 ELSE 0)]]
    /\ swept' = [swept EXCEPT
           ![l] = IF seen[c].stage \in Over THEN stage[l] \notin Open ELSE @]
    /\ Done(c)
    /\ UNCHANGED <<columns, mark, held, told>>

\* api_task_done(): a person ticks off an open task.
TaskDone(c, l, d) ==
    /\ step[c] = "idle"
    /\ tasks[l][d] > 0
    /\ tasks' = [tasks EXCEPT ![l][d] = @ - 1]
    /\ UNCHANGED <<columns, mark, requests, history>>

\* assign(), and whatever else changes who is responsible for the lead: open
\* tasks stay with whom they were raised for.
Reassign(c, l, t) ==
    /\ step[c] = "idle"
    /\ team' = [team EXCEPT ![l] = t]
    /\ UNCHANGED <<stage, frozen, archived, junk, merged, mark, tasks, requests,
                   history>>

-----------------------------------------------------------------------------
(* Other doors to the stage; none of them calls the task engine. *)

\* Bulk administration: any stage.
BulkSet(c, s) ==
    /\ step[c] = "loaded"
    /\ Sets(c, s)
    /\ KeepsTasks(c)
    /\ Done(c)
    /\ UNCHANGED <<frozen, archived, junk, merged, team>>

\* Bulk administration's "delete" closes the leads.
BulkClose(c) ==
    /\ step[c] = "loaded"
    /\ Sets(c, "Lost")
    /\ SweepsTasks(c)
    /\ Reason(c, FALSE)
    /\ Done(c)
    /\ UNCHANGED <<archived, junk, merged, team>>

\* The workbench's bulk action: not to a retired stage.
WorkbenchSet(c, s) ==
    /\ step[c] = "loaded"
    /\ s \notin {seen[c].stage, "Not Interested"}
    /\ Sets(c, s)
    /\ KeepsTasks(c)
    /\ Done(c)
    /\ UNCHANGED <<frozen, archived, junk, merged, team>>

\* The strip on the lead's page.
Move(c, s) ==
    /\ step[c] = "loaded"
    /\ s \in Strip \cup {"Won"}
    /\ Logs(c, s)
    /\ KeepsTasks(c)
    /\ Done(c)
    /\ UNCHANGED <<frozen, archived, junk, merged, team>>

\* The assistant, confirmed by a person.
CopilotMove(c, s) ==
    /\ step[c] = "loaded"
    /\ s # seen[c].stage
    /\ Logs(c, s)
    /\ KeepsTasks(c)
    /\ Done(c)
    /\ UNCHANGED <<frozen, archived, junk, merged, team>>

\* A purchase order is recorded.
PurchaseOrder(c) ==
    /\ step[c] = "loaded"
    /\ Sets(c, "Won")
    /\ KeepsTasks(c)
    /\ Done(c)
    /\ UNCHANGED <<frozen, archived, junk, merged, team>>

\* The capability check is answered "No".
CapabilityNo(c) ==
    /\ step[c] = "loaded"
    /\ Sets(c, "Lost")
    /\ KeepsTasks(c)
    /\ Reason(c, FALSE)
    /\ Done(c)
    /\ UNCHANGED <<archived, junk, merged, team>>

\* A call is logged whose outcome names a stage.
CallLogged(c) ==
    /\ step[c] = "loaded"
    /\ Sets(c, Discussion)
    /\ KeepsTasks(c)
    /\ Done(c)
    /\ UNCHANGED <<frozen, archived, junk, merged, team>>

\* _forward_only(): a quotation leaves from the CRM.
QuoteSent(c) ==
    /\ step[c] = "loaded"
    /\ seen[c].stage \in Open
    /\ Place(seen[c].stage) < Place(Quoted)
    /\ Sets(c, Quoted)
    /\ KeepsTasks(c)
    /\ Done(c)
    /\ UNCHANGED <<frozen, archived, junk, merged, team>>

\* close_open_business(): the client is blocked.
Block(c) ==
    /\ step[c] = "loaded"
    /\ seen[c].stage \in Open
    /\ Sets(c, "Not Interested")
    /\ KeepsTasks(c)
    /\ Reason(c, TRUE)
    /\ Done(c)
    /\ UNCHANGED <<archived, junk, merged, team>>

-----------------------------------------------------------------------------
(* Mails *)

\* A quotation of ours passes through the mailbox.
QuotedByMail(c) ==
    /\ step[c] = "mail"
    /\ seen[c].stage \notin {Quoted, "Won", "Lost", "Not Interested"}
    /\ Sets(c, Quoted)
    /\ KeepsTasks(c)
    /\ Done(c)
    /\ UNCHANGED <<frozen, archived, junk, merged, team>>

\* The configured stage forgotten.
BackToMark(l) == mark[l]

\* last_open_stage(), or the configured stage.
BackTo(l) == IF mark[l] # None THEN mark[l] ELSE Fallback

\* reopen_for(); a mail that is a quotation of ours besides goes on to Quoted
\* in the same commit.
MailReopens(c, quotation) ==
    LET l == row[c]
        s == BackTo(l)
        t == IF quotation THEN Quoted ELSE s
    IN  /\ step[c] = "mail"
        /\ seen[c].stage \in Over
        /\ Enters(l, t)
        /\ told' = [told EXCEPT ![l] = FALSE]
        /\ mark' = [mark EXCEPT ![l] = Marked(seen[c].stage, s, @)]
        /\ KeepsTasks(c)
        /\ Reason(c, FALSE)
        /\ Done(c)
        /\ UNCHANGED <<archived, junk, merged, team>>

-----------------------------------------------------------------------------
(* Archive, bin, duplicates *)

\* Bulk administration and the workbench.
Archive(c) ==
    /\ step[c] = "loaded"
    /\ ~seen[c].archived
    /\ archived' = [archived EXCEPT ![row[c]] = TRUE]
    /\ Done(c)
    /\ UNCHANGED <<stage, frozen, junk, merged, team, mark, tasks, history>>

Unarchive(c) ==
    /\ step[c] = "loaded"
    /\ seen[c].archived
    /\ archived' = [archived EXCEPT ![row[c]] = FALSE]
    /\ Done(c)
    /\ UNCHANGED <<stage, frozen, junk, merged, team, mark, tasks, history>>

\* mark_not_relevant(): _close_open_work() looks for tasks of a 'lead', and
\* those of leads say 'Lead': it closes none.
Bin(c) ==
    /\ step[c] = "loaded"
    /\ ~seen[c].junk /\ ~seen[c].archived
    /\ seen[c].stage \in Open
    /\ Place(seen[c].stage) <= Place(Opportunity)
    /\ junk' = [junk EXCEPT ![row[c]] = TRUE]
    /\ archived' = [archived EXCEPT ![row[c]] = TRUE]
    /\ Done(c)
    /\ UNCHANGED <<stage, frozen, merged, team, mark, tasks, history>>

\* restore(): always to the same stage.
Restore(c) ==
    /\ step[c] = "loaded"
    /\ seen[c].junk
    /\ junk' = [junk EXCEPT ![row[c]] = FALSE]
    /\ Flush(archived, row[c], FALSE, seen[c].archived)
    /\ Sets(c, Opportunity)
    /\ KeepsTasks(c)
    /\ Done(c)
    /\ UNCHANGED <<frozen, merged, team>>

\* purge(): what is in the bin is closed.
Purge(c) ==
    /\ step[c] = "loaded"
    /\ seen[c].junk
    /\ junk' = [junk EXCEPT ![row[c]] = FALSE]
    /\ Flush(archived, row[c], TRUE, seen[c].archived)
    /\ Sets(c, "Lost")
    /\ KeepsTasks(c)
    /\ Reason(c, FALSE)
    /\ Done(c)
    /\ UNCHANGED <<merged, team>>

\* merge(): the rows that point at the lead are made to point at the other,
\* its history among them; tasks do not point at it by a key and stay.
Merge(c) ==
    LET l == row[c]
        k == other[c]
    IN  /\ step[c] = "merging"
        /\ merged' = [merged EXCEPT ![l] = k]
        /\ Enters(l, IF seen[c].stage = "Lost" THEN stage[l] ELSE "Lost")
        /\ \E newer \in {mark[l], mark[k]} :
              /\ newer = None => mark[l] = None /\ mark[k] = None
              /\ mark' = [mark EXCEPT ![l] = None, ![k] = newer]
        /\ told' = [told EXCEPT ![l] = FALSE, ![k] = FALSE]
        /\ KeepsTasks(c)
        /\ Reason(c, FALSE)
        /\ Flush(archived, l, TRUE, seen[c].archived)
        /\ Done(c)
        /\ UNCHANGED <<junk, team>>

-----------------------------------------------------------------------------
Screens(c) ==
    \/ \E l \in Worked : Load(c, l)
    \/ \E l \in Lead, s \in Stage :
          (l \in Worked \/ s = Fallback) /\ Create(c, l, s)
    \/ \E s \in Stage : SaveForm(c, s) \/ Advance(c, s) \/ Decide(c, s)
    \/ CloseLost(c)
    \/ Look(c) \/ RunHook(c)
    \/ \E l \in Worked, d \in Duty : TaskDone(c, l, d)
    \/ \E l \in Worked, t \in Team : Reassign(c, l, t)
    \/ Abort(c)

Doors(c) ==
    \/ \E s \in Stage : \/ BulkSet(c, s) \/ WorkbenchSet(c, s)
                        \/ Move(c, s) \/ CopilotMove(c, s)
    \/ BulkClose(c) \/ PurchaseOrder(c) \/ CapabilityNo(c) \/ CallLogged(c)
    \/ QuoteSent(c) \/ Block(c)

Mails(c) ==
    \/ \E l \in Worked : LoadForMail(c, l)
    \/ QuotedByMail(c)
    \/ \E quotation \in BOOLEAN : MailReopens(c, quotation)

Shelves(c) ==
    \/ Archive(c) \/ Unarchive(c)
    \/ Bin(c) \/ Restore(c) \/ Purge(c)
    \/ \E l, k \in Lead : LoadForMerge(c, l, k)
    \/ Merge(c)

Next == \E c \in Clerk : Screens(c) \/ Doors(c) \/ Mails(c) \/ Shelves(c)

Spec == Init /\ [][Next]_vars

-----------------------------------------------------------------------------
(* Nothing in the code keeps two requests from the same lead.  These say    *)
(* that they keep apart all the same, as with a lock on each, or one worker. *)

\* The leads a request is about.
Leads(c) == {row[c], other[c]} \ {None}

LeadsApart == \A c, d \in Clerk : c # d => Leads(c) \cap Leads(d) = {}

ApartSpec == Init /\ [][Next /\ LeadsApart']_vars

\* Of two merges at a time none folds away a lead of the other.
MergesApart ==
    \A c, d \in Clerk :
        c # d /\ step[c] = "merging" /\ step[d] = "merging"
            => row[c] \notin Leads(d)

MergeSpec == Init /\ [][Next /\ MergesApart']_vars

-----------------------------------------------------------------------------
Step == {"idle", "loaded", "mail", "merging", "created", "changed", "fresh",
         "looked"}

LeadTypeOK ==
    /\ stage \in [Lead -> Stage \cup {"absent"}]
    /\ frozen \in [Lead -> BOOLEAN]
    /\ archived \in [Lead -> BOOLEAN]
    /\ junk \in [Lead -> BOOLEAN]
    /\ merged \in [Lead -> Lead \cup {None}]
    /\ team \in [Lead -> Team]
    /\ mark \in [Lead -> Open \cup {None}]
    /\ tasks \in [Lead -> [Duty -> Nat]]
    /\ step \in [Clerk -> Step]
    /\ row \in [Clerk -> Lead \cup {None}]
    /\ other \in [Clerk -> Lead \cup {None}]
    /\ seen \in [Clerk -> Row]
    /\ held \in [Lead -> Open \cup {None}]
    /\ told \in [Lead -> BOOLEAN]
    /\ swept \in [Lead -> BOOLEAN]
    /\ \A c \in Clerk : step[c] = "idle" <=> row[c] = None
    /\ \A c \in Clerk : step[c] = "merging" => other[c] # None

\* mail_ingest.py: "Back where it was, not to a nominated stage."  When the
\* history tells how the lead left play, a mail that reopens it, however long
\* after and whatever was done to the closed lead meanwhile, puts it at the
\* stage it really left, or at Quoted when the mail is our quotation.
ReopensWhereItWas ==
    [][\A c \in Clerk, l \in Lead :
         step[c] = "mail" /\ row[c] = l /\ stage[l] \in Over /\ told[l]
             => stage'[l] \in {stage[l], held[l], Quoted}]_vars

\* Merging never runs in a circle: of any leads at least one was not folded
\* into another of them, so every enquiry survives somewhere.
SomebodySurvives ==
    \A S \in (SUBSET Lead) \ {{}} : \E l \in S : merged[l] \notin S

\* task_autoclose.py: a lead that reached the end of its life leaves no task
\* open behind it - once a route that closes them has, and until it is back in
\* play, nothing raises another.
NoWorkOnAClosedLead ==
    \A l \in Lead :
        stage[l] \in Over /\ swept[l] => tasks[l] = NoTasks

\* task_engine.py: "an open TaskInstance with matching (task_key, entity_type,
\* entity_id, owner_user_id or owner_role) is not created twice": however often a
\* lead comes back to a stage and whoever it is given to in between, nobody has
\* two open tasks of one definition.
OneTaskPerOwner == \A l \in Lead, d \in Duty : tasks[l][d] <= 1
=============================================================================
