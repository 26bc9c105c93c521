------------------------ MODULE LeadLifecycle_proofs ------------------------
(***************************************************************************)
(* What holds of the leads for every number of leads, stages and tasks:    *)
(* the types for any number of overlapping requests; the history, the      *)
(* tasks and the merges when requests keep off each other's leads.         *)
(***************************************************************************)
EXTENDS LeadLifecycle, TLAPS

\* Closing the tasks one saw never leaves fewer than none.
LEMMA LessType ==
    ASSUME NEW m \in Nat, NEW n \in Nat
    PROVE  Less(m, n) \in Nat
<1>1. CASE m > n
  BY <1>1 DEF Less
<1>2. CASE ~(m > n)
  BY <1>2 DEF Less
<1>3. QED
  BY <1>1, <1>2

LEMMA PlusType ==
    ASSUME NEW m \in Nat, NEW n \in {0, 1}
    PROVE  m + n \in Nat
OBVIOUS

LEMMA OneLess ==
    ASSUME NEW n \in Nat, n > 0
    PROVE  n - 1 \in Nat
OBVIOUS

USE LeadAssumption DEF Stage, Over

-----------------------------------------------------------------------------
(* Types: what each part of a handler does to them *)

RequestsOK ==
    /\ step \in [Clerk -> Step]
    /\ row \in [Clerk -> Lead \cup {None}]
    /\ other \in [Clerk -> Lead \cup {None}]
    /\ seen \in [Clerk -> Row]
    /\ \A c \in Clerk : step[c] = "idle" <=> row[c] = None
    /\ \A c \in Clerk : step[c] = "merging" => other[c] # None

StageOK ==
    /\ stage \in [Lead -> Stage \cup {"absent"}]
    /\ mark \in [Lead -> Open \cup {None}]
    /\ held \in [Lead -> Open \cup {None}]
    /\ told \in [Lead -> BOOLEAN]

TasksOK ==
    /\ tasks \in [Lead -> [Duty -> Nat]]
    /\ swept \in [Lead -> BOOLEAN]

ShelfOK ==
    /\ frozen \in [Lead -> BOOLEAN]
    /\ archived \in [Lead -> BOOLEAN]
    /\ junk \in [Lead -> BOOLEAN]
    /\ merged \in [Lead -> Lead \cup {None}]
    /\ team \in [Lead -> Team]

ColumnsOK == StageOK /\ TasksOK /\ ShelfOK

\* The type invariant is about the rows and about the requests.
LEMMA TypeParts == LeadTypeOK => ColumnsOK /\ RequestsOK
BY DEF LeadTypeOK, ColumnsOK, RequestsOK, StageOK, TasksOK, ShelfOK

\* Writing a stage without history keeps the types.
LEMMA SetsType ==
    ASSUME ColumnsOK, NEW c \in Clerk, row[c] \in Lead, NEW s \in Stage,
           Sets(c, s)
    PROVE  StageOK'
BY DEF ColumnsOK, StageOK, TasksOK, ShelfOK, Sets, Enters

\* So does writing one with its history row.
LEMMA LogsType ==
    ASSUME ColumnsOK, NEW c \in Clerk, row[c] \in Lead, NEW s \in Stage,
           Logs(c, s)
    PROVE  StageOK'
BY DEF ColumnsOK, StageOK, TasksOK, ShelfOK, Logs, Enters, Marked

\* Leaving the tasks, or closing them all.
LEMMA KeepsType ==
    ASSUME ColumnsOK, NEW c \in Clerk, row[c] \in Lead, KeepsTasks(c)
    PROVE  TasksOK'
BY DEF ColumnsOK, StageOK, TasksOK, ShelfOK, KeepsTasks

LEMMA NoTasksType == NoTasks \in [Duty -> Nat]
BY DEF NoTasks

LEMMA SweepsType ==
    ASSUME ColumnsOK, NEW c \in Clerk, row[c] \in Lead, SweepsTasks(c)
    PROVE  TasksOK'
BY NoTasksType DEF ColumnsOK, StageOK, TasksOK, ShelfOK, SweepsTasks

LEMMA ReasonType ==
    ASSUME ColumnsOK, NEW c \in Clerk, row[c] \in Lead, NEW b \in BOOLEAN,
           Reason(c, b)
    PROVE  frozen' \in [Lead -> BOOLEAN]
BY DEF ColumnsOK, StageOK, TasksOK, ShelfOK, Reason, Flush

LEMMA ArchiveType ==
    ASSUME ColumnsOK, NEW l \in Lead, NEW b \in BOOLEAN, NEW old,
           Flush(archived, l, b, old)
    PROVE  archived' \in [Lead -> BOOLEAN]
BY DEF ColumnsOK, ShelfOK, Flush

LEMMA BlankType == Blank \in Row
BY NoTasksType DEF Blank, Row

LEMMA StoredType ==
    ASSUME ColumnsOK, NEW l \in Lead
    PROVE  Stored(l) \in Row
BY DEF ColumnsOK, StageOK, TasksOK, ShelfOK, Stored, Row

\* A request that ends, or that goes on to the task engine.
LEMMA DoneType ==
    ASSUME RequestsOK, NEW c \in Clerk, Done(c)
    PROVE  RequestsOK'
BY BlankType DEF RequestsOK, Done, Step

LEMMA HookType ==
    ASSUME RequestsOK, NEW c \in Clerk, row[c] # None, ThenHook(c, "changed")
    PROVE  RequestsOK'
BY BlankType DEF RequestsOK, ThenHook, Step

\* Loading a row.
LEMMA LoadsType ==
    ASSUME ColumnsOK, RequestsOK, NEW c \in Clerk, NEW l \in Lead,
           NEW k \in Lead \cup {None},
           NEW next \in {"loaded", "mail", "merging"},
           next = "merging" => k # None, Loads(c, l, k, next)
    PROVE  ColumnsOK' /\ RequestsOK'
<1>1. ColumnsOK'
  BY DEF ColumnsOK, StageOK, TasksOK, ShelfOK, Loads, columns, history
<1>2. RequestsOK'
  BY StoredType DEF RequestsOK, Loads, Step
<1>3. QED
  BY <1>1, <1>2

\* A request on the row it loaded.
LEMMA BusyHasARow ==
    ASSUME RequestsOK, NEW c \in Clerk, step[c] # "idle"
    PROVE  row[c] \in Lead
BY DEF RequestsOK

LEMMA ScreensKeepTypes ==
    ASSUME LeadTypeOK, NEW c \in Clerk, Screens(c)
    PROVE  LeadTypeOK'
<1>0. ColumnsOK /\ RequestsOK
  BY TypeParts
<1> SUFFICES ColumnsOK' /\ RequestsOK'
  BY DEF LeadTypeOK, ColumnsOK, RequestsOK, StageOK, TasksOK, ShelfOK
<1>1. ASSUME NEW l \in Worked, Load(c, l)  PROVE ColumnsOK' /\ RequestsOK'
  BY <1>0, <1>1, LoadsType DEF Load
<1>2. ASSUME NEW l \in Lead, NEW s \in Stage, Create(c, l, s)
      PROVE  ColumnsOK' /\ RequestsOK'
  <2>1. ColumnsOK'
    BY <1>0, <1>2 DEF ColumnsOK, StageOK, TasksOK, ShelfOK, Create, Enters
  <2>2. RequestsOK'
    BY <1>0, <1>2 DEF RequestsOK, Create, Step
  <2>3. QED
    BY <2>1, <2>2
<1>3. ASSUME NEW s \in Stage, SaveForm(c, s)  PROVE ColumnsOK' /\ RequestsOK'
  <2>1. row[c] \in Lead
    BY <1>0, <1>3, BusyHasARow DEF SaveForm
  <2>2. StageOK' /\ TasksOK'
    BY <1>0, <1>3, <2>1, SetsType, KeepsType DEF SaveForm
  <2>3. ShelfOK'
    BY <1>0, <1>3 DEF ColumnsOK, SaveForm, ShelfOK
  <2>4. RequestsOK'
    BY <1>0, <1>3, <2>1, DoneType, HookType DEF SaveForm
  <2>5. QED
    BY <2>2, <2>3, <2>4 DEF ColumnsOK
<1>4. ASSUME NEW s \in Stage, Advance(c, s)  PROVE ColumnsOK' /\ RequestsOK'
  <2>1. row[c] \in Lead
    BY <1>0, <1>4, BusyHasARow DEF Advance
  <2>2. StageOK' /\ TasksOK'
    BY <1>0, <1>4, <2>1, LogsType, KeepsType DEF Advance
  <2>3. ShelfOK'
    BY <1>0, <1>4 DEF ColumnsOK, Advance, ShelfOK
  <2>4. RequestsOK'
    BY <1>0, <1>4, <2>1, HookType DEF Advance
  <2>5. QED
    BY <2>2, <2>3, <2>4 DEF ColumnsOK
<1>5. ASSUME NEW s \in Stage, Decide(c, s)  PROVE ColumnsOK' /\ RequestsOK'
  <2>1. row[c] \in Lead
    BY <1>0, <1>5, BusyHasARow DEF Decide
  <2>2. StageOK' /\ TasksOK'
    BY <1>0, <1>5, <2>1, LogsType, KeepsType DEF Decide
  <2>3. (seen[c].frozen /\ s # "Lost") \in BOOLEAN
    OBVIOUS
  <2>4. frozen' \in [Lead -> BOOLEAN]
    BY <1>0, <1>5, <2>1, <2>3, ReasonType DEF Decide
  <2>5. ShelfOK'
    BY <1>0, <1>5, <2>4 DEF ColumnsOK, Decide, ShelfOK
  <2>6. RequestsOK'
    BY <1>0, <1>5, <2>1, HookType DEF Decide
  <2>7. QED
    BY <2>2, <2>5, <2>6 DEF ColumnsOK
<1>6. ASSUME CloseLost(c)  PROVE ColumnsOK' /\ RequestsOK'
  <2>1. row[c] \in Lead
    BY <1>0, <1>6, BusyHasARow DEF CloseLost
  <2>2. StageOK' /\ TasksOK'
    BY <1>0, <1>6, <2>1, SetsType, SweepsType DEF CloseLost
  <2>3. ShelfOK'
    BY <1>0, <1>6, <2>1, ReasonType DEF ColumnsOK, CloseLost, ShelfOK
  <2>4. RequestsOK'
    BY <1>0, <1>6, DoneType DEF CloseLost
  <2>5. QED
    BY <2>2, <2>3, <2>4 DEF ColumnsOK
<1>7. ASSUME Look(c)  PROVE ColumnsOK' /\ RequestsOK'
  <2>1. Stored(row[c]) \in Row
    BY <1>0, <1>7, BusyHasARow, StoredType DEF Look
  <2>2. ColumnsOK'
    BY <1>0, <1>7 DEF ColumnsOK, StageOK, TasksOK, ShelfOK, Look, columns, history
  <2>3. RequestsOK'
    BY <1>0, <1>7, <2>1 DEF RequestsOK, Look, Step
  <2>4. QED
    BY <2>2, <2>3
<1>8. ASSUME RunHook(c)  PROVE ColumnsOK' /\ RequestsOK'
  <2>1. row[c] \in Lead /\ seen[c] \in Row
    BY <1>0, <1>8, BusyHasARow DEF RunHook, RequestsOK
  <2>2. seen[c].tasks \in [Duty -> Nat]
    BY <2>1 DEF Row
  <2>4. ASSUME NEW old \in [Duty -> Nat]
        PROVE  [k \in Duty |-> (IF k \in Completed(c)
                                THEN Less(old[k], seen[c].tasks[k])
                                ELSE old[k])
                               + (IF k \in Raised(c) THEN 1 ELSE 0)]
                 \in [Duty -> Nat]
    <3>1. ASSUME NEW k \in Duty
          PROVE  (IF k \in Completed(c) THEN Less(old[k], seen[c].tasks[k])
                                        ELSE old[k])
                 + (IF k \in Raised(c) THEN 1 ELSE 0) \in Nat
      <4>1. old[k] \in Nat /\ seen[c].tasks[k] \in Nat
        BY <2>2
      <4>2. Less(old[k], seen[c].tasks[k]) \in Nat
        BY <4>1, LessType
      <4>3. (IF k \in Raised(c) THEN 1 ELSE 0) \in {0, 1}
        OBVIOUS
      <4>4. (IF k \in Completed(c) THEN Less(old[k], seen[c].tasks[k])
                                   ELSE old[k]) \in Nat
        BY <4>1, <4>2
      <4>5. QED
        BY <4>3, <4>4, PlusType
    <3>2. QED
      BY <3>1
  <2>5. tasks[row[c]] \in [Duty -> Nat]
    BY <1>0, <2>1 DEF ColumnsOK, StageOK, TasksOK, ShelfOK
  <2>6. TasksOK'
    BY <1>0, <1>8, <2>1, <2>4, <2>5, NoTasksType
       DEF ColumnsOK, StageOK, TasksOK, ShelfOK, RunHook
  <2>7. StageOK' /\ ShelfOK'
    BY <1>0, <1>8 DEF ColumnsOK, StageOK, TasksOK, ShelfOK, RunHook, columns
  <2>8. RequestsOK'
    BY <1>0, <1>8, DoneType DEF RunHook
  <2>9. QED
    BY <2>6, <2>7, <2>8 DEF ColumnsOK
<1>9. ASSUME Abort(c)  PROVE ColumnsOK' /\ RequestsOK'
  <2>1. ColumnsOK'
    BY <1>0, <1>9 DEF ColumnsOK, StageOK, TasksOK, ShelfOK, Abort, columns, history
  <2>2. QED
    BY <1>0, <1>9, <2>1, DoneType DEF Abort
<1>10. ASSUME NEW l \in Worked, NEW k \in Duty, TaskDone(c, l, k)
       PROVE  ColumnsOK' /\ RequestsOK'
  <2>1. l \in Lead /\ tasks \in [Lead -> [Duty -> Nat]]
    BY <1>0 DEF ColumnsOK, TasksOK
  <2>2. tasks[l][k] - 1 \in Nat
    <3>1. tasks[l] \in [Duty -> Nat]
      BY <2>1
    <3>2. tasks[l][k] \in Nat
      BY <3>1
    <3>3. tasks[l][k] > 0
      BY <1>10 DEF TaskDone
    <3>4. QED
      BY <3>2, <3>3, OneLess
  <2>3. tasks' \in [Lead -> [Duty -> Nat]]
    BY <1>10, <2>1, <2>2 DEF TaskDone
  <2>4. QED
    BY <1>0, <1>10, <2>3 DEF ColumnsOK, StageOK, TasksOK, ShelfOK, RequestsOK,
       TaskDone, columns, requests, history
<1>11. ASSUME NEW l \in Worked, NEW t \in Team, Reassign(c, l, t)
       PROVE  ColumnsOK' /\ RequestsOK'
  <2>1. ColumnsOK'
    BY <1>0, <1>11 DEF ColumnsOK, StageOK, TasksOK, ShelfOK, Reassign, history
  <2>2. RequestsOK'
    BY <1>0, <1>11 DEF RequestsOK, Reassign, requests
  <2>3. QED
    BY <2>1, <2>2
<1>12. QED
  BY <1>1, <1>2, <1>3, <1>4, <1>5, <1>6, <1>7, <1>8, <1>9, <1>10, <1>11
     DEF Screens

LEMMA DoorsKeepTypes ==
    ASSUME LeadTypeOK, NEW c \in Clerk, Doors(c)
    PROVE  LeadTypeOK'
<1>0. ColumnsOK /\ RequestsOK
  BY TypeParts
<1> SUFFICES ColumnsOK' /\ RequestsOK'
  BY DEF LeadTypeOK, ColumnsOK, RequestsOK, StageOK, TasksOK, ShelfOK
<1>1. ASSUME NEW s \in Stage, BulkSet(c, s)  PROVE ColumnsOK' /\ RequestsOK'
  <2>1. row[c] \in Lead
    BY <1>0, <1>1, BusyHasARow DEF BulkSet
  <2>2. StageOK' /\ TasksOK'
    BY <1>0, <1>1, <2>1, SetsType, KeepsType DEF BulkSet
  <2>3. ShelfOK'
    BY <1>0, <1>1 DEF ColumnsOK, BulkSet, ShelfOK
  <2>4. RequestsOK'
    BY <1>0, <1>1, DoneType DEF BulkSet
  <2>5. QED
    BY <2>2, <2>3, <2>4 DEF ColumnsOK
<1>2. ASSUME NEW s \in Stage, WorkbenchSet(c, s)  PROVE ColumnsOK' /\ RequestsOK'
  <2>1. row[c] \in Lead
    BY <1>0, <1>2, BusyHasARow DEF WorkbenchSet
  <2>2. StageOK' /\ TasksOK'
    BY <1>0, <1>2, <2>1, SetsType, KeepsType DEF WorkbenchSet
  <2>3. ShelfOK'
    BY <1>0, <1>2 DEF ColumnsOK, WorkbenchSet, ShelfOK
  <2>4. RequestsOK'
    BY <1>0, <1>2, DoneType DEF WorkbenchSet
  <2>5. QED
    BY <2>2, <2>3, <2>4 DEF ColumnsOK
<1>3. ASSUME NEW s \in Stage, Move(c, s)  PROVE ColumnsOK' /\ RequestsOK'
  <2>1. row[c] \in Lead
    BY <1>0, <1>3, BusyHasARow DEF Move
  <2>2. StageOK' /\ TasksOK'
    BY <1>0, <1>3, <2>1, LogsType, KeepsType DEF Move
  <2>3. ShelfOK'
    BY <1>0, <1>3 DEF ColumnsOK, Move, ShelfOK
  <2>4. RequestsOK'
    BY <1>0, <1>3, DoneType DEF Move
  <2>5. QED
    BY <2>2, <2>3, <2>4 DEF ColumnsOK
<1>4. ASSUME NEW s \in Stage, CopilotMove(c, s)  PROVE ColumnsOK' /\ RequestsOK'
  <2>1. row[c] \in Lead
    BY <1>0, <1>4, BusyHasARow DEF CopilotMove
  <2>2. StageOK' /\ TasksOK'
    BY <1>0, <1>4, <2>1, LogsType, KeepsType DEF CopilotMove
  <2>3. ShelfOK'
    BY <1>0, <1>4 DEF ColumnsOK, CopilotMove, ShelfOK
  <2>4. RequestsOK'
    BY <1>0, <1>4, DoneType DEF CopilotMove
  <2>5. QED
    BY <2>2, <2>3, <2>4 DEF ColumnsOK
<1>5. ASSUME BulkClose(c)  PROVE ColumnsOK' /\ RequestsOK'
  <2>1. row[c] \in Lead
    BY <1>0, <1>5, BusyHasARow DEF BulkClose
  <2>2. StageOK' /\ TasksOK'
    BY <1>0, <1>5, <2>1, SetsType, SweepsType DEF BulkClose
  <2>3. ShelfOK'
    BY <1>0, <1>5, <2>1, ReasonType DEF ColumnsOK, BulkClose, ShelfOK
  <2>4. RequestsOK'
    BY <1>0, <1>5, DoneType DEF BulkClose
  <2>5. QED
    BY <2>2, <2>3, <2>4 DEF ColumnsOK
<1>6. ASSUME PurchaseOrder(c)  PROVE ColumnsOK' /\ RequestsOK'
  <2>1. row[c] \in Lead
    BY <1>0, <1>6, BusyHasARow DEF PurchaseOrder
  <2>2. StageOK' /\ TasksOK'
    BY <1>0, <1>6, <2>1, SetsType, KeepsType DEF PurchaseOrder
  <2>3. ShelfOK'
    BY <1>0, <1>6 DEF ColumnsOK, PurchaseOrder, ShelfOK
  <2>4. RequestsOK'
    BY <1>0, <1>6, DoneType DEF PurchaseOrder
  <2>5. QED
    BY <2>2, <2>3, <2>4 DEF ColumnsOK
<1>7. ASSUME CapabilityNo(c)  PROVE ColumnsOK' /\ RequestsOK'
  <2>1. row[c] \in Lead
    BY <1>0, <1>7, BusyHasARow DEF CapabilityNo
  <2>2. StageOK' /\ TasksOK'
    BY <1>0, <1>7, <2>1, SetsType, KeepsType DEF CapabilityNo
  <2>3. ShelfOK'
    BY <1>0, <1>7, <2>1, ReasonType DEF ColumnsOK, CapabilityNo, ShelfOK
  <2>4. RequestsOK'
    BY <1>0, <1>7, DoneType DEF CapabilityNo
  <2>5. QED
    BY <2>2, <2>3, <2>4 DEF ColumnsOK
<1>8. ASSUME CallLogged(c)  PROVE ColumnsOK' /\ RequestsOK'
  <2>1. row[c] \in Lead
    BY <1>0, <1>8, BusyHasARow DEF CallLogged
  <2>2. StageOK' /\ TasksOK'
    BY <1>0, <1>8, <2>1, SetsType, KeepsType DEF CallLogged
  <2>3. ShelfOK'
    BY <1>0, <1>8 DEF ColumnsOK, CallLogged, ShelfOK
  <2>4. RequestsOK'
    BY <1>0, <1>8, DoneType DEF CallLogged
  <2>5. QED
    BY <2>2, <2>3, <2>4 DEF ColumnsOK
<1>9. ASSUME QuoteSent(c)  PROVE ColumnsOK' /\ RequestsOK'
  <2>1. row[c] \in Lead
    BY <1>0, <1>9, BusyHasARow DEF QuoteSent
  <2>2. StageOK' /\ TasksOK'
    BY <1>0, <1>9, <2>1, SetsType, KeepsType DEF QuoteSent
  <2>3. ShelfOK'
    BY <1>0, <1>9 DEF ColumnsOK, QuoteSent, ShelfOK
  <2>4. RequestsOK'
    BY <1>0, <1>9, DoneType DEF QuoteSent
  <2>5. QED
    BY <2>2, <2>3, <2>4 DEF ColumnsOK
<1>10. ASSUME Block(c)  PROVE ColumnsOK' /\ RequestsOK'
  <2>1. row[c] \in Lead
    BY <1>0, <1>10, BusyHasARow DEF Block
  <2>2. StageOK' /\ TasksOK'
    BY <1>0, <1>10, <2>1, SetsType, KeepsType DEF Block
  <2>3. ShelfOK'
    BY <1>0, <1>10, <2>1, ReasonType DEF ColumnsOK, Block, ShelfOK
  <2>4. RequestsOK'
    BY <1>0, <1>10, DoneType DEF Block
  <2>5. QED
    BY <2>2, <2>3, <2>4 DEF ColumnsOK
<1>11. QED
  BY <1>1, <1>2, <1>3, <1>4, <1>5, <1>6, <1>7, <1>8, <1>9, <1>10 DEF Doors

LEMMA MailsKeepTypes ==
    ASSUME LeadTypeOK, NEW c \in Clerk, Mails(c)
    PROVE  LeadTypeOK'
<1>0. ColumnsOK /\ RequestsOK
  BY TypeParts
<1> SUFFICES ColumnsOK' /\ RequestsOK'
  BY DEF LeadTypeOK, ColumnsOK, RequestsOK, StageOK, TasksOK, ShelfOK
<1>1. ASSUME NEW l \in Worked, LoadForMail(c, l)  PROVE ColumnsOK' /\ RequestsOK'
  BY <1>0, <1>1, LoadsType DEF LoadForMail
<1>2. ASSUME QuotedByMail(c)  PROVE ColumnsOK' /\ RequestsOK'
  <2>1. row[c] \in Lead
    BY <1>0, <1>2, BusyHasARow DEF QuotedByMail
  <2>2. StageOK' /\ TasksOK'
    BY <1>0, <1>2, <2>1, SetsType, KeepsType DEF QuotedByMail
  <2>3. ShelfOK'
    BY <1>0, <1>2 DEF ColumnsOK, QuotedByMail, ShelfOK
  <2>4. RequestsOK'
    BY <1>0, <1>2, DoneType DEF QuotedByMail
  <2>5. QED
    BY <2>2, <2>3, <2>4 DEF ColumnsOK
<1>3. ASSUME NEW quotation \in BOOLEAN, MailReopens(c, quotation)
      PROVE  ColumnsOK' /\ RequestsOK'
  <2>1. row[c] \in Lead
    BY <1>0, <1>3, BusyHasARow DEF MailReopens
  <2>2. BackTo(row[c]) \in Open
    BY <1>0, <2>1 DEF BackTo, ColumnsOK, StageOK
  <2>3. StageOK'
    BY <1>0, <1>3, <2>1, <2>2
       DEF MailReopens, ColumnsOK, StageOK, Enters, Marked
  <2>4. TasksOK'
    BY <1>0, <1>3, <2>1, KeepsType DEF MailReopens
  <2>5. ShelfOK'
    BY <1>0, <1>3, <2>1, ReasonType DEF ColumnsOK, MailReopens, ShelfOK
  <2>6. RequestsOK'
    BY <1>0, <1>3, DoneType DEF MailReopens
  <2>7. QED
    BY <2>3, <2>4, <2>5, <2>6 DEF ColumnsOK
<1>4. QED
  BY <1>1, <1>2, <1>3 DEF Mails

LEMMA ShelvesKeepTypes ==
    ASSUME LeadTypeOK, NEW c \in Clerk, Shelves(c)
    PROVE  LeadTypeOK'
<1>0. ColumnsOK /\ RequestsOK
  BY TypeParts
<1> SUFFICES ColumnsOK' /\ RequestsOK'
  BY DEF LeadTypeOK, ColumnsOK, RequestsOK, StageOK, TasksOK, ShelfOK
<1>1. ASSUME Archive(c) \/ Unarchive(c) \/ Bin(c)
      PROVE  ColumnsOK' /\ RequestsOK'
  <2>1. ColumnsOK'
    BY ZenonT(60), <1>0, <1>1 DEF ColumnsOK, StageOK, TasksOK, ShelfOK, Archive,
       Unarchive, Bin, history
  <2>2. RequestsOK'
    BY <1>0, <1>1, DoneType DEF Archive, Unarchive, Bin
  <2>3. QED
    BY <2>1, <2>2
<1>2. ASSUME Restore(c) \/ Purge(c)
      PROVE  ColumnsOK' /\ RequestsOK'
  <2>1. row[c] \in Lead
    BY <1>0, <1>2, BusyHasARow DEF Restore, Purge
  <2>2. StageOK' /\ TasksOK'
    BY <1>0, <1>2, <2>1, SetsType, KeepsType DEF Restore, Purge
  <2>3. frozen' \in [Lead -> BOOLEAN]
    BY <1>0, <1>2, <2>1, ReasonType DEF Restore, Purge, ColumnsOK, ShelfOK
  <2>4. archived' \in [Lead -> BOOLEAN]
    BY <1>0, <1>2, <2>1, ArchiveType DEF Restore, Purge
  <2>5. ShelfOK'
    BY <1>0, <1>2, <2>3, <2>4 DEF ColumnsOK, Restore, Purge, ShelfOK
  <2>6. RequestsOK'
    BY <1>0, <1>2, DoneType DEF Restore, Purge
  <2>7. QED
    BY <2>2, <2>5, <2>6 DEF ColumnsOK
<1>3. ASSUME NEW l \in Lead, NEW k \in Lead, LoadForMerge(c, l, k)
      PROVE  ColumnsOK' /\ RequestsOK'
  BY <1>0, <1>3, LoadsType DEF LoadForMerge
<1>4. ASSUME Merge(c)  PROVE ColumnsOK' /\ RequestsOK'
  <2>0. step[c] = "merging"
    BY <1>4 DEF Merge
  <2>1. row[c] \in Lead /\ other[c] \in Lead
    BY <1>0, <2>0, BusyHasARow DEF RequestsOK
  <2>2. StageOK'
    <3>1. PICK newer \in {mark[row[c]], mark[other[c]]} :
             mark' = [mark EXCEPT ![row[c]] = None, ![other[c]] = newer]
      BY <1>4 DEF Merge
    <3>2. mark' \in [Lead -> Open \cup {None}]
      BY <1>0, <2>1, <3>1 DEF ColumnsOK, StageOK
    <3>3. /\ stage' \in [Lead -> Stage \cup {"absent"}]
          /\ held' \in [Lead -> Open \cup {None}]
      BY <1>0, <1>4, <2>1 DEF Merge, ColumnsOK, StageOK, Enters
    <3>4. told' \in [Lead -> BOOLEAN]
      BY <1>0, <1>4, <2>1 DEF Merge, ColumnsOK, StageOK
    <3>5. QED
      BY <3>2, <3>3, <3>4 DEF StageOK
  <2>3. TasksOK'
    BY <1>0, <1>4, <2>1, KeepsType DEF Merge
  <2>4. frozen' \in [Lead -> BOOLEAN]
    BY <1>0, <1>4, <2>1, ReasonType DEF Merge
  <2>5. archived' \in [Lead -> BOOLEAN]
    BY <1>0, <1>4, <2>1, ArchiveType DEF Merge
  <2>6. ShelfOK'
    BY <1>0, <1>4, <2>1, <2>4, <2>5 DEF ColumnsOK, Merge, ShelfOK
  <2>7. RequestsOK'
    BY <1>0, <1>4, DoneType DEF Merge
  <2>8. QED
    BY <2>2, <2>3, <2>6, <2>7 DEF ColumnsOK
<1>5. QED
  BY <1>1, <1>2, <1>3, <1>4 DEF Shelves

LEMMA TypesInductive ==
    ASSUME LeadTypeOK, [Next]_vars
    PROVE  LeadTypeOK'
<1>1. ASSUME NEW c \in Clerk,
             Screens(c) \/ Doors(c) \/ Mails(c) \/ Shelves(c)
      PROVE  LeadTypeOK'
  BY <1>1, ScreensKeepTypes, DoorsKeepTypes, MailsKeepTypes, ShelvesKeepTypes
<1>2. CASE UNCHANGED vars
  BY <1>2 DEF vars, columns, requests, history, LeadTypeOK, Row
<1>3. QED
  BY <1>1, <1>2 DEF Next

LEMMA TypesInitially == Init => LeadTypeOK
<1> SUFFICES ASSUME Init PROVE LeadTypeOK
  OBVIOUS
<1>1. StageOK
  BY DEF Init, StageOK
<1>2. TasksOK
  BY NoTasksType DEF Init, TasksOK
<1>3. ShelfOK
  BY DEF Init, ShelfOK
<1>4. RequestsOK
  BY BlankType DEF Init, RequestsOK, Step
<1>5. QED
  BY <1>1, <1>2, <1>3, <1>4
     DEF LeadTypeOK, StageOK, TasksOK, ShelfOK, RequestsOK

\* Every column, and everything a request remembers, keeps its type, however
\* many requests overlap: no route leaves a lead on a stage nobody knows.
THEOREM LeadTypeCorrect == Spec => []LeadTypeOK
<1>1. Init => LeadTypeOK
  BY TypesInitially
<1>2. LeadTypeOK /\ [Next]_vars => LeadTypeOK'
  BY TypesInductive
<1>3. QED
  BY <1>1, <1>2, PTL DEF Spec

-----------------------------------------------------------------------------
(* Requests that keep apart *)

Ended == {"idle", "created", "changed"}
HasRead == {"loaded", "mail", "merging", "fresh", "looked"}

\* What a request read of its row is what the row still says, but for tasks
\* that people have ticked off.
Fresh(c) ==
    step[c] \in HasRead =>
        /\ seen[c].stage = stage[row[c]]
        /\ \A k \in Duty : tasks[row[c]][k] <= seen[c].tasks[k]

\* A lead in play is at the stage it was last held at, and the history of one
\* whose closing it recorded names that stage.
HistInv ==
    \A l \in Lead :
        /\ stage[l] \in Open => held[l] = stage[l]
        /\ told[l] => /\ stage[l] \in Over
                      /\ held[l] \in Open
                      /\ mark[l] = held[l]

TaskInv ==
    \A l \in Lead :
        /\ swept[l] => stage[l] \in Over /\ tasks[l] = NoTasks
        /\ \A k \in Duty : tasks[l][k] <= 1

ApartInv ==
    /\ LeadTypeOK
    /\ LeadsApart
    /\ \A c \in Clerk : Fresh(c)
    /\ HistInv
    /\ TaskInv

\* A request that is to merge two leads found neither of them merged.
Unmerged(c) ==
    step[c] = "merging" =>
        /\ row[c] # other[c]
        /\ merged[row[c]] = None
        /\ merged[other[c]] = None

MergeInv ==
    /\ LeadTypeOK
    /\ MergesApart
    /\ \A c \in Clerk : Unmerged(c)
    /\ SomebodySurvives

\* The workers other than c go on as they were.
OthersWait(c) ==
    \A d \in Clerk \ {c} : /\ step'[d] = step[d] /\ row'[d] = row[d]
                           /\ other'[d] = other[d] /\ seen'[d] = seen[d]

\* What most handlers do: write stage s, with or without its history row, keep
\* or close the tasks, and be done or go on to the task engine.
Writes(c, s) ==
    /\ step[c] = "loaded" \/ (step[c] = "mail" /\ s = Quoted)
    /\ Sets(c, s) \/ Logs(c, s)
    /\ KeepsTasks(c) \/ (s \in Over /\ SweepsTasks(c))
    /\ \/ step' = [step EXCEPT ![c] = "idle"]
       \/ step' = [step EXCEPT ![c] = "changed"]
    /\ merged' = merged
    /\ OthersWait(c)

\* Those that leave stage and tasks alone.
Quiet(c) ==
    /\ UNCHANGED <<stage, tasks, merged, mark, history>>
    /\ step' = [step EXCEPT ![c] = "idle"]
    /\ OthersWait(c)

\* Those that read a lead.
Reads(c) ==
    /\ UNCHANGED <<columns, mark, tasks, history>>
    /\ seen' = [seen EXCEPT ![c] = Stored(row'[c])]
    /\ \E next \in HasRead \ {"merging"} : step' = [step EXCEPT ![c] = next]
    /\ row'[c] \in Lead
    /\ OthersWait(c)

HIDE DEF Stage, Over

LEMMA Named ==
    /\ "Won" \in Over /\ "Lost" \in Over /\ "Not Interested" \in Over
    /\ Over \subseteq Stage
    /\ Discussion \in Stage /\ Opportunity \in Stage /\ Quoted \in Stage
BY LeadAssumption DEF Stage, Over

LEMMA DoneAlone ==
    ASSUME LeadTypeOK, NEW c \in Clerk, Done(c) \/ ThenHook(c, "changed")
    PROVE  OthersWait(c)
BY DEF LeadTypeOK, Done, ThenHook, OthersWait

LEMMA LoadsAlone ==
    ASSUME LeadTypeOK, NEW c \in Clerk, NEW l \in Lead,
           NEW k \in Lead \cup {None}, NEW next, Loads(c, l, k, next)
    PROVE  OthersWait(c)
BY DEF LeadTypeOK, Loads, OthersWait

LEMMA ScreensShape ==
    ASSUME LeadTypeOK, NEW c \in Clerk, Screens(c)
    PROVE  \/ \E s \in Stage : Writes(c, s)
           \/ Quiet(c) \/ Reads(c)
           \/ RunHook(c)
           \/ \E l \in Lead, k \in Duty : TaskDone(c, l, k)
           \/ \E l \in Lead, t \in Team : Reassign(c, l, t)
           \/ \E l \in Lead, s \in Stage : Create(c, l, s)
<1>1. ASSUME NEW l \in Worked, Load(c, l)  PROVE Reads(c)
  BY <1>1, LeadAssumption, LoadsAlone
  DEF LeadTypeOK, Load, Loads, Reads, HasRead
<1>2. ASSUME NEW s \in Stage, SaveForm(c, s)  PROVE Writes(c, s)
  BY <1>2, DoneAlone DEF SaveForm, Writes, Done, ThenHook
<1>3. ASSUME NEW s \in Stage, Advance(c, s)  PROVE Writes(c, s)
  BY <1>3, DoneAlone DEF Advance, Writes, ThenHook
<1>4. ASSUME NEW s \in Stage, Decide(c, s)  PROVE Writes(c, s)
  BY <1>4, DoneAlone DEF Decide, Writes, ThenHook
<1>5. ASSUME CloseLost(c)  PROVE Writes(c, "Lost")
  BY <1>5, Named, DoneAlone DEF CloseLost, Writes, Done
<1>6. ASSUME Look(c)  PROVE Reads(c)
  <2>1. row[c] \in Lead /\ row' = row
    BY <1>6 DEF LeadTypeOK, Look
  <2>2. PICK next \in {"fresh", "looked"} : step' = [step EXCEPT ![c] = next]
    BY <1>6 DEF Look
  <2>3. QED
    BY <1>6, <2>1, <2>2 DEF LeadTypeOK, Look, Reads, HasRead, OthersWait
<1>7. ASSUME Abort(c)  PROVE Quiet(c)
  BY <1>7, DoneAlone DEF Abort, Quiet, Done, columns
<1>8. Worked \subseteq Lead
  BY LeadAssumption
<1>9. QED
  BY <1>1, <1>2, <1>3, <1>4, <1>5, <1>6, <1>7, <1>8, Named, Zenon DEF Screens

LEMMA DoorsShape ==
    ASSUME LeadTypeOK, NEW c \in Clerk, Doors(c)
    PROVE  \E s \in Stage : Writes(c, s)
<1>1. ASSUME NEW s \in Stage,
             BulkSet(c, s) \/ WorkbenchSet(c, s) \/ Move(c, s)
                \/ CopilotMove(c, s)
      PROVE  Writes(c, s)
  BY <1>1, DoneAlone
  DEF BulkSet, WorkbenchSet, Move, CopilotMove, Writes, Done
<1>2. ASSUME BulkClose(c)  PROVE Writes(c, "Lost")
  BY <1>2, Named, DoneAlone DEF BulkClose, Writes, Done
<1>3. ASSUME PurchaseOrder(c)  PROVE Writes(c, "Won")
  BY <1>3, DoneAlone DEF PurchaseOrder, Writes, Done
<1>4. ASSUME CapabilityNo(c)  PROVE Writes(c, "Lost")
  BY <1>4, DoneAlone DEF CapabilityNo, Writes, Done
<1>5. ASSUME CallLogged(c)  PROVE Writes(c, Discussion)
  BY <1>5, DoneAlone DEF CallLogged, Writes, Done
<1>6. ASSUME QuoteSent(c)  PROVE Writes(c, Quoted)
  BY <1>6, DoneAlone DEF QuoteSent, Writes, Done
<1>7. ASSUME Block(c)  PROVE Writes(c, "Not Interested")
  BY <1>7, DoneAlone DEF Block, Writes, Done
<1>8. QED
  BY <1>1, <1>2, <1>3, <1>4, <1>5, <1>6, <1>7, Named, Zenon DEF Doors

LEMMA MailsShape ==
    ASSUME LeadTypeOK, NEW c \in Clerk, Mails(c)
    PROVE  \/ \E s \in Stage : Writes(c, s)
           \/ Reads(c)
           \/ \E quotation \in BOOLEAN : MailReopens(c, quotation)
<1>1. ASSUME NEW l \in Worked, LoadForMail(c, l)  PROVE Reads(c)
  BY <1>1, LeadAssumption, LoadsAlone
  DEF LeadTypeOK, LoadForMail, Loads, Reads, HasRead
<1>2. ASSUME QuotedByMail(c)  PROVE Writes(c, Quoted)
  BY <1>2, DoneAlone DEF QuotedByMail, Writes, Done
<1>3. QED
  BY <1>1, <1>2, Named, Zenon DEF Mails

LEMMA ShelvesShape ==
    ASSUME LeadTypeOK, NEW c \in Clerk, Shelves(c)
    PROVE  \/ \E s \in Stage : Writes(c, s)
           \/ Quiet(c) \/ Merge(c)
           \/ \E l, k \in Lead : LoadForMerge(c, l, k)
<1>1. ASSUME Archive(c) \/ Unarchive(c) \/ Bin(c)  PROVE Quiet(c)
  BY <1>1, DoneAlone DEF Archive, Unarchive, Bin, Quiet, Done
<1>2. ASSUME Restore(c)  PROVE Writes(c, Opportunity)
  BY <1>2, DoneAlone DEF Restore, Writes, Done
<1>3. ASSUME Purge(c)  PROVE Writes(c, "Lost")
  BY <1>3, DoneAlone DEF Purge, Writes, Done
<1>4. QED
  BY <1>1, <1>2, <1>3, Named, Zenon DEF Shelves

-----------------------------------------------------------------------------
(* What a step may touch: the request it is a step of, and the leads that  *)
(* request is about; and anybody may tick off a task.                       *)

Touches(c) == Leads(c) \cup Leads(c)'

Own(c) ==
    /\ OthersWait(c)
    /\ \A l \in Lead \ Touches(c) :
          /\ stage'[l] = stage[l]
          /\ \A k \in Duty : tasks'[l][k] <= tasks[l][k]

LEMMA InItsLeads ==
    ASSUME LeadTypeOK, NEW c \in Clerk, step[c] # "idle"
    PROVE  row[c] \in Lead /\ row[c] \in Leads(c)
BY LeadAssumption DEF LeadTypeOK, Leads

\* Leads whose tasks are left alone or fewer.
LEMMA SameTasks ==
    ASSUME LeadTypeOK, NEW l \in Lead, tasks'[l] = tasks[l]
    PROVE  \A k \in Duty : tasks'[l][k] <= tasks[l][k]
<1>1. \A k \in Duty : tasks[l][k] \in Nat
  BY DEF LeadTypeOK
<1>2. QED
  BY <1>1

LEMMA WritesOwn ==
    ASSUME LeadTypeOK, NEW c \in Clerk, NEW s \in Stage, Writes(c, s)
    PROVE  Own(c)
<1>1. row[c] \in Lead /\ row[c] \in Leads(c)
  BY InItsLeads DEF Writes
<1>2. \A l \in Lead \ {row[c]} : stage'[l] = stage[l] /\ tasks'[l] = tasks[l]
  BY <1>1 DEF LeadTypeOK, Writes, Sets, Logs, Enters, KeepsTasks, SweepsTasks
<1>3. QED
  BY <1>1, <1>2, SameTasks DEF Own, Touches, Writes

LEMMA LeavesOwn ==
    ASSUME LeadTypeOK, NEW c \in Clerk, OthersWait(c),
           stage' = stage, tasks' = tasks
    PROVE  Own(c)
BY SameTasks DEF Own

LEMMA HookOwn ==
    ASSUME LeadTypeOK, NEW c \in Clerk, RunHook(c)
    PROVE  Own(c)
<1>1. row[c] \in Lead /\ row[c] \in Leads(c)
  BY InItsLeads DEF RunHook
<1>2. \A l \in Lead \ {row[c]} : stage'[l] = stage[l] /\ tasks'[l] = tasks[l]
  BY <1>1 DEF LeadTypeOK, RunHook, columns
<1>3. OthersWait(c)
  BY DoneAlone DEF RunHook
<1>4. QED
  BY <1>1, <1>2, <1>3, SameTasks DEF Own, Touches

LEMMA TaskDoneOwn ==
    ASSUME LeadTypeOK, NEW c \in Clerk, NEW l \in Lead, NEW k \in Duty,
           TaskDone(c, l, k)
    PROVE  Own(c)
<1>1. UNCHANGED <<stage, step, row, other, seen>>
  BY DEF TaskDone, columns, requests
<1>2. ASSUME NEW m \in Lead, NEW j \in Duty
      PROVE  tasks'[m][j] <= tasks[m][j]
  <2>1. tasks[m][j] \in Nat
    BY DEF LeadTypeOK
  <2>2. tasks'[m][j] = IF m = l /\ j = k THEN tasks[m][j] - 1 ELSE tasks[m][j]
    BY DEF LeadTypeOK, TaskDone
  <2>3. QED
    BY <2>1, <2>2
<1>3. QED
  BY <1>1, <1>2 DEF Own, OthersWait

LEMMA ReassignOwn ==
    ASSUME LeadTypeOK, NEW c \in Clerk, NEW l \in Lead, NEW t \in Team,
           Reassign(c, l, t)
    PROVE  Own(c)
<1>1. OthersWait(c)
  BY DEF Reassign, requests, OthersWait
<1>2. QED
  BY <1>1, LeavesOwn DEF Reassign

LEMMA CreateOwn ==
    ASSUME LeadTypeOK, NEW c \in Clerk, NEW l \in Lead, NEW s \in Stage,
           Create(c, l, s)
    PROVE  Own(c)
<1>1. row'[c] = l /\ l \in Leads(c)'
  BY LeadAssumption DEF LeadTypeOK, Create, Leads
<1>2. \A m \in Lead \ {l} : stage'[m] = stage[m] /\ tasks'[m] = tasks[m]
  BY DEF LeadTypeOK, Create, Enters
<1>3. OthersWait(c)
  BY DEF LeadTypeOK, Create, OthersWait
<1>4. QED
  BY <1>1, <1>2, <1>3, SameTasks DEF Own, Touches

LEMMA MailOwn ==
    ASSUME LeadTypeOK, NEW c \in Clerk, NEW quotation \in BOOLEAN,
           MailReopens(c, quotation)
    PROVE  Own(c)
<1>1. row[c] \in Lead /\ row[c] \in Leads(c)
  BY InItsLeads DEF MailReopens
<1>2. \A l \in Lead \ {row[c]} : stage'[l] = stage[l] /\ tasks'[l] = tasks[l]
  BY <1>1 DEF LeadTypeOK, MailReopens, Enters, KeepsTasks
<1>3. OthersWait(c)
  BY DoneAlone DEF MailReopens
<1>4. QED
  BY <1>1, <1>2, <1>3, SameTasks DEF Own, Touches

LEMMA MergeOwn ==
    ASSUME LeadTypeOK, NEW c \in Clerk, Merge(c)
    PROVE  Own(c)
<1>1. row[c] \in Lead /\ row[c] \in Leads(c)
  BY InItsLeads DEF Merge
<1>2. \A l \in Lead \ {row[c]} : stage'[l] = stage[l] /\ tasks'[l] = tasks[l]
  BY <1>1 DEF LeadTypeOK, Merge, Enters, KeepsTasks
<1>3. OthersWait(c)
  BY DoneAlone DEF Merge
<1>4. QED
  BY <1>1, <1>2, <1>3, SameTasks DEF Own, Touches

LEMMA LoadForMergeOwn ==
    ASSUME LeadTypeOK, NEW c \in Clerk, NEW l \in Lead, NEW k \in Lead,
           LoadForMerge(c, l, k)
    PROVE  /\ Own(c)
           /\ step' = [step EXCEPT ![c] = "merging"]
           /\ UNCHANGED <<columns, mark, tasks, history>>
           /\ row'[c] = l /\ other'[c] = k /\ seen'[c] = Stored(l)
<1>1. /\ step' = [step EXCEPT ![c] = "merging"]
      /\ UNCHANGED <<columns, mark, tasks, history>>
      /\ row'[c] = l /\ other'[c] = k /\ seen'[c] = Stored(l)
  BY DEF LeadTypeOK, LoadForMerge, Loads
<1>2. OthersWait(c)
  BY LoadsAlone DEF LoadForMerge
<1>3. QED
  BY <1>1, <1>2, LeavesOwn DEF columns

\* Every step is of one of a few shapes, and touches what it may.
LEMMA EveryStep ==
    ASSUME LeadTypeOK, NEW c \in Clerk,
           Screens(c) \/ Doors(c) \/ Mails(c) \/ Shelves(c)
    PROVE  /\ Own(c)
           /\ \/ \E s \in Stage : Writes(c, s)
              \/ Quiet(c) \/ Reads(c) \/ RunHook(c) \/ Merge(c)
              \/ \E l \in Lead, k \in Duty : TaskDone(c, l, k)
              \/ \E l \in Lead, t \in Team : Reassign(c, l, t)
              \/ \E l \in Lead, s \in Stage : Create(c, l, s)
              \/ \E quotation \in BOOLEAN : MailReopens(c, quotation)
              \/ \E l, k \in Lead : LoadForMerge(c, l, k)
<1>1. \/ \E s \in Stage : Writes(c, s)
      \/ Quiet(c) \/ Reads(c) \/ RunHook(c) \/ Merge(c)
      \/ \E l \in Lead, k \in Duty : TaskDone(c, l, k)
      \/ \E l \in Lead, t \in Team : Reassign(c, l, t)
      \/ \E l \in Lead, s \in Stage : Create(c, l, s)
      \/ \E quotation \in BOOLEAN : MailReopens(c, quotation)
      \/ \E l, k \in Lead : LoadForMerge(c, l, k)
  <2>1. CASE Screens(c)
    BY <2>1, ScreensShape, Zenon
  <2>2. CASE Doors(c)
    BY <2>2, DoorsShape, Zenon
  <2>3. CASE Mails(c)
    BY <2>3, MailsShape, Zenon
  <2>4. CASE Shelves(c)
    BY <2>4, ShelvesShape, Zenon
  <2>5. QED
    BY <2>1, <2>2, <2>3, <2>4
<1>2. ASSUME Quiet(c) \/ Reads(c)  PROVE Own(c)
  BY <1>2, LeavesOwn DEF Quiet, Reads, columns
<1>3. QED
  BY ZenonT(60), <1>1, <1>2, WritesOwn, HookOwn, MergeOwn, TaskDoneOwn, ReassignOwn,
     CreateOwn, MailOwn, LoadForMergeOwn

\* What the other requests read stays true.
LEMMA OthersStayFresh ==
    ASSUME ApartInv, LeadTypeOK', LeadsApart', NEW c \in Clerk, Own(c),
           NEW d \in Clerk \ {c}
    PROVE  Fresh(d)'
<1> SUFFICES ASSUME step'[d] \in HasRead
             PROVE  /\ seen'[d].stage = stage'[row'[d]]
                    /\ \A k \in Duty : tasks'[row'[d]][k] <= seen'[d].tasks[k]
  BY DEF Fresh
<1>1. /\ step[d] \in HasRead /\ row'[d] = row[d] /\ seen'[d] = seen[d]
      /\ Leads(d)' = Leads(d)
  BY DEF Own, OthersWait, Leads
<1>2. row[d] \in Lead /\ row[d] \in Leads(d)
  BY <1>1, InItsLeads DEF ApartInv, HasRead
<1>3. row[d] \notin Touches(c)
  BY <1>1, <1>2 DEF ApartInv, LeadsApart, Touches
<1>4. /\ seen[d].stage = stage[row[d]]
      /\ \A k \in Duty : tasks[row[d]][k] <= seen[d].tasks[k]
  BY <1>1 DEF ApartInv, Fresh
<1>5. /\ stage'[row[d]] = stage[row[d]]
      /\ \A k \in Duty : tasks'[row[d]][k] <= tasks[row[d]][k]
  BY <1>2, <1>3 DEF Own
<1>6. \A k \in Duty : /\ tasks'[row[d]][k] \in Nat /\ tasks[row[d]][k] \in Nat
                      /\ seen[d].tasks[k] \in Nat
  BY <1>2 DEF ApartInv, LeadTypeOK, Row
<1>7. ASSUME NEW k \in Duty  PROVE tasks'[row[d]][k] <= seen[d].tasks[k]
  BY <1>4, <1>5, <1>6
<1>8. QED
  BY <1>1, <1>4, <1>5, <1>7

LEMMA EndedFresh ==
    ASSUME LeadTypeOK, NEW c \in Clerk, NEW next \in Ended,
           step' = [step EXCEPT ![c] = next]
    PROVE  Fresh(c)'
BY DEF LeadTypeOK, Fresh, Ended, HasRead

LEMMA ReadsFresh ==
    ASSUME LeadTypeOK, NEW c \in Clerk, NEW l \in Lead,
           row'[c] = l, seen'[c] = Stored(l), UNCHANGED <<stage, tasks>>
    PROVE  Fresh(c)'
<1>1. seen'[c].stage = stage[l] /\ seen'[c].tasks = tasks[l]
  BY DEF Stored
<1>2. \A k \in Duty : tasks[l][k] \in Nat
  BY DEF LeadTypeOK
<1>3. QED
  BY <1>1, <1>2 DEF Fresh

\* What a handler writes is the stage it was asked for: it read the row's own.
LEMMA WritesEnter ==
    ASSUME LeadTypeOK, \A d \in Clerk : Fresh(d), NEW c \in Clerk,
           NEW s \in Stage, Writes(c, s)
    PROVE  /\ row[c] \in Lead
           /\ Enters(row[c], s)
           /\ seen[c].stage = stage[row[c]]
<1>1. row[c] \in Lead
  BY DEF LeadTypeOK, Writes
<1>2. seen[c].stage = stage[row[c]]
  BY DEF Fresh, Writes, HasRead
<1>3. QED
  BY <1>1, <1>2 DEF Writes, Sets, Logs

LEMMA WritesKeepHistory ==
    ASSUME LeadTypeOK, \A d \in Clerk : Fresh(d), HistInv, NEW c \in Clerk,
           NEW s \in Stage, Writes(c, s)
    PROVE  HistInv'
<1> DEFINE l == row[c]
<1>1. /\ l \in Lead
      /\ Enters(l, s)
      /\ seen[c].stage = stage[l]
  BY WritesEnter
<1>2. s \in Over \/ s \in Open
  BY DEF Stage
<1>3. ASSUME NEW m \in Lead
      PROVE  /\ stage'[m] \in Open => held'[m] = stage'[m]
             /\ told'[m] => /\ stage'[m] \in Over
                            /\ held'[m] \in Open
                            /\ mark'[m] = held'[m]
  <2>1. CASE m # l
    <3>1. /\ stage'[m] = stage[m] /\ held'[m] = held[m]
          /\ told'[m] = told[m] /\ mark'[m] = mark[m]
      BY <1>1, <2>1 DEF LeadTypeOK, Writes, Sets, Logs, Enters
    <3>2. QED
      BY <3>1 DEF HistInv
  <2>2. CASE m = l
    <3>1. /\ stage'[l] = s
          /\ held'[l] = IF s \in Open THEN s ELSE held[l]
      BY <1>1 DEF LeadTypeOK, Enters
    <3>2. CASE Sets(c, s)
      BY <1>1, <1>2, <2>2, <3>1, <3>2 DEF LeadTypeOK, HistInv, Sets
    <3>3. CASE Logs(c, s)
      BY ZenonT(60), <1>1, <1>2, <2>2, <3>1, <3>3, LeadAssumption
      DEF LeadTypeOK, HistInv, Logs, Marked
    <3>4. QED
      BY <3>2, <3>3 DEF Writes
  <2>3. QED
    BY <2>1, <2>2
<1>4. QED
  BY <1>3 DEF HistInv

LEMMA WritesKeepTasks ==
    ASSUME LeadTypeOK, \A d \in Clerk : Fresh(d), TaskInv, NEW c \in Clerk,
           NEW s \in Stage, Writes(c, s)
    PROVE  TaskInv'
<1> DEFINE l == row[c]
<1>1. l \in Lead /\ stage' = [stage EXCEPT ![l] = s]
  BY WritesEnter DEF Enters
<1>2. s \in Over \/ s \in Open
  BY DEF Stage
<1>3. CASE KeepsTasks(c)
  <2>1. tasks' = tasks /\ \A m \in Lead : swept'[m] => swept[m]
    BY <1>3 DEF LeadTypeOK, KeepsTasks
  <2>2. swept'[l] => s \notin Open
    BY <1>1, <1>3 DEF LeadTypeOK, KeepsTasks
  <2>3. QED
    BY <1>1, <1>2, <2>1, <2>2 DEF LeadTypeOK, TaskInv
<1>4. CASE s \in Over /\ SweepsTasks(c)
  <2>1. \A m \in Lead \ {l} : /\ stage'[m] = stage[m]
                              /\ tasks'[m] = tasks[m] /\ swept'[m] = swept[m]
    BY <1>1, <1>4 DEF LeadTypeOK, SweepsTasks
  <2>2. stage'[l] = s /\ tasks'[l] = NoTasks
    BY <1>1, <1>4 DEF LeadTypeOK, SweepsTasks
  <2>3. QED
    BY <1>4, <2>1, <2>2 DEF TaskInv, NoTasks
<1>5. QED
  BY <1>3, <1>4 DEF Writes

\* The task engine saw the stage, and no task fewer than there are.
LEMMA HookKeeps ==
    ASSUME LeadTypeOK, \A d \in Clerk : Fresh(d), HistInv, TaskInv,
           NEW c \in Clerk, RunHook(c)
    PROVE  HistInv' /\ TaskInv'
<1> DEFINE l == row[c]
<1>1. /\ l \in Lead
      /\ seen[c].stage = stage[l]
      /\ \A k \in Duty : tasks[l][k] <= seen[c].tasks[k]
      /\ seen[c] \in Row
  BY DEF LeadTypeOK, Fresh, RunHook, HasRead
<1>2. HistInv'
  BY DEF RunHook, columns, HistInv
<1>3. /\ stage' = stage
      /\ \A m \in Lead \ {l} : tasks'[m] = tasks[m] /\ swept'[m] = swept[m]
  BY <1>1 DEF LeadTypeOK, RunHook, columns
<1>4. CASE stage[l] \in Over
  <2>1. tasks'[l] = NoTasks
    BY <1>1, <1>4 DEF LeadTypeOK, RunHook, IsTerminal
  <2>2. \A k \in Duty : tasks'[l][k] <= 1
    BY <2>1 DEF NoTasks
  <2>3. QED
    BY <1>2, <1>3, <1>4, <2>1, <2>2 DEF TaskInv
<1>5. CASE stage[l] \notin Over
  <2>1. swept'[l] = swept[l]
    BY <1>1, <1>5 DEF LeadTypeOK, RunHook
  <2>2. ASSUME NEW k \in Duty
        PROVE  tasks'[l][k] <= 1
    <3>1. tasks'[l] = [j \in Duty |->
                   (IF j \in Completed(c) THEN Less(tasks[l][j], seen[c].tasks[j])
                                          ELSE tasks[l][j])
                   + (IF j \in Raised(c) THEN 1 ELSE 0)]
      BY <1>1, <1>5 DEF LeadTypeOK, RunHook, IsTerminal
    <3>2. /\ tasks[l][k] \in Nat /\ tasks[l][k] <= 1
          /\ seen[c].tasks[k] \in Nat /\ tasks[l][k] <= seen[c].tasks[k]
      BY <1>1 DEF LeadTypeOK, TaskInv, Row
    <3>3. Less(tasks[l][k], seen[c].tasks[k]) = 0
      BY <3>2 DEF Less
    <3>4. k \in Raised(c) /\ k \notin Completed(c) => tasks[l][k] = 0
      BY <3>2, <1>1 DEF Raised
    <3>5. CASE k \in Completed(c)
      BY <3>1, <3>3, <3>5
    <3>6. CASE k \notin Completed(c)
      BY <3>1, <3>2, <3>4, <3>6
    <3>7. QED
      BY <3>5, <3>6
  <2>3. ~swept'[l]
    BY <1>1, <1>5, <2>1 DEF TaskInv
  <2>4. QED
    BY <1>2, <1>3, <2>2, <2>3 DEF TaskInv
<1>6. QED
  BY <1>4, <1>5

\* Ticking a task off, also while the task engine is at work on the lead.
LEMMA TaskDoneKeeps ==
    ASSUME LeadTypeOK, HistInv, TaskInv, NEW c \in Clerk, NEW l \in Lead,
           NEW k \in Duty, TaskDone(c, l, k)
    PROVE  HistInv' /\ TaskInv'
<1>1. HistInv'
  BY DEF TaskDone, columns, history, HistInv
<1>2. tasks[l][k] \in Nat /\ tasks[l][k] > 0 /\ tasks[l][k] <= 1
  BY DEF LeadTypeOK, TaskInv, TaskDone
<1>3. tasks[l] # NoTasks
  BY <1>2 DEF NoTasks
<1>4. ~swept[l]
  BY <1>3 DEF TaskInv
<1>5. /\ \A m \in Lead \ {l} : tasks'[m] = tasks[m]
      /\ \A j \in Duty \ {k} : tasks'[l][j] = tasks[l][j]
      /\ tasks'[l][k] = tasks[l][k] - 1
      /\ UNCHANGED <<stage, swept>>
  BY DEF LeadTypeOK, TaskDone, columns, history
<1>6. tasks'[l][k] <= 1
  BY <1>2, <1>5
<1>7. TaskInv'
  BY <1>4, <1>5, <1>6 DEF TaskInv
<1>8. QED
  BY <1>1, <1>7

LEMMA CreateKeeps ==
    ASSUME LeadTypeOK, HistInv, TaskInv, NEW c \in Clerk, NEW l \in Lead,
           NEW s \in Stage, Create(c, l, s)
    PROVE  HistInv' /\ TaskInv'
<1>1. "absent" \notin Stage
  BY LeadAssumption DEF Stage, Over
<1>2. ~told[l] /\ ~swept[l]
  BY <1>1, LeadAssumption DEF Create, HistInv, TaskInv, Stage
<1>3. HistInv'
  BY <1>2 DEF LeadTypeOK, Create, Enters, HistInv
<1>4. TaskInv'
  BY <1>2 DEF LeadTypeOK, Create, Enters, TaskInv
<1>5. QED
  BY <1>3, <1>4

\* A lead that a mail reopens is in play again: there is nothing to tell of it.
LEMMA MailKeeps ==
    ASSUME LeadTypeOK, HistInv, TaskInv, NEW c \in Clerk,
           NEW quotation \in BOOLEAN, MailReopens(c, quotation)
    PROVE  HistInv' /\ TaskInv'
<1> DEFINE l == row[c]
           t == IF quotation THEN Quoted ELSE BackTo(l)
<1>1. l \in Lead
  BY DEF LeadTypeOK, MailReopens
<1>2. t \in Open
  BY <1>1, LeadAssumption DEF LeadTypeOK, BackTo
<1>3. /\ stage' = [stage EXCEPT ![l] = t]
      /\ held' = [held EXCEPT ![l] = t]
      /\ told' = [told EXCEPT ![l] = FALSE]
      /\ \A m \in Lead \ {l} : mark'[m] = mark[m]
  BY <1>1, <1>2 DEF LeadTypeOK, MailReopens, Enters
<1>4. HistInv'
  BY <1>1, <1>3 DEF LeadTypeOK, HistInv
<1>5. /\ tasks' = tasks
      /\ \A m \in Lead \ {l} : swept'[m] = swept[m]
      /\ ~swept'[l]
  BY ZenonT(60), <1>1, <1>2, <1>3 DEF LeadTypeOK, MailReopens, KeepsTasks
<1>6. TaskInv'
  BY <1>1, <1>3, <1>5 DEF LeadTypeOK, TaskInv
<1>7. QED
  BY <1>4, <1>6

LEMMA MergeKeeps ==
    ASSUME LeadTypeOK, \A d \in Clerk : Fresh(d), HistInv, TaskInv,
           NEW c \in Clerk, Merge(c)
    PROVE  HistInv' /\ TaskInv'
<1> DEFINE l == row[c]
           k == other[c]
<1>1. l \in Lead /\ k \in Lead
  BY DEF LeadTypeOK, Merge
<1>2. /\ \/ stage' = stage /\ held' \in {held, [held EXCEPT ![l] = stage[l]]}
         \/ stage' = [stage EXCEPT ![l] = "Lost"] /\ held' = held
      /\ stage[l] \in Open => stage'[l] = "Lost"
  <2>1. "Lost" \notin Open
    BY LeadAssumption DEF Over
  <2>2. seen[c].stage = stage[l]
    BY DEF Fresh, Merge, HasRead
  <2>3. QED
    BY ZenonT(60), <1>1, <2>1, <2>2 DEF LeadTypeOK, Merge, Enters
<1>3. /\ told' = [told EXCEPT ![l] = FALSE, ![k] = FALSE]
      /\ \A m \in Lead \ {l, k} : mark'[m] = mark[m]
  BY <1>1 DEF LeadTypeOK, Merge
<1>4. "Lost" \in Over /\ "Lost" \notin Open
  BY Named, LeadAssumption
<1>5. HistInv'
  BY <1>1, <1>2, <1>3, <1>4 DEF LeadTypeOK, HistInv
<1>6. /\ tasks' = tasks
      /\ \A m \in Lead : swept'[m] => swept[m]
  BY <1>1 DEF LeadTypeOK, Merge, KeepsTasks
<1>7. TaskInv'
  <2>1. \A m \in Lead : stage'[m] \in {stage[m], "Lost"}
    BY <1>1, <1>2 DEF LeadTypeOK
  <2>2. QED
    BY <1>4, <1>6, <2>1 DEF TaskInv, NoTasks
<1>8. QED
  BY <1>5, <1>7

-----------------------------------------------------------------------------
(* Requests that keep off each other's leads: the invariant, and what       *)
(* follows from it                                                          *)

LEMMA ApartInitially == Init => ApartInv
<1> SUFFICES ASSUME Init  PROVE ApartInv
  OBVIOUS
<1>1. LeadTypeOK
  BY TypesInitially
<1>2. LeadsApart /\ \A c \in Clerk : Fresh(c)
  BY DEF Init, LeadsApart, Leads, Fresh, HasRead
<1>3. HistInv
  BY LeadAssumption DEF Init, HistInv
<1>4. TaskInv
  BY DEF Init, TaskInv, NoTasks
<1>5. QED
  BY <1>1, <1>2, <1>3, <1>4 DEF ApartInv

LEMMA ApartInductive ==
    ASSUME ApartInv, [Next /\ LeadsApart']_vars
    PROVE  ApartInv'
<1>1. LeadTypeOK /\ LeadTypeOK'
  BY TypesInductive DEF ApartInv
<1>2. ASSUME NEW c \in Clerk, LeadsApart', Own(c), Fresh(c)',
             HistInv' /\ TaskInv'
      PROVE  ApartInv'
  <2>1. \A d \in Clerk \ {c} : Fresh(d)'
    BY <1>1, <1>2, OthersStayFresh
  <2>2. QED
    BY <1>1, <1>2, <2>1 DEF ApartInv
<1>3. ASSUME NEW c \in Clerk, LeadsApart',
             Screens(c) \/ Doors(c) \/ Mails(c) \/ Shelves(c)
      PROVE  ApartInv'
  <2>1. Own(c)
    BY <1>1, <1>3, EveryStep
  <2>2. SUFFICES Fresh(c)' /\ HistInv' /\ TaskInv'
    BY <1>2, <1>3, <2>1
  <2>3. ASSUME NEW s \in Stage, Writes(c, s)
        PROVE  Fresh(c)' /\ HistInv' /\ TaskInv'
    <3>1. Fresh(c)'
      BY <1>1, <2>3, EndedFresh DEF Writes, Ended
    <3>2. QED
      BY <2>3, <3>1, WritesKeepHistory, WritesKeepTasks DEF ApartInv
  <2>4. ASSUME Quiet(c)  PROVE Fresh(c)' /\ HistInv' /\ TaskInv'
    <3>1. Fresh(c)'
      BY <1>1, <2>4, EndedFresh DEF Quiet, Ended
    <3>2. QED
      BY <2>4, <3>1 DEF ApartInv, Quiet, history, HistInv, TaskInv
  <2>5. ASSUME UNCHANGED <<columns, mark, tasks, history>>, row'[c] \in Lead,
               seen'[c] = Stored(row'[c])
        PROVE  Fresh(c)' /\ HistInv' /\ TaskInv'
    <3>1. Fresh(c)'
      BY <1>1, <2>5, ReadsFresh DEF columns
    <3>2. QED
      BY <2>5, <3>1 DEF ApartInv, columns, history, HistInv, TaskInv
  <2>6. ASSUME Reads(c)  PROVE Fresh(c)' /\ HistInv' /\ TaskInv'
    <3>1. seen'[c] = Stored(row'[c])
      BY <1>1, <2>6 DEF Reads, LeadTypeOK
    <3>2. QED
      BY <2>5, <2>6, <3>1 DEF Reads
  <2>7. ASSUME RunHook(c)  PROVE Fresh(c)' /\ HistInv' /\ TaskInv'
    <3>1. Fresh(c)'
      BY <1>1, <2>7, EndedFresh DEF RunHook, Done, Ended
    <3>2. QED
      BY <2>7, <3>1, HookKeeps DEF ApartInv
  <2>8. ASSUME Merge(c)  PROVE Fresh(c)' /\ HistInv' /\ TaskInv'
    <3>1. Fresh(c)'
      BY <1>1, <2>8, EndedFresh DEF Merge, Done, Ended
    <3>2. QED
      BY <2>8, <3>1, MergeKeeps DEF ApartInv
  <2>9. ASSUME NEW l \in Lead, NEW k \in Duty, TaskDone(c, l, k)
        PROVE  Fresh(c)' /\ HistInv' /\ TaskInv'
    <3>1. Fresh(c)'
      BY <2>9 DEF TaskDone, requests, Fresh, HasRead
    <3>2. QED
      BY <2>9, <3>1, TaskDoneKeeps DEF ApartInv
  <2>10. ASSUME NEW l \in Lead, NEW s \in Stage, Create(c, l, s)
         PROVE  Fresh(c)' /\ HistInv' /\ TaskInv'
    <3>1. Fresh(c)'
      BY <1>1, <2>10, EndedFresh DEF Create, Ended
    <3>2. QED
      BY <2>10, <3>1, CreateKeeps DEF ApartInv
  <2>11. ASSUME NEW quotation \in BOOLEAN, MailReopens(c, quotation)
         PROVE  Fresh(c)' /\ HistInv' /\ TaskInv'
    <3>1. Fresh(c)'
      BY <1>1, <2>11, EndedFresh DEF MailReopens, Done, Ended
    <3>2. QED
      BY <2>11, <3>1, MailKeeps DEF ApartInv
  <2>12. ASSUME NEW l \in Lead, NEW k \in Lead, LoadForMerge(c, l, k)
         PROVE  Fresh(c)' /\ HistInv' /\ TaskInv'
    BY <1>1, <2>5, <2>12, LoadForMergeOwn
  <2>13. ASSUME NEW l \in Lead, NEW t \in Team, Reassign(c, l, t)
         PROVE  Fresh(c)' /\ HistInv' /\ TaskInv'
    <3>1. UNCHANGED <<stage, mark, tasks, requests, history>>
      BY <2>13 DEF Reassign
    <3>2. Fresh(c)'
      BY <2>13, <3>1 DEF Reassign, requests, Fresh, HasRead
    <3>3. QED
      BY <3>1, <3>2 DEF ApartInv, history, HistInv, TaskInv
  <2>14. QED
    BY <1>1, <1>3, <2>3, <2>4, <2>6, <2>7, <2>8, <2>9, <2>10, <2>11, <2>12,
       <2>13, EveryStep, Zenon
<1>4. CASE UNCHANGED vars
  BY <1>1, <1>4
  DEF vars, columns, requests, history, ApartInv, LeadsApart, Leads, Fresh,
      HistInv, TaskInv
<1>5. QED
  BY <1>3, <1>4 DEF Next

LEMMA ApartInvAlways == ApartSpec => []ApartInv
<1>1. Init => ApartInv
  BY ApartInitially
<1>2. ApartInv /\ [Next /\ LeadsApart']_vars => ApartInv'
  BY ApartInductive
<1>3. QED
  BY <1>1, <1>2, PTL DEF ApartSpec

\* Once its tasks were closed, a closed lead has none, with any number of
\* workers whose requests keep off each other's leads.
THEOREM NoWorkOnAClosedLeadWhenApart == ApartSpec => []NoWorkOnAClosedLead
<1>1. ApartInv => NoWorkOnAClosedLead
  BY DEF ApartInv, TaskInv, NoWorkOnAClosedLead
<1>2. QED
  BY <1>1, ApartInvAlways, PTL

\* Nobody has two open tasks of one definition and one lead, whomever the lead
\* is given to in between, and though tasks are ticked off and the lead given
\* away while the engine is at work on it.
THEOREM OneTaskPerOwnerWhenApart == ApartSpec => []OneTaskPerOwner
<1>1. ApartInv => OneTaskPerOwner
  BY DEF ApartInv, TaskInv, OneTaskPerOwner
<1>2. QED
  BY <1>1, ApartInvAlways, PTL

\* Where a lead whose closing was told is after a step, while a mail about it
\* is handled.
LEMMA MailStep ==
    ASSUME ApartInv, Next, LeadsApart', NEW c \in Clerk, NEW l \in Lead,
           step[c] = "mail", row[c] = l, stage[l] \in Over, told[l]
    PROVE  stage'[l] \in {stage[l], held[l], Quoted}
<1>1. LeadTypeOK /\ \A d \in Clerk : Fresh(d)
  BY DEF ApartInv
<1>2. PICK d \in Clerk : Screens(d) \/ Doors(d) \/ Mails(d) \/ Shelves(d)
  BY DEF Next
<1>3. CASE d # c
  <2>1. Own(d)
    BY <1>1, <1>2, EveryStep
  <2>2. l \in Leads(c) /\ Leads(c)' = Leads(c)
    BY <1>1, <1>3, <2>1, InItsLeads DEF Own, OthersWait, Leads
  <2>3. l \notin Touches(d)
    BY <1>3, <2>2 DEF ApartInv, LeadsApart, Touches
  <2>4. QED
    BY <2>1, <2>3 DEF Own
<1>4. CASE d = c
  <2>1. ASSUME NEW s \in Stage, Writes(c, s)
        PROVE  stage'[l] = Quoted
    BY <1>1, <2>1, WritesEnter DEF LeadTypeOK, Writes, Enters
  <2>2. ASSUME NEW quotation \in BOOLEAN, MailReopens(c, quotation)
        PROVE  stage'[l] \in {held[l], Quoted}
    <3>1. BackTo(l) = held[l]
      BY LeadAssumption DEF ApartInv, HistInv, BackTo, Stage
    <3>2. QED
      BY <1>1, <2>2, <3>1 DEF LeadTypeOK, MailReopens, Enters
  <2>3. ASSUME Quiet(c) \/ Reads(c)  PROVE stage' = stage
    BY <2>3 DEF Quiet, Reads, columns
  <2>4. /\ ~RunHook(c) /\ ~Merge(c)
        /\ \A m \in Lead, s \in Stage : ~Create(c, m, s)
        /\ \A m \in Lead, k \in Duty : ~TaskDone(c, m, k)
        /\ \A m \in Lead, t \in Team : ~Reassign(c, m, t)
        /\ \A m, k \in Lead : ~LoadForMerge(c, m, k)
    BY DEF RunHook, Merge, Create, TaskDone, Reassign, LoadForMerge, Loads
  <2>5. QED
    BY <1>1, <1>2, <1>4, <2>1, <2>2, <2>3, <2>4, EveryStep
<1>5. QED
  BY <1>3, <1>4

\* When the history tells how a lead left play, a mail that reopens it puts it
\* back where it was, with any number of workers whose requests keep off each
\* other's leads.
THEOREM ReopensWhereItWasWhenApart == ApartSpec => ReopensWhereItWas
<1>1. ASSUME ApartInv, [Next /\ LeadsApart']_vars
      PROVE  [\A c \in Clerk, l \in Lead :
                step[c] = "mail" /\ row[c] = l /\ stage[l] \in Over /\ told[l]
                    => stage'[l] \in {stage[l], held[l], Quoted}]_vars
  BY <1>1, MailStep
<1>2. QED
  BY <1>1, ApartInvAlways, PTL DEF ApartSpec, ReopensWhereItWas

-----------------------------------------------------------------------------
(* Merges that keep apart, whatever else overlaps *)

\* The keeper was not merged: it is the one that survives.
LEMMA MergeSpares ==
    ASSUME LeadTypeOK, SomebodySurvives, NEW c \in Clerk, Unmerged(c), Merge(c)
    PROVE  SomebodySurvives'
<1> DEFINE l == row[c]
           k == other[c]
<1>1. /\ l \in Lead /\ k \in Lead /\ l # k
      /\ merged[k] = None
      /\ merged' = [merged EXCEPT ![l] = k]
  BY DEF LeadTypeOK, Unmerged, Merge
<1>2. ASSUME NEW S \in (SUBSET Lead) \ {{}}
      PROVE  \E m \in S : merged'[m] \notin S
  <2>1. CASE l \notin S
    <3>1. PICK m \in S : merged[m] \notin S
      BY <1>2 DEF SomebodySurvives
    <3>2. merged'[m] = merged[m]
      BY <1>1, <2>1, <3>1 DEF LeadTypeOK
    <3>3. QED
      BY <3>1, <3>2
  <2>2. CASE l \in S /\ k \notin S
    BY <1>1, <2>2 DEF LeadTypeOK
  <2>3. CASE l \in S /\ k \in S
    <3>1. merged'[k] = None /\ None \notin S
      BY <1>1, LeadAssumption DEF LeadTypeOK
    <3>2. QED
      BY <2>3, <3>1
  <2>4. QED
    BY <2>1, <2>2, <2>3
<1>3. QED
  BY <1>2 DEF SomebodySurvives

LEMMA MergeInitially == Init => MergeInv
<1> SUFFICES ASSUME Init  PROVE MergeInv
  OBVIOUS
<1>1. LeadTypeOK
  BY TypesInitially
<1>2. MergesApart /\ \A c \in Clerk : Unmerged(c)
  BY DEF Init, MergesApart, Unmerged
<1>3. ASSUME NEW S \in (SUBSET Lead) \ {{}}
      PROVE  \E l \in S : merged[l] \notin S
  <2>1. PICK l : l \in S
    BY Zenon
  <2>2. merged[l] = None /\ None \notin S
    BY <2>1, LeadAssumption DEF Init
  <2>3. QED
    BY <2>1, <2>2
<1>4. QED
  BY <1>1, <1>2, <1>3 DEF MergeInv, SomebodySurvives

\* No other step writes that a lead is merged, and none becomes a merge but by
\* looking at both leads.
LEMMA OthersMergeNothing ==
    ASSUME LeadTypeOK, NEW c \in Clerk,
           \/ \E s \in Stage : Writes(c, s)
           \/ Quiet(c) \/ Reads(c) \/ RunHook(c)
           \/ \E l \in Lead, k \in Duty : TaskDone(c, l, k)
           \/ \E l \in Lead, t \in Team : Reassign(c, l, t)
           \/ \E l \in Lead, s \in Stage : Create(c, l, s)
           \/ \E quotation \in BOOLEAN : MailReopens(c, quotation)
    PROVE  merged' = merged /\ step'[c] # "merging"
<1>1. ASSUME NEW s \in Stage, Writes(c, s)
      PROVE  merged' = merged /\ step'[c] # "merging"
  BY <1>1 DEF LeadTypeOK, Writes
<1>2. ASSUME Quiet(c) \/ Reads(c)
      PROVE  merged' = merged /\ step'[c] # "merging"
  BY <1>2 DEF LeadTypeOK, Quiet, Reads, columns, HasRead
<1>3. ASSUME RunHook(c)
      PROVE  merged' = merged /\ step'[c] # "merging"
  BY <1>3 DEF LeadTypeOK, RunHook, Done, columns
<1>4. ASSUME NEW l \in Lead, NEW k \in Duty, TaskDone(c, l, k)
      PROVE  merged' = merged /\ step'[c] # "merging"
  BY <1>4 DEF TaskDone, columns, requests
<1>5. ASSUME NEW l \in Lead, NEW s \in Stage, Create(c, l, s)
      PROVE  merged' = merged /\ step'[c] # "merging"
  BY <1>5 DEF LeadTypeOK, Create
<1>6. ASSUME NEW l \in Lead, NEW t \in Team, Reassign(c, l, t)
      PROVE  merged' = merged /\ step'[c] # "merging"
  BY <1>6 DEF LeadTypeOK, Reassign, requests
<1>7. ASSUME NEW quotation \in BOOLEAN, MailReopens(c, quotation)
      PROVE  merged' = merged /\ step'[c] # "merging"
  BY <1>7 DEF LeadTypeOK, MailReopens, Done
<1>8. QED
  BY <1>1, <1>2, <1>3, <1>4, <1>5, <1>6, <1>7

LEMMA MergeInductive ==
    ASSUME MergeInv, [Next /\ MergesApart']_vars
    PROVE  MergeInv'
<1>1. LeadTypeOK /\ LeadTypeOK'
  BY TypesInductive DEF MergeInv
<1>2. ASSUME NEW c \in Clerk, MergesApart', OthersWait(c), merged' = merged,
             Unmerged(c)'
      PROVE  MergeInv'
  <2>1. \A d \in Clerk \ {c} : Unmerged(d)'
    BY <1>2 DEF MergeInv, Unmerged, OthersWait
  <2>2. SomebodySurvives'
    BY <1>2 DEF MergeInv, SomebodySurvives
  <2>3. QED
    BY <1>1, <1>2, <2>1, <2>2 DEF MergeInv
<1>3. ASSUME NEW c \in Clerk, MergesApart', OthersWait(c), merged' = merged,
             step'[c] # "merging"
      PROVE  MergeInv'
  BY <1>2, <1>3 DEF Unmerged
<1>4. ASSUME NEW c \in Clerk, MergesApart', NEW l \in Lead, NEW k \in Lead,
             LoadForMerge(c, l, k)
      PROVE  MergeInv'
  <2>1. /\ OthersWait(c) /\ merged' = merged /\ row'[c] = l /\ other'[c] = k
    BY <1>1, <1>4, LoadForMergeOwn DEF Own, columns
  <2>2. Unmerged(c)'
    BY <1>4, <2>1 DEF LoadForMerge, Unmerged
  <2>3. QED
    BY <1>2, <1>4, <2>1, <2>2
<1>5. ASSUME NEW c \in Clerk, MergesApart', Merge(c)
      PROVE  MergeInv'
  <2>0. OthersWait(c)
    BY <1>1, <1>5, MergeOwn DEF Own
  <2>1. OthersWait(c) /\ step[c] = "merging" /\ step'[c] = "idle"
    BY <1>1, <1>5, <2>0 DEF Merge, Done, LeadTypeOK
  <2>2. row[c] \in Lead /\ merged' = [merged EXCEPT ![row[c]] = other[c]]
    BY <1>1, <1>5 DEF Merge, LeadTypeOK
  <2>3. ASSUME NEW d \in Clerk \ {c}, step'[d] = "merging"
        PROVE  /\ row'[d] # other'[d]
               /\ merged'[row'[d]] = None /\ merged'[other'[d]] = None
    <3>1. step[d] = "merging" /\ row'[d] = row[d] /\ other'[d] = other[d]
      BY <2>1, <2>3 DEF OthersWait
    <3>2. row[d] \in Lead /\ other[d] \in Lead
      BY <1>1, <3>1 DEF LeadTypeOK
    <3>3. row[c] # row[d] /\ row[c] # other[d]
      BY <2>1, <3>1, <3>2, LeadAssumption DEF MergeInv, MergesApart, Leads
    <3>4. QED
      BY <1>1, <2>2, <3>1, <3>2, <3>3 DEF MergeInv, Unmerged, LeadTypeOK
  <2>4. \A d \in Clerk : Unmerged(d)'
    BY <2>1, <2>3 DEF Unmerged
  <2>5. SomebodySurvives'
    BY <1>1, <1>5, MergeSpares DEF MergeInv
  <2>6. QED
    BY <1>1, <1>5, <2>4, <2>5 DEF MergeInv
<1>6. ASSUME NEW c \in Clerk, MergesApart',
             Screens(c) \/ Doors(c) \/ Mails(c) \/ Shelves(c)
      PROVE  MergeInv'
  <2>1. OthersWait(c)
    BY <1>1, <1>6, EveryStep DEF Own
  <2>2. CASE Merge(c) \/ \E l, k \in Lead : LoadForMerge(c, l, k)
    BY <1>4, <1>5, <1>6, <2>2
  <2>3. CASE ~(Merge(c) \/ \E l, k \in Lead : LoadForMerge(c, l, k))
    <3>1. merged' = merged /\ step'[c] # "merging"
      BY <1>1, <1>6, <2>3, EveryStep, OthersMergeNothing, Zenon
    <3>2. QED
      BY <1>3, <1>6, <2>1, <3>1
  <2>4. QED
    BY <2>2, <2>3
<1>7. CASE UNCHANGED vars
  BY <1>1, <1>7
  DEF vars, columns, requests, MergeInv, MergesApart, Leads, Unmerged,
      SomebodySurvives
<1>8. QED
  BY <1>6, <1>7 DEF Next

\* Merging never runs in a circle, whatever is merged into what, in whatever
\* order and by however many workers, while no two merges at a time fold away
\* a lead of one another.
THEOREM SomebodySurvivesWhenMergesApart == MergeSpec => []SomebodySurvives
<1>1. MergeInv /\ [Next /\ MergesApart']_vars => MergeInv'
  BY MergeInductive
<1>2. MergeInv => SomebodySurvives
  BY DEF MergeInv
<1>3. QED
  BY <1>1, <1>2, MergeInitially, PTL DEF MergeSpec

-----------------------------------------------------------------------------
\* Requests that keep off each other's leads keep their merges apart.
THEOREM LeadsApartIsMergesApart == ApartSpec => MergeSpec
<1>1. ApartInv /\ [Next /\ LeadsApart']_vars => [Next /\ MergesApart']_vars
  <2> SUFFICES ASSUME ApartInv, Next, LeadsApart'  PROVE MergesApart'
    BY Zenon
  <2>1. LeadTypeOK'
    BY TypesInductive DEF ApartInv
  <2>2. QED
    BY <2>1, LeadAssumption DEF LeadTypeOK, LeadsApart, MergesApart, Leads
<1>2. QED
  BY <1>1, ApartInvAlways, PTL DEF ApartSpec, MergeSpec

\* One worker keeps apart from itself: the theorems hold of every behaviour
\* when one request is handled at a time.
THEOREM OneWorkerIsApart ==
    ASSUME \A c, d \in Clerk : c = d
    PROVE  Spec => ApartSpec
<1>1. [Next]_vars => [Next /\ LeadsApart']_vars
  BY DEF LeadsApart
<1>2. QED
  BY <1>1, PTL DEF Spec, ApartSpec
=============================================================================
