--------------------------- MODULE RfqChain_proofs ---------------------------
(***************************************************************************)
(* What holds of the chain for every set of steps, priorities and standard *)
(* times: the types for any number of overlapping requests; that it        *)
(* neither forks nor stalls, and that holds cost nobody, when no two       *)
(* requests about the RFQ overlap.                                         *)
(***************************************************************************)
EXTENDS RfqChain, TLAPS, WellFoundedInduction

USE ChainAssumption

Loaded == [priority : Priority \cup {None}, wanted : SUBSET Optional,
           held : Nat \cup {None}, task : [Slot -> Row]]

\* A hold that was seen has begun.
HoldsBegan ==
    /\ heldAt # None => heldAt <= now
    /\ \A i \in Slot : task[i].held # None => task[i].held <= now
    /\ \A c \in Clerk : seen[c].held # None => seen[c].held <= now
    /\ \A c \in Clerk : \A i \in Slot :
          seen[c].task[i].held # None => seen[c].task[i].held <= now

TypeInv == RfqTypeOK /\ HoldsBegan

LEMMA VerdictType ==
    ASSUME NEW standard \in Nat, NEW spent \in Nat
    PROVE  Verdict(standard, spent) \in Result
BY DEF Verdict, Result

\* Closing a row leaves it a row, and its hold alone.
LEMMA ClosedRow ==
    ASSUME NEW row \in Row, NEW result \in Result
    PROVE  /\ [row EXCEPT !.status = "closed", !.result = result] \in Row
           /\ [row EXCEPT !.status = "closed", !.result = result].held = row.held
BY DEF Row

LEMMA TickedRow ==
    ASSUME NEW row \in Row
    PROVE  /\ [row EXCEPT !.status = "closed"] \in Row
           /\ [row EXCEPT !.status = "closed"].held = row.held
BY DEF Row

LEMMA ElapsedType ==
    ASSUME NEW r \in Row, now \in Nat
    PROVE  Elapsed(r) \in Nat
BY DEF Elapsed, Row

LEMMA FreshType ==
    ASSUME NEW s \in Step, NEW p \in Priority, now \in Nat
    PROVE  Fresh(s, p) \in Row
BY DEF Fresh, Row, Result

LEMMA FreeType == Free \in Row
BY DEF Free, Row, Result

LEMMA NothingType == Nothing \in Loaded
<1>1. [i \in Slot |-> Free] \in [Slot -> Row]
  BY FreeType
<1>2. QED
  BY <1>1 DEF Nothing, Loaded

LEMMA CurrentType ==
    RfqTypeOK => Current \in Loaded /\ Current.priority \in Priority
BY DEF RfqTypeOK, Current, Loaded

\* Closing a step and opening another leave rows.
LEMMA CloseStepType ==
    ASSUME TypeInv, NEW c \in Clerk, NEW s \in Step, NEW p \in Priority,
           NEW w, NEW reason, CloseStep(c, s, p, w, reason)
    PROVE  /\ task' \in [Slot -> Row]
           /\ pace' \in [Slot -> Priority]
           /\ \A i \in Slot : task'[i].held \in {task[i].held, None}
           /\ worked' = worked /\ ticked' = ticked
<1>1. PICK i \in Slot :
        LET result == Verdict(Standard[s][p], Elapsed(seen[c].task[i]))
            closed == [task EXCEPT ![i].status = "closed", ![i].result = result]
        IN  \/ /\ task' = closed
               /\ pace' = [pace EXCEPT ![i] = p]
            \/ \E n \in ToOpen(c, s, w), j \in Slot :
                  /\ task' = [closed EXCEPT ![j] = Fresh(n, p)]
                  /\ pace' = [pace EXCEPT ![i] = p, ![j] = p]
  BY DEF CloseStep
<1> DEFINE result == Verdict(Standard[s][p], Elapsed(seen[c].task[i]))
           closed == [task EXCEPT ![i].status = "closed", ![i].result = result]
<1>2. seen[c].task[i] \in Row /\ now \in Nat
  BY DEF TypeInv, RfqTypeOK
<1>3. result \in Result
  BY <1>2, ElapsedType, VerdictType
<1>4. /\ closed \in [Slot -> Row]
      /\ \A k \in Slot : closed[k].held = task[k].held
  <2> HIDE DEF result
  <2>1. task \in [Slot -> Row]
    BY DEF TypeInv, RfqTypeOK
  <2>2. /\ closed = [k \in Slot |-> closed[k]]
        /\ \A k \in Slot \ {i} : closed[k] = task[k]
        /\ closed[i] = [task[i] EXCEPT !.status = "closed", !.result = result]
    BY <2>1
  <2>3. /\ [task[i] EXCEPT !.status = "closed", !.result = result] \in Row
        /\ [task[i] EXCEPT !.status = "closed", !.result = result].held = task[i].held
    BY <2>1, <1>3, ClosedRow
  <2> HIDE DEF closed
  <2>4. QED
    BY <2>1, <2>2, <2>3
<1>5. \A n \in ToOpen(c, s, w) :
         Fresh(n, p) \in Row /\ Fresh(n, p).held = None
  BY <1>2, FreshType DEF ToOpen, Fresh
<1>6. worked' = worked /\ ticked' = ticked
  BY DEF CloseStep
<1>7. pace \in [Slot -> Priority]
  BY DEF TypeInv, RfqTypeOK
<1>8. CASE task' = closed /\ pace' = [pace EXCEPT ![i] = p]
  BY <1>4, <1>6, <1>7, <1>8
<1>9. CASE \E n \in ToOpen(c, s, w), j \in Slot :
              /\ task' = [closed EXCEPT ![j] = Fresh(n, p)]
              /\ pace' = [pace EXCEPT ![i] = p, ![j] = p]
  <2>1. PICK n \in ToOpen(c, s, w), j \in Slot :
              /\ task' = [closed EXCEPT ![j] = Fresh(n, p)]
              /\ pace' = [pace EXCEPT ![i] = p, ![j] = p]
    BY <1>9
  <2> HIDE DEF closed
  <2>2. QED
    BY <2>1, <1>4, <1>5, <1>6, <1>7
<1>10. QED
  BY <1>1, <1>8, <1>9

\* A request that is over is no longer looked at.
LEMMA DoneType ==
    ASSUME TypeInv, NEW c \in Clerk, Done(c)
    PROVE  /\ at' \in [Clerk -> {"idle", "loaded"}]
           /\ seen' \in [Clerk -> Loaded]
           /\ \A d \in Clerk : at'[d] = "loaded" => seen'[d].priority \in Priority
           /\ now' = now
           /\ \A d \in Clerk : \/ seen'[d] = seen[d]
                               \/ /\ seen'[d].held = None
                                  /\ \A i \in Slot : seen'[d].task[i].held = None
<1>1. Nothing.held = None /\ \A i \in Slot : Nothing.task[i].held = None
  BY DEF Nothing, Free
<1>2. QED
  BY <1>1, NothingType DEF TypeInv, RfqTypeOK, Done, Loaded

\* What is left of the invariant once the request is over.
LEMMA DoneTypeInv ==
    ASSUME TypeInv, NEW c \in Clerk, Done(c),
           priority' \in Priority, wanted' \in SUBSET Optional,
           heldAt' \in {heldAt, None, now},
           task' \in [Slot -> Row], worked' \in [Slot -> Nat],
           pace' \in [Slot -> Priority], ticked' \in SUBSET Slot,
           \A i \in Slot : task'[i].held \in {task[i].held, None, now}
    PROVE  TypeInv'
<1>1. now \in Nat /\ heldAt' \in Nat \cup {None}
  BY DEF TypeInv, RfqTypeOK
<1>2. RfqTypeOK'
  BY <1>1, DoneType DEF RfqTypeOK, Loaded
<1>3. HoldsBegan'
  <2>1. HoldsBegan /\ now' = now
    BY DoneType DEF TypeInv
  <2>2. (heldAt # None => heldAt <= now)'
    BY <1>1, <2>1 DEF HoldsBegan
  <2>3. (\A i \in Slot : task[i].held # None => task[i].held <= now)'
    BY <1>1, <2>1 DEF HoldsBegan
  <2>4. (\A d \in Clerk : seen[d].held # None => seen[d].held <= now)'
    BY <2>1, DoneType DEF HoldsBegan
  <2>5. (\A d \in Clerk : \A i \in Slot :
           seen[d].task[i].held # None => seen[d].task[i].held <= now)'
    BY <2>1, DoneType DEF HoldsBegan
  <2>6. QED
    BY <2>2, <2>3, <2>4, <2>5 DEF HoldsBegan
<1>4. QED
  BY <1>2, <1>3 DEF TypeInv

\* Rows in the database and rows as a worker saw them.
LEMMA RowTypes ==
    ASSUME TypeInv, NEW c \in Clerk
    PROVE  /\ task \in [Slot -> Row] /\ seen[c].task \in [Slot -> Row]
           /\ worked \in [Slot -> Nat] /\ pace \in [Slot -> Priority]
           /\ ticked \in SUBSET Slot
           /\ priority \in Priority /\ wanted \in SUBSET Optional
           /\ heldAt \in Nat \cup {None} /\ now \in Nat
           /\ seen[c].held \in Nat \cup {None} /\ seen[c].wanted \in SUBSET Optional
           /\ at[c] = "loaded" => seen[c].priority \in Priority
           /\ seen[c].held # None => seen[c].held <= now
           /\ \A i \in Slot :
                seen[c].task[i].held # None => seen[c].task[i].held <= now
BY DEF TypeInv, RfqTypeOK, HoldsBegan

LEMMA RegisterType ==
    ASSUME TypeInv, NEW c \in Clerk, NEW p \in Priority,
           NEW w \in SUBSET Optional, NEW reason, Register(c, p, w, reason)
    PROVE  TypeInv'
<1>1. /\ Done(c) /\ heldAt' = heldAt
      /\ priority' \in Priority /\ wanted' \in SUBSET Optional
  BY RowTypes DEF Register, Flush
<1>2. CASE CloseStep(c, Registration, p, w, reason)
  BY <1>1, <1>2, RowTypes, CloseStepType, DoneTypeInv
<1>3. CASE CloseStepIsRefused(c, Registration, p, reason)
  BY <1>1, <1>3, RowTypes, DoneTypeInv DEF CloseStepIsRefused, ghosts
<1>4. QED
  BY <1>2, <1>3 DEF Register

LEMMA ClosesType ==
    ASSUME TypeInv, NEW c \in Clerk, NEW s \in Step, NEW reason,
           Closes(c, s, reason)
    PROVE  TypeInv'
<1>1. /\ Done(c) /\ UNCHANGED rfq
      /\ CloseStep(c, s, seen[c].priority, seen[c].wanted, reason)
      /\ seen[c].priority \in Priority
  BY RowTypes DEF Closes, Done
<1>2. QED
  BY <1>1, RowTypes, CloseStepType, DoneTypeInv DEF rfq

LEMMA TaskDoneType ==
    ASSUME TypeInv, NEW c \in Clerk, NEW i \in Slot, TaskDone(c, i)
    PROVE  TypeInv'
<1>1. task' \in [Slot -> Row] /\ \A k \in Slot : task'[k].held = task[k].held
  <2>1. task' = [task EXCEPT ![i].status = "closed"] /\ task \in [Slot -> Row]
    BY RowTypes DEF TaskDone
  <2>2. /\ task' = [k \in Slot |-> task'[k]]
        /\ \A k \in Slot \ {i} : task'[k] = task[k]
        /\ task'[i] = [task[i] EXCEPT !.status = "closed"]
    BY <2>1
  <2>3. QED
    BY <2>1, <2>2, TickedRow
<1>2. Done(c) /\ UNCHANGED <<rfq, worked, pace>> /\ ticked' \in SUBSET Slot
  BY RowTypes DEF TaskDone
<1>3. QED
  BY <1>1, <1>2, RowTypes, DoneTypeInv DEF rfq

LEMMA HoldType ==
    ASSUME TypeInv, NEW c \in Clerk, Hold(c)
    PROVE  TypeInv'
<1>1. /\ task' \in [Slot -> Row]
      /\ \A k \in Slot : task'[k].held \in {task[k].held, now}
  <2>1. PICK rows \in StepsFor(seen[c].task) :
          task' = [i \in Slot |-> IF i \in OpenRows(c, rows)
                                  THEN [task[i] EXCEPT !.held = now]
                                  ELSE task[i]]
    BY DEF Hold
  <2>2. task \in [Slot -> Row] /\ now \in Nat
    BY RowTypes
  <2>3. \A i \in Slot : [task[i] EXCEPT !.held = now] \in Row
    BY SMTT(30), <2>2 DEF Row
  <2>4. \A i \in Slot : [task[i] EXCEPT !.held = now].held = now
    BY <2>2 DEF Row
  <2>5. QED
    BY <2>1, <2>2, <2>3, <2>4
<1>2. Done(c) /\ UNCHANGED <<priority, wanted, ghosts>> /\ heldAt' = now
  BY DEF Hold
<1>3. QED
  BY <1>1, <1>2, RowTypes, DoneTypeInv DEF ghosts

LEMMA ReactivateType ==
    ASSUME TypeInv, NEW c \in Clerk, Reactivate(c)
    PROVE  TypeInv'
<1>1. PICK rows \in StepsFor(seen[c].task) :
          task' = [i \in Slot |->
              LET r == seen[c].task[i] IN
              IF i \in OpenRows(c, rows) /\ r.held # None
              THEN [task[i] EXCEPT !.paused = r.paused + HeldFor(r.held),
                                   !.held = None,
                                   !.due = r.due + HeldFor(seen[c].held)]
              ELSE task[i]]
  BY ZenonT(60) DEF Reactivate
<1>2. /\ task' \in [Slot -> Row]
      /\ \A k \in Slot : task'[k].held \in {task[k].held, None}
  <2>1. HeldFor(seen[c].held) \in Nat
    <3>1. seen[c].held # None
      BY DEF Reactivate
    <3>2. now \in Nat /\ seen[c].held \in Nat /\ seen[c].held <= now
      BY <3>1, RowTypes
    <3>3. QED
      BY SMTT(30), <3>2 DEF HeldFor
  <2>2. ASSUME NEW i \in Slot
        PROVE  /\ task'[i] \in Row
               /\ task'[i].held \in {task[i].held, None}
    <3> DEFINE r == seen[c].task[i]
    <3>1. task[i] \in Row /\ r \in Row
      BY RowTypes
    <3>2. CASE i \in OpenRows(c, rows) /\ r.held # None
      <4>1. HeldFor(r.held) \in Nat
        BY <3>1, <3>2, RowTypes DEF HeldFor, Row
      <4>2. /\ r.paused + HeldFor(r.held) \in Nat
            /\ r.due + HeldFor(seen[c].held) \in Nat
        BY <2>1, <3>1, <4>1 DEF Row
      <4>3. task'[i] = [task[i] EXCEPT !.paused = r.paused + HeldFor(r.held),
                                   !.held = None,
                                   !.due = r.due + HeldFor(seen[c].held)]
        BY <1>1, <3>2
      <4>4. QED
        BY <3>1, <4>2, <4>3 DEF Row
    <3>3. CASE ~(i \in OpenRows(c, rows) /\ r.held # None)
      BY <1>1, <3>1, <3>3
    <3>4. QED
      BY <3>2, <3>3
  <2>3. QED
    BY <1>1, <2>2
<1>3. Done(c) /\ UNCHANGED <<priority, wanted, ghosts>> /\ heldAt' = None
  BY DEF Reactivate
<1>4. QED
  BY <1>2, <1>3, RowTypes, DoneTypeInv DEF ghosts

LEMMA SetPriorityType ==
    ASSUME TypeInv, NEW c \in Clerk, NEW p \in Priority, SetPriority(c, p)
    PROVE  TypeInv'
<1>1. PICK rows \in StepsFor(seen[c].task) :
          LET moved == {i \in OpenRows(c, rows) :
                          Standard[seen[c].task[i].step][p] > 0}
          IN  /\ task' = [i \in Slot |->
                    IF i \in moved
                    THEN [task[i] EXCEPT !.due =
                            seen[c].task[i].started
                            + Standard[seen[c].task[i].step][p]
                            + seen[c].task[i].paused]
                    ELSE task[i]]
              /\ pace' = [i \in Slot |-> IF i \in moved THEN p ELSE pace[i]]
  BY DEF SetPriority
<1> DEFINE moved == {i \in OpenRows(c, rows) :
                       Standard[seen[c].task[i].step][p] > 0}
<1>2. ASSUME NEW i \in Slot
      PROVE  task'[i] \in Row /\ task'[i].held = task[i].held
  <2>1. task[i] \in Row /\ seen[c].task[i] \in Row
    BY SMTT(30), RowTypes
  <2>2. CASE i \in moved
    <3>1. seen[c].task[i].step \in Step
      BY <2>1, <2>2 DEF Row, OpenRows, StepsFor
    <3>2. seen[c].task[i].started + Standard[seen[c].task[i].step][p]
            + seen[c].task[i].paused \in Nat
      <4>1. Standard[seen[c].task[i].step][p] \in Nat
        BY <3>1
      <4>2. seen[c].task[i].started \in Nat /\ seen[c].task[i].paused \in Nat
        BY <2>1 DEF Row
      <4>3. QED
        BY <4>1, <4>2
    <3>3. task'[i] = [task[i] EXCEPT !.due =
                            seen[c].task[i].started
                            + Standard[seen[c].task[i].step][p]
                            + seen[c].task[i].paused]
      BY <1>1, <2>2
    <3>4. QED
      BY <2>1, <3>2, <3>3 DEF Row
  <2>3. CASE i \notin moved
    BY SMTT(30), <1>1, <2>1, <2>3
  <2>4. QED
    BY <2>2, <2>3
<1>3. task' \in [Slot -> Row] /\ pace' \in [Slot -> Priority]
  BY <1>1, <1>2, RowTypes
<1>4. /\ Done(c) /\ UNCHANGED <<wanted, heldAt, worked, ticked>>
      /\ priority' = p
  BY DEF SetPriority
<1>5. QED
  BY SMTT(30), <1>2, <1>3, <1>4, RowTypes, DoneTypeInv

LEMMA TickType ==
    ASSUME TypeInv, Tick
    PROVE  TypeInv'
<1>1. now' \in Nat /\ now' = now + 1
  BY DEF Tick, TypeInv, RfqTypeOK
<1>2. worked' \in [Slot -> Nat]
  BY DEF Tick, TypeInv, RfqTypeOK
<1>3. RfqTypeOK'
  BY <1>1, <1>2 DEF Tick, TypeInv, RfqTypeOK, rfq, requests
<1>4. HoldsBegan'
  <2>1. UNCHANGED <<rfq, task, requests>>
    BY DEF Tick
  <2>2. /\ heldAt \in Nat \cup {None}
        /\ \A i \in Slot : task[i].held \in Nat \cup {None}
        /\ \A c \in Clerk : seen[c].held \in Nat \cup {None}
        /\ \A c \in Clerk, i \in Slot : seen[c].task[i].held \in Nat \cup {None}
    BY DEF TypeInv, RfqTypeOK, Row
  <2>3. HoldsBegan /\ now \in Nat
    BY DEF TypeInv, RfqTypeOK
  <2>4. UNCHANGED <<heldAt, task, seen>>
    BY <2>1 DEF rfq, requests
  <2>5. ASSUME NEW t \in Nat \cup {None}, t # None => t <= now
        PROVE  t # None => t <= now'
    BY <1>1, <2>3, <2>5
  <2>6. QED
    BY <2>2, <2>3, <2>4, <2>5 DEF HoldsBegan
<1>5. QED
  BY <1>3, <1>4 DEF TypeInv

LEMMA LoadType ==
    ASSUME TypeInv, NEW c \in Clerk, Load(c)
    PROVE  TypeInv'
<1>1. RfqTypeOK'
  BY CurrentType DEF Load, TypeInv, RfqTypeOK, Loaded, rfq, ghosts
<1>2. HoldsBegan'
  <2>1. /\ UNCHANGED <<now, heldAt, task>>
        /\ \A d \in Clerk : seen'[d] \in {seen[d], Current}
    BY DEF Load, rfq, TypeInv, RfqTypeOK
  <2>2. Current.held = heldAt /\ Current.task = task
    BY DEF Current
  <2>3. HoldsBegan
    BY DEF TypeInv
  <2>4. QED
    BY <2>1, <2>2, <2>3 DEF HoldsBegan
<1>3. QED
  BY <1>1, <1>2 DEF TypeInv

LEMMA RequestType ==
    ASSUME TypeInv, NEW c \in Clerk, Request(c)
    PROVE  TypeInv'
<1>1. CASE Refused(c)
  BY <1>1, RowTypes, DoneTypeInv DEF Refused, rfq, ghosts
<1>2. CASE \E s \in Step, reason \in Reason : Confirm(c, s, reason)
  BY <1>2, ClosesType DEF Confirm
<1>3. CASE \/ \E reason \in Reason : CostSheetSaved(c, reason)
           \/ QuoteApproved(c) \/ QuoteSent(c) \/ PoRecorded(c)
  BY <1>3, ClosesType DEF CostSheetSaved, QuoteApproved, QuoteSent, PoRecorded
<1>4. QED
  BY <1>1, <1>2, <1>3, LoadType, RegisterType, TaskDoneType, HoldType,
     ReactivateType, SetPriorityType DEF Request

LEMMA InitType == Init => TypeInv
<1> SUFFICES ASSUME Init PROVE TypeInv
  OBVIOUS
<1>1. Fresh(First, priority) \in Row /\ Fresh(First, priority).held = None
  BY FreshType DEF Init, Fresh
<1>2. /\ task \in [Slot -> Row]
      /\ \A i \in Slot : task[i].held = None
  BY <1>1, FreeType DEF Init, Free
<1>3. /\ seen \in [Clerk -> Loaded]
      /\ \A c \in Clerk : seen[c].held = None
      /\ \A c \in Clerk, i \in Slot : seen[c].task[i].held = None
  BY NothingType DEF Init, Nothing, Free
<1>4. RfqTypeOK
  BY <1>2, <1>3 DEF Init, RfqTypeOK, Loaded
<1>5. QED
  BY <1>2, <1>3, <1>4 DEF TypeInv, HoldsBegan, Init

\* However many requests overlap, the rows, their clocks and everything a
\* request remembers keep their types, and no hold begins in the future.
THEOREM RfqTypeCorrect == Spec => []RfqTypeOK
<1>1. TypeInv /\ [Next]_vars => TypeInv'
  <2> SUFFICES ASSUME TypeInv, [Next]_vars PROVE TypeInv'
    OBVIOUS
  <2>1. CASE Next
    BY <2>1, TickType, RequestType DEF Next
  <2>2. CASE UNCHANGED vars
    BY <2>2 DEF vars, rfq, requests, ghosts, TypeInv, RfqTypeOK, HoldsBegan
  <2>3. QED
    BY <2>1, <2>2
<1>2. TypeInv => RfqTypeOK
  BY DEF TypeInv
<1>3. QED
  BY <1>1, <1>2, InitType, PTL DEF Spec

-----------------------------------------------------------------------------
(* Requests that keep apart *)

\* What a request loaded is what the database says.
SeenIsCurrent == \A c \in Clerk : at[c] = "loaded" => seen[c] = Current

\* The rows in use are those of steps, one for each.
OneRowPerStep ==
    /\ \A i \in Slot : task[i].step = None <=> task[i].status = "free"
    /\ \A i, j \in Slot :
          task[i].step # None /\ task[i].step = task[j].step => i = j

\* Nothing beyond an open step has been opened.
InOrder ==
    \A i \in Live, j \in Slot :
        task[j].step # None => task[j].step <= task[i].step

NoStall ==
    Live = {} => \/ ticked # {}
                 \/ \E i \in Slot : /\ task[i].step = Last
                                    /\ task[i].status = "closed"

\* The clock of a row: what it says of the time worked, where its due date is,
\* what it was judged by.
ClockOK(i) ==
    LET standard == Standard[task[i].step][pace[i]] IN
    /\ task[i].status = "free" => worked[i] = 0
    /\ task[i].status = "open" =>
          /\ task[i].held = heldAt
          /\ (IF heldAt = None THEN now ELSE heldAt)
                = task[i].started + task[i].paused + worked[i]
          /\ standard > 0 => task[i].due = task[i].started + standard + task[i].paused
    /\ task[i].status = "closed" /\ i \notin ticked =>
          task[i].result = Verdict(standard, worked[i])

ClocksOK == \A i \in Slot : ClockOK(i)

ApartInv ==
    /\ RequestsApart /\ SeenIsCurrent
    /\ OneRowPerStep /\ InOrder /\ NoStall /\ ClocksOK

LEMMA StepsForAll ==
    ASSUME TypeInv, OneRowPerStep, NEW rows \in StepsFor(task)
    PROVE  rows = {i \in Slot : task[i].step # None}
<1>1. rows \subseteq {i \in Slot : task[i].step # None}
  BY DEF StepsFor
<1>2. ASSUME NEW i \in Slot, task[i].step # None
      PROVE  i \in rows
  <2>1. task[i].step \in Listed(task)
    BY <1>2 DEF Listed
  <2>2. PICK k \in rows : task[k].step = task[i].step
    BY <2>1 DEF StepsFor
  <2>3. k = i
    BY <1>1, <1>2, <2>2 DEF OneRowPerStep
  <2>4. QED
    BY <2>2, <2>3
<1>3. QED
  BY <1>1, <1>2

\* What a request works on.
LEMMA SeenRows ==
    ASSUME TypeInv, ApartInv, NEW c \in Clerk, Done(c)
    PROVE  /\ seen[c].task = task /\ seen[c].held = heldAt
           /\ seen[c].priority = priority /\ seen[c].wanted = wanted
           /\ now' = now
           /\ \A rows \in StepsFor(task) : OpenRows(c, rows) = Live
<1>1. seen[c] = Current
  BY DEF Done, ApartInv, SeenIsCurrent
<1>2. seen[c].task = task
  BY <1>1 DEF Current
<1>3. ASSUME NEW rows \in StepsFor(task)
      PROVE  OpenRows(c, rows) = Live
  <2>1. rows = {i \in Slot : task[i].step # None}
    BY StepsForAll DEF ApartInv
  <2>2. \A i \in Live : task[i].step # None
    BY DEF Live, ApartInv, OneRowPerStep
  <2>3. QED
    BY <1>2, <2>1, <2>2 DEF OpenRows, Live
<1>4. QED
  BY <1>1, <1>2, <1>3 DEF Current, Done

LEMMA DoneIsCurrent ==
    ASSUME RequestsApart, TypeInv, NEW c \in Clerk, Done(c)
    PROVE  SeenIsCurrent'
BY DEF RequestsApart, TypeInv, RfqTypeOK, Done, SeenIsCurrent

\* The steps that may follow have a first one.
LEMMA OneFollows ==
    ASSUME NEW s \in Step, NEW w, s # Last
    PROVE  \E n \in Step : Follows(n, s, w)
<1> DEFINE T == {m \in Applicable(w) : m > s}
<1>1. T \subseteq Nat
  BY DEF Applicable
<1>2. Last > s /\ Last \in Applicable(w)
  <2>1. s \in Nat /\ Last \in Nat /\ s <= Last /\ Last \in Step
    OBVIOUS
  <2>2. Last > s
    BY <2>1
  <2>3. QED
    BY <2>1, <2>2 DEF Applicable
<1>3. T # {}
  BY <1>2
<1>4. PICK n \in T : \A m \in T : <<m, n>> \notin OpToRel(<, Nat)
  <2> HIDE DEF T
  <2>1. IsWellFoundedOn(OpToRel(<, Nat), Nat)
    BY NatLessThanWellFounded
  <2>2. QED
    BY <1>1, <1>3, <2>1, WFMin
<1>5. \A m \in T : n <= m
  <2> SUFFICES ASSUME NEW m \in T PROVE n <= m
    OBVIOUS
  <2>1. m \in Nat /\ n \in Nat
    BY <1>1
  <2>2. ~(m < n)
    BY <1>4, <2>1 DEF OpToRel
  <2>3. QED
    BY <2>1, <2>2
<1>6. QED
  BY <1>5 DEF Follows, Applicable

Judged(i, result) == [task EXCEPT ![i].status = "closed", ![i].result = result]

\* What closing a step does to the rows.
LEMMA CloseShape ==
    ASSUME TypeInv, ApartInv, NEW c \in Clerk, Done(c), NEW s \in Step,
           NEW p \in Priority, NEW w, NEW reason, CloseStep(c, s, p, w, reason)
    PROVE  \E i \in Live :
             /\ task[i].step = s /\ heldAt = None
             /\ LET closed == Judged(i, Verdict(Standard[s][p], worked[i])) IN
                \/ /\ s = Last
                   /\ task' = closed
                   /\ pace' = [pace EXCEPT ![i] = p]
                \/ \E n \in Step, j \in Slot :
                     /\ n > s /\ task[j].status = "free"
                     /\ task' = [closed EXCEPT ![j] = Fresh(n, p)]
                     /\ pace' = [pace EXCEPT ![i] = p, ![j] = p]
<1>1. seen[c].task = task
  BY SeenRows
<1> DEFINE Result1(i) == Verdict(Standard[s][p], Elapsed(task[i]))
<1>2. PICK i \in Slot :
        /\ task[i].step = s
        /\ Closeable(task[i], Result1(i), reason)
        /\ \/ /\ ToOpen(c, s, w) = {}
              /\ task' = Judged(i, Result1(i))
              /\ pace' = [pace EXCEPT ![i] = p]
           \/ \E n \in ToOpen(c, s, w), j \in Slot :
                 /\ IsNextId(j)
                 /\ task' = [Judged(i, Result1(i)) EXCEPT ![j] = Fresh(n, p)]
                 /\ pace' = [pace EXCEPT ![i] = p, ![j] = p]
  <2>1. \E i \in Slot :
          /\ seen[c].task[i].step = s
          /\ LET result == Verdict(Standard[s][p], Elapsed(seen[c].task[i])) IN
             /\ Closeable(seen[c].task[i], result, reason)
             /\ \/ /\ ToOpen(c, s, w) = {}
                   /\ task' = Judged(i, result)
                   /\ pace' = [pace EXCEPT ![i] = p]
                \/ \E n \in ToOpen(c, s, w), j \in Slot :
                      /\ IsNextId(j)
                      /\ task' = [Judged(i, result) EXCEPT ![j] = Fresh(n, p)]
                      /\ pace' = [pace EXCEPT ![i] = p, ![j] = p]
    BY Zenon DEF CloseStep, Judged
  <2>2. QED
    BY <1>1, <2>1
<1>3. i \in Live /\ task[i].held = None
  BY <1>2 DEF Closeable, Live
<1>4. ClockOK(i)
  BY DEF ApartInv, ClocksOK
<1>5. heldAt = None /\ now = task[i].started + task[i].paused + worked[i]
  BY <1>3, <1>4 DEF ClockOK, Live
<1>6. Elapsed(task[i]) = worked[i]
  <2>1. /\ task[i].started \in Nat /\ task[i].paused \in Nat
        /\ worked[i] \in Nat
    BY RowTypes DEF Row
  <2>2. QED
    BY <1>5, <2>1 DEF Elapsed
<1>7. CASE ToOpen(c, s, w) = {} /\ task' = Judged(i, Result1(i))
                               /\ pace' = [pace EXCEPT ![i] = p]
  <2>1. ASSUME s # Last PROVE FALSE
    <3>1. PICK n \in Step : Follows(n, s, w)
      BY <2>1, OneFollows
    <3>2. n \in Listed(task)
      BY <1>1, <1>7, <3>1 DEF ToOpen
    <3>3. PICK k \in Slot : task[k].step = n
      BY <3>2 DEF Listed
    <3>4. n <= s
      BY <1>2, <1>3, <3>3 DEF ApartInv, InOrder
    <3>5. n > s /\ n \in Nat /\ s \in Nat
      BY <3>1 DEF Follows
    <3>6. QED
      BY <3>4, <3>5
  <2>2. QED
    BY <1>2, <1>3, <1>5, <1>6, <1>7, <2>1
<1>8. CASE \E n \in ToOpen(c, s, w), j \in Slot :
             /\ IsNextId(j)
             /\ task' = [Judged(i, Result1(i)) EXCEPT ![j] = Fresh(n, p)]
             /\ pace' = [pace EXCEPT ![i] = p, ![j] = p]
  <2>1. PICK n \in ToOpen(c, s, w), j \in Slot :
             /\ IsNextId(j)
             /\ task' = [Judged(i, Result1(i)) EXCEPT ![j] = Fresh(n, p)]
             /\ pace' = [pace EXCEPT ![i] = p, ![j] = p]
    BY <1>8
  <2>2. n \in Step /\ n > s /\ task[j].status = "free"
    BY <2>1 DEF ToOpen, Follows, IsNextId
  <2>3. QED
    BY <1>2, <1>3, <1>5, <1>6, <2>1, <2>2
<1>9. QED
  BY <1>2, <1>7, <1>8

LEMMA NoFork ==
    ASSUME TypeInv, OneRowPerStep, InOrder
    PROVE  \A i, j \in Live : i = j
<1> SUFFICES ASSUME NEW i \in Live, NEW j \in Live PROVE i = j
  OBVIOUS
<1>1. i \in Slot /\ j \in Slot
  BY DEF Live
<1>2. task[i].step # None /\ task[j].step # None
  BY <1>1 DEF Live, OneRowPerStep
<1>3. task[i].step \in Nat /\ task[j].step \in Nat
  BY <1>1, <1>2 DEF TypeInv, RfqTypeOK, Row
<1>4. task[i].step <= task[j].step /\ task[j].step <= task[i].step
  BY <1>1, <1>2 DEF InOrder
<1>5. task[i].step = task[j].step
  BY <1>3, <1>4
<1>6. QED
  BY <1>1, <1>2, <1>5 DEF OneRowPerStep

\* A row that is not open, and that a step leaves alone, keeps its clock.
LEMMA ClockKept ==
    ASSUME NEW k \in Slot, ClockOK(k), task[k].status # "open",
           task'[k] = task[k], pace'[k] = pace[k], worked'[k] = worked[k],
           k \in ticked => k \in ticked'
    PROVE  ClockOK(k)'
BY DEF ClockOK

LEMMA CloseKeeps ==
    ASSUME TypeInv, ApartInv, NEW c \in Clerk, Done(c), NEW s \in Step,
           NEW p \in Priority, NEW w, NEW reason, CloseStep(c, s, p, w, reason),
           heldAt' = heldAt
    PROVE  OneRowPerStep' /\ InOrder' /\ NoStall' /\ ClocksOK'
<1>1. PICK i \in Live :
             /\ task[i].step = s /\ heldAt = None
             /\ LET closed == Judged(i, Verdict(Standard[s][p], worked[i])) IN
                \/ /\ s = Last
                   /\ task' = closed
                   /\ pace' = [pace EXCEPT ![i] = p]
                \/ \E n \in Step, j \in Slot :
                     /\ n > s /\ task[j].status = "free"
                     /\ task' = [closed EXCEPT ![j] = Fresh(n, p)]
                     /\ pace' = [pace EXCEPT ![i] = p, ![j] = p]
  BY CloseShape
<1> DEFINE R == Verdict(Standard[s][p], worked[i])
           closed == Judged(i, R)
<1>2. i \in Slot /\ task[i].status = "open" /\ s \in Nat
  BY DEF Live
<1>3. worked' = worked /\ ticked' = ticked /\ now' = now
  BY CloseStepType, SeenRows
<1>4. \A k \in Slot : task[k].status = "open" => k = i
  BY NoFork, <1>2 DEF ApartInv, Live
<1>5. \A k \in Slot : task[k].step # None =>
          task[k].step \in Nat /\ task[k].step <= s
  <2>1. \A k \in Slot : task[k].step \in Step \cup {None}
    BY RowTypes DEF Row
  <2>2. QED
    BY <1>1, <2>1 DEF ApartInv, InOrder
<1>6. /\ closed \in [Slot -> Row]
      /\ \A k \in Slot : closed[k].step = task[k].step
      /\ \A k \in Slot : k # i => closed[k] = task[k]
      /\ closed[i].status = "closed" /\ closed[i].result = R
  <2>1. R \in Result
    <3>1. Standard[s][p] \in Nat /\ worked[i] \in Nat
      BY <1>2, RowTypes
    <3>2. QED
      BY <3>1, VerdictType
  <2>2. task \in [Slot -> Row]
    BY RowTypes
  <2> HIDE DEF R
  <2>3. \A k \in Slot :
           closed[k] = IF k = i THEN [task[i] EXCEPT !.status = "closed", !.result = R]
                                ELSE task[k]
    BY <1>2, <2>2 DEF Judged
  <2>4. DOMAIN closed = Slot /\ closed = [k \in Slot |-> closed[k]]
    BY <2>2 DEF Judged
  <2>5. [task[i] EXCEPT !.status = "closed", !.result = R] \in Row
    BY <1>2, <2>1, <2>2 DEF Row
  <2>6. /\ closed[i].step = task[i].step /\ closed[i].status = "closed"
        /\ closed[i].result = R
    BY <1>2, <2>2, <2>3 DEF Row
  <2> HIDE DEF closed
  <2>7. QED
    BY <1>2, <2>2, <2>3, <2>4, <2>5, <2>6
<1>7. \A k \in Slot : k # i => ClockOK(k) /\ task[k].status # "open"
  BY <1>4 DEF ApartInv, ClocksOK
<1>8. OneRowPerStep
  BY DEF ApartInv
<1>9. CASE s = Last /\ task' = closed /\ pace' = [pace EXCEPT ![i] = p]
  <2> HIDE DEF closed
  <2>1. \A k \in Slot : task'[k].status # "open"
    BY <1>6, <1>7, <1>9
  <2>2. OneRowPerStep'
    BY <1>1, <1>2, <1>6, <1>8, <1>9 DEF OneRowPerStep
  <2>3. InOrder' /\ NoStall'
    BY <1>1, <1>2, <1>6, <1>9, <2>1 DEF InOrder, NoStall, Live
  <2>4. ASSUME NEW k \in Slot PROVE ClockOK(k)'
    <3>1. CASE k = i
      <4>1. /\ task'[i].step = s /\ task'[i].status = "closed"
            /\ task'[i].result = R /\ pace'[i] = p
        BY <1>1, <1>2, <1>6, <1>9, RowTypes
      <4>2. QED
        BY <1>3, <3>1, <4>1 DEF ClockOK
    <3>2. CASE k # i
      <4>1. task'[k] = task[k] /\ pace'[k] = pace[k]
        BY <1>6, <1>9, <3>2, RowTypes
      <4>2. QED
        BY <1>3, <1>7, <3>2, <4>1, ClockKept
    <3>3. QED
      BY <3>1, <3>2
  <2>5. QED
    BY <2>2, <2>3, <2>4 DEF ClocksOK
<1>10. CASE \E n \in Step, j \in Slot :
                     /\ n > s /\ task[j].status = "free"
                     /\ task' = [closed EXCEPT ![j] = Fresh(n, p)]
                     /\ pace' = [pace EXCEPT ![i] = p, ![j] = p]
  <2>1. PICK n \in Step, j \in Slot :
                     /\ n > s /\ task[j].status = "free"
                     /\ task' = [closed EXCEPT ![j] = Fresh(n, p)]
                     /\ pace' = [pace EXCEPT ![i] = p, ![j] = p]
    BY <1>10
  <2> HIDE DEF closed
  <2>2. j # i /\ n \in Nat /\ n # None /\ s # None
    <3>1. \A k \in Nat : k # None
      OBVIOUS
    <3>2. n \in Nat /\ s \in Nat
      BY <2>1
    <3>3. j # i
      BY <1>2, <2>1
    <3>4. QED
      BY <3>1, <3>2, <3>3
  <2>3. task'[j] = Fresh(n, p) /\ pace'[j] = p
    BY <1>6, <2>1, RowTypes
  <2>4. \A k \in Slot : k # j => task'[k] = closed[k]
    BY <1>6, <2>1
  <2>5. /\ task'[j].step = n /\ task'[j].status = "open"
        /\ \A k \in Slot : k # j => /\ task'[k].step = task[k].step
                                    /\ task'[k].status # "open"
    BY <1>6, <1>7, <2>3, <2>4 DEF Fresh
  <2>6. OneRowPerStep'
    <3>1. ASSUME NEW k \in Slot
          PROVE  task'[k].step = None <=> task'[k].status = "free"
      <4>1. CASE k = j
        BY <2>2, <2>5, <4>1
      <4>2. CASE k = i
        BY <1>1, <1>2, <1>6, <2>2, <2>4, <4>2
      <4>3. CASE k # i /\ k # j
        BY <1>6, <1>8, <2>4, <4>3 DEF OneRowPerStep
      <4>4. QED
        BY <4>1, <4>2, <4>3
    <3>2. ASSUME NEW k \in Slot, NEW l \in Slot,
                 task'[k].step # None, task'[k].step = task'[l].step
          PROVE  k = l
      <4>1. ASSUME NEW x \in Slot, x # j, task'[x].step = n PROVE FALSE
        <5>1. task[x].step = n
          BY <2>5, <4>1
        <5>2. n <= s
          BY <1>5, <2>2, <5>1
        <5>3. QED
          BY <1>2, <2>1, <2>2, <5>2
      <4>2. CASE k = j \/ l = j
        BY <2>5, <3>2, <4>1, <4>2
      <4>3. CASE k # j /\ l # j
        BY <1>8, <2>5, <3>2, <4>3 DEF OneRowPerStep
      <4>4. QED
        BY <4>2, <4>3
    <3>3. QED
      BY <3>1, <3>2 DEF OneRowPerStep
  <2>7. Live' = {j}
    BY <2>5 DEF Live
  <2>8. InOrder'
    <3>1. ASSUME NEW k \in Slot, task'[k].step # None
          PROVE  task'[k].step <= n
      <4>1. CASE k = j
        BY <2>2, <2>5, <4>1
      <4>2. CASE k # j
        <5>1. task'[k].step \in Nat /\ task'[k].step <= s
          BY <1>5, <2>5, <3>1, <4>2
        <5>2. QED
          BY <1>2, <2>1, <2>2, <5>1
      <4>3. QED
        BY <4>1, <4>2
    <3>2. QED
      BY <2>5, <2>7, <3>1 DEF InOrder
  <2>9. NoStall'
    BY <2>7 DEF NoStall
  <2>10. ASSUME NEW k \in Slot PROVE ClockOK(k)'
    <3>1. CASE k = i
      <4>1. /\ task'[i].step = s /\ task'[i].status = "closed"
            /\ task'[i].result = R /\ pace'[i] = p
        BY <1>1, <1>2, <1>6, <2>1, <2>2, <2>4, RowTypes
      <4>2. QED
        BY <1>3, <3>1, <4>1 DEF ClockOK
    <3>2. CASE k = j
      <4>1. worked[j] = 0
        BY <2>1 DEF ApartInv, ClocksOK, ClockOK
      <4>2. /\ task'[j].held = None /\ heldAt' = None
            /\ task'[j].started = now /\ task'[j].paused = 0
            /\ task'[j].due = now + Standard[n][p] /\ now \in Nat
            /\ task'[j].step = n /\ task'[j].status = "open"
        BY <1>1, <2>3, RowTypes DEF Fresh
      <4>3. now = now + 0 + 0
        BY <4>2
      <4>4. Standard[n][p] \in Nat /\ now + Standard[n][p] = now + Standard[n][p] + 0
        BY <4>2
      <4>5. QED
        BY <1>3, <2>3, <3>2, <4>1, <4>2, <4>3, <4>4 DEF ClockOK
    <3>3. CASE k # i /\ k # j
      <4>1. task'[k] = task[k] /\ pace'[k] = pace[k]
        BY <1>6, <2>1, <2>4, <3>3, RowTypes
      <4>2. QED
        BY <1>3, <1>7, <3>3, <4>1, ClockKept
    <3>4. QED
      BY <3>1, <3>2, <3>3
  <2>11. QED
    BY <2>6, <2>8, <2>9, <2>10 DEF ClocksOK
<1>11. QED
  BY <1>1, <1>9, <1>10

\* A request that closes no step leaves the order of the chain alone.
LEMMA SameSteps ==
    ASSUME ApartInv, ticked' = ticked,
           \A k \in Slot : /\ task'[k].step = task[k].step
                           /\ task'[k].status = task[k].status
    PROVE  OneRowPerStep' /\ InOrder' /\ NoStall' /\ Live' = Live
<1>1. Live' = Live
  BY DEF Live
<1>2. OneRowPerStep'
  BY DEF ApartInv, OneRowPerStep
<1>3. InOrder' /\ NoStall'
  BY <1>1 DEF ApartInv, InOrder, NoStall, Live
<1>4. QED
  BY <1>1, <1>2, <1>3

LEMMA TaskDoneKeeps ==
    ASSUME TypeInv, ApartInv, NEW c \in Clerk, NEW i \in Slot, TaskDone(c, i)
    PROVE  OneRowPerStep' /\ InOrder' /\ NoStall' /\ ClocksOK'
<1>1. /\ task[i].status = "open"
      /\ task' = [task EXCEPT ![i].status = "closed"]
      /\ ticked' = ticked \cup {i} /\ heldAt' = heldAt
      /\ worked' = worked /\ pace' = pace
  BY SeenRows DEF TaskDone, rfq
<1>2. task \in [Slot -> Row]
  BY RowTypes
<1>3. /\ task'[i].status = "closed"
      /\ \A k \in Slot : k # i => task'[k] = task[k]
      /\ \A k \in Slot : task'[k].step = task[k].step
  BY <1>1, <1>2 DEF Row
<1>4. \A k \in Slot : k # i => task[k].status # "open"
  BY <1>1, NoFork DEF ApartInv, Live
<1>5. Live' = {}
  BY <1>3, <1>4 DEF Live
<1>6. OneRowPerStep'
  BY <1>1, <1>3 DEF ApartInv, OneRowPerStep
<1>7. InOrder' /\ NoStall'
  BY <1>1, <1>5 DEF InOrder, NoStall
<1>8. ASSUME NEW k \in Slot PROVE ClockOK(k)'
  <2>1. CASE k = i
    BY <1>1, <1>3, <2>1 DEF ClockOK
  <2>2. CASE k # i
    BY <1>1, <1>3, <1>4, <2>2, ClockKept DEF ApartInv, ClocksOK
  <2>3. QED
    BY <2>1, <2>2
<1>9. QED
  BY <1>6, <1>7, <1>8 DEF ClocksOK

LEMMA HoldKeeps ==
    ASSUME TypeInv, ApartInv, NEW c \in Clerk, Hold(c)
    PROVE  OneRowPerStep' /\ InOrder' /\ NoStall' /\ ClocksOK'
<1>1. /\ heldAt = None /\ heldAt' = now /\ now' = now
      /\ task' = [i \in Slot |-> IF i \in Live
                                 THEN [task[i] EXCEPT !.held = now] ELSE task[i]]
      /\ worked' = worked /\ pace' = pace /\ ticked' = ticked
  BY SeenRows DEF Hold, ghosts
<1>2. task \in [Slot -> Row] /\ now \in Nat
  BY RowTypes
<1>3. ASSUME NEW k \in Slot
      PROVE  LET old == task[k]
                 new == task'[k]
             IN  /\ new.step = old.step /\ new.status = old.status
                 /\ new.started = old.started /\ new.paused = old.paused
                 /\ new.due = old.due
                 /\ k \in Live => new.held = now
                 /\ k \notin Live => new = old
  BY <1>1, <1>2 DEF Row
<1>4. OneRowPerStep' /\ InOrder' /\ NoStall'
  BY <1>1, <1>3, SameSteps
<1>5. ASSUME NEW k \in Slot PROVE ClockOK(k)'
  <2>1. ClockOK(k)
    BY DEF ApartInv, ClocksOK
  <2>2. CASE k \in Live
    <3>1. now # None
      BY <1>2
    <3>2. task[k].status = "open"
      BY <2>2 DEF Live
    <3>3. QED
      BY <1>1, <1>3, <2>1, <2>2, <3>1, <3>2 DEF ClockOK
  <2>3. CASE k \notin Live
    BY <1>1, <1>3, <2>1, <2>3, ClockKept DEF Live
  <2>4. QED
    BY <2>2, <2>3
<1>6. QED
  BY <1>4, <1>5 DEF ClocksOK

LEMMA ReactivateKeeps ==
    ASSUME TypeInv, ApartInv, NEW c \in Clerk, Reactivate(c)
    PROVE  OneRowPerStep' /\ InOrder' /\ NoStall' /\ ClocksOK'
<1>1. /\ heldAt # None /\ heldAt' = None /\ now' = now
      /\ task' = [i \in Slot |->
              IF i \in Live /\ task[i].held # None
              THEN [task[i] EXCEPT !.paused = task[i].paused + HeldFor(task[i].held),
                                   !.held = None,
                                   !.due = task[i].due + HeldFor(heldAt)]
              ELSE task[i]]
      /\ worked' = worked /\ pace' = pace /\ ticked' = ticked
  BY SeenRows, ZenonT(60) DEF Reactivate, ghosts
<1>2. task \in [Slot -> Row] /\ now \in Nat /\ heldAt \in Nat
  BY <1>1, RowTypes
<1>3. \A k \in Live : ClockOK(k) /\ task[k].held = heldAt
  BY DEF ApartInv, ClocksOK, ClockOK, Live
<1>4. ASSUME NEW k \in Slot
      PROVE  LET old == task[k]
                 new == task'[k]
             IN  /\ new.step = old.step /\ new.status = old.status
                 /\ new.started = old.started
                 /\ k \in Live => /\ new.paused = old.paused + (now - heldAt)
                                  /\ new.due = old.due + (now - heldAt)
                                  /\ new.held = None
                 /\ k \notin Live => new = old
  <2>1. CASE k \in Live
    <3>1. task[k] \in Row /\ task[k].held = heldAt
      BY <1>2, <1>3, <2>1
    <3>2. task'[k] = [task[k] EXCEPT !.paused = task[k].paused + (now - heldAt),
                                     !.held = None,
                                     !.due = task[k].due + (now - heldAt)]
      BY <1>1, <2>1, <3>1 DEF HeldFor
    <3>3. QED
      BY <2>1, <3>1, <3>2 DEF Row
  <2>2. CASE k \notin Live
    BY <1>1, <2>2
  <2>3. QED
    BY <2>1, <2>2
<1>5. OneRowPerStep' /\ InOrder' /\ NoStall'
  BY ZenonT(60), <1>1, <1>4, SameSteps
<1>6. ASSUME NEW k \in Slot PROVE ClockOK(k)'
  <2>1. ClockOK(k)
    BY DEF ApartInv, ClocksOK
  <2>2. CASE k \in Live
    <3>1. task[k].status = "open"
      BY <2>2 DEF Live
    <3>2. /\ task[k].started \in Nat /\ task[k].paused \in Nat
          /\ task[k].due \in Nat /\ worked[k] \in Nat
      BY <1>2, RowTypes DEF Row
    <3> DEFINE standard == Standard[task[k].step][pace[k]]
    <3>3. standard \in Nat
      <4>1. task[k].step \in Step
        BY <1>2, <3>1 DEF Row, ApartInv, OneRowPerStep
      <4>2. pace[k] \in Priority
        BY RowTypes
      <4>3. QED
        BY <4>1, <4>2
    <3>4. /\ heldAt = task[k].started + task[k].paused + worked[k]
          /\ standard > 0 => task[k].due = task[k].started + standard + task[k].paused
      BY <1>1, <2>1, <3>1 DEF ClockOK
    <3>5. now = task[k].started + (task[k].paused + (now - heldAt)) + worked[k]
      BY <1>2, <3>2, <3>4
    <3>6. standard > 0 => task[k].due + (now - heldAt)
             = task[k].started + standard + (task[k].paused + (now - heldAt))
      BY SMTT(30), <1>2, <3>2, <3>3, <3>4
    <3>7. QED
      BY <1>1, <1>4, <2>2, <3>1, <3>5, <3>6 DEF ClockOK
  <2>3. CASE k \notin Live
    BY <1>1, <1>4, <2>1, <2>3, ClockKept DEF Live
  <2>4. QED
    BY <2>2, <2>3
<1>7. QED
  BY <1>5, <1>6 DEF ClocksOK

LEMMA SetPriorityKeeps ==
    ASSUME TypeInv, ApartInv, NEW c \in Clerk, NEW p \in Priority,
           SetPriority(c, p)
    PROVE  OneRowPerStep' /\ InOrder' /\ NoStall' /\ ClocksOK'
<1> DEFINE moved == {i \in Live : Standard[task[i].step][p] > 0}
<1>1. /\ heldAt' = heldAt /\ now' = now
      /\ task' = [i \in Slot |->
                    IF i \in moved
                    THEN [task[i] EXCEPT !.due = task[i].started
                            + Standard[task[i].step][p] + task[i].paused]
                    ELSE task[i]]
      /\ pace' = [i \in Slot |-> IF i \in moved THEN p ELSE pace[i]]
      /\ worked' = worked /\ ticked' = ticked
  BY SeenRows, ZenonT(60) DEF SetPriority
<1>2. task \in [Slot -> Row]
  BY RowTypes
<1>3. ASSUME NEW k \in Slot
      PROVE  LET old == task[k]
                 new == task'[k]
             IN  /\ new.step = old.step /\ new.status = old.status
                 /\ new.started = old.started /\ new.paused = old.paused
                 /\ new.held = old.held
                 /\ k \in moved =>
                      /\ new.due = old.started + Standard[old.step][p] + old.paused
                      /\ pace'[k] = p
                 /\ k \notin moved => new = old /\ pace'[k] = pace[k]
  BY <1>1, <1>2 DEF Row
<1>4. OneRowPerStep' /\ InOrder' /\ NoStall'
  BY <1>1, <1>3, SameSteps
<1>5. ASSUME NEW k \in Slot PROVE ClockOK(k)'
  <2>1. ClockOK(k)
    BY DEF ApartInv, ClocksOK
  <2>2. CASE k \in moved
    <3>1. task[k].status = "open"
      BY <2>2 DEF Live
    <3>2. QED
      BY <1>1, <1>3, <2>1, <2>2, <3>1 DEF ClockOK
  <2>3. CASE k \notin moved
    BY <1>1, <1>3, <2>1, <2>3 DEF ClockOK
  <2>4. QED
    BY <2>2, <2>3
<1>6. QED
  BY <1>4, <1>5 DEF ClocksOK

LEMMA TickKeeps ==
    ASSUME TypeInv, ApartInv, RequestsApart', Tick
    PROVE  ApartInv'
<1>1. /\ now' = now + 1 /\ now \in Nat
      /\ UNCHANGED <<rfq, task, requests, pace, ticked>>
      /\ \A k \in Slot : worked'[k] = worked[k] +
            (IF task[k].status = "open" /\ heldAt = None THEN 1 ELSE 0)
  BY RowTypes DEF Tick, TypeInv, RfqTypeOK
<1>2. SeenIsCurrent'
  BY <1>1 DEF ApartInv, SeenIsCurrent, Current, rfq, requests
<1>3. OneRowPerStep' /\ InOrder' /\ NoStall'
  BY <1>1, SameSteps
<1>4. ASSUME NEW k \in Slot PROVE ClockOK(k)'
  <2>1. /\ ClockOK(k) /\ heldAt' = heldAt
        /\ task'[k] = task[k] /\ pace'[k] = pace[k] /\ ticked' = ticked
    BY <1>1 DEF ApartInv, ClocksOK, rfq
  <2>2. /\ task[k].started \in Nat /\ task[k].paused \in Nat
        /\ worked[k] \in Nat /\ worked \in [Slot -> Nat]
    BY DEF TypeInv, RfqTypeOK, Row
  <2>3. CASE task[k].status = "open" /\ heldAt = None
    <3>1. worked'[k] = worked[k] + 1
      BY <1>1, <2>3
    <3>2. now = task[k].started + task[k].paused + worked[k]
      BY <2>1, <2>3 DEF ClockOK
    <3>3. now + 1 = task[k].started + task[k].paused + (worked[k] + 1)
      BY <2>2, <3>2
    <3>4. QED
      BY <1>1, <2>1, <2>3, <3>1, <3>3 DEF ClockOK
  <2>4. CASE ~(task[k].status = "open" /\ heldAt = None)
    <3>1. worked'[k] = worked[k] + 0
      BY <1>1, <2>4
    <3>2. worked'[k] = worked[k]
      BY <2>2, <3>1
    <3>3. QED
      BY <2>1, <2>4, <3>2 DEF ClockOK
  <2>5. QED
    BY <2>3, <2>4
<1>5. QED
  BY <1>2, <1>3, <1>4 DEF ApartInv, ClocksOK

\* Nothing but the requests changes.
LEMMA Untouched ==
    ASSUME ApartInv, UNCHANGED <<now, heldAt, task, ghosts>>
    PROVE  OneRowPerStep' /\ InOrder' /\ NoStall' /\ ClocksOK'
<1>1. OneRowPerStep' /\ InOrder' /\ NoStall'
  BY SameSteps DEF ghosts
<1>2. ClocksOK'
  BY DEF ApartInv, ClocksOK, ClockOK, ghosts
<1>3. QED
  BY <1>1, <1>2

LEMMA LoadKeeps ==
    ASSUME TypeInv, ApartInv, RequestsApart', NEW c \in Clerk, Load(c)
    PROVE  ApartInv'
<1>1. OneRowPerStep' /\ InOrder' /\ NoStall' /\ ClocksOK'
  BY Untouched DEF Load, rfq
<1>2. SeenIsCurrent'
  BY DEF Load, rfq, ApartInv, SeenIsCurrent, Current, TypeInv, RfqTypeOK
<1>3. QED
  BY <1>1, <1>2 DEF ApartInv

LEMMA RequestKeeps ==
    ASSUME TypeInv, ApartInv, RequestsApart', NEW c \in Clerk, Request(c)
    PROVE  ApartInv'
<1>1. CASE Load(c)
  BY <1>1, LoadKeeps
<1>2. CASE Done(c) /\ OneRowPerStep' /\ InOrder' /\ NoStall' /\ ClocksOK'
  BY <1>2, DoneIsCurrent DEF ApartInv
<1>3. CASE Refused(c)
  BY <1>2, <1>3, Untouched DEF Refused, Done, rfq
<1>4. CASE \E p \in Priority, w \in SUBSET Optional, reason \in Reason :
              Register(c, p, w, reason)
  <2>1. PICK p \in Priority, w \in SUBSET Optional, reason \in Reason :
              Register(c, p, w, reason)
    BY <1>4
  <2>2. Done(c) /\ heldAt' = heldAt /\ now' = now
    BY <2>1 DEF Register, Done
  <2>3. CASE CloseStep(c, Registration, p, w, reason)
    BY <1>2, <2>2, <2>3, CloseKeeps
  <2>4. CASE CloseStepIsRefused(c, Registration, p, reason)
    BY <1>2, <2>2, <2>4, Untouched DEF CloseStepIsRefused
  <2>5. QED
    BY <2>1, <2>3, <2>4 DEF Register
<1>5. ASSUME NEW s \in Step, NEW reason, Closes(c, s, reason)
      PROVE  ApartInv'
  <2>1. /\ Done(c) /\ heldAt' = heldAt /\ seen[c].priority \in Priority
        /\ CloseStep(c, s, seen[c].priority, seen[c].wanted, reason)
    BY <1>5, RowTypes DEF Closes, Done, rfq
  <2>2. QED
    BY <1>2, <2>1, CloseKeeps
<1>6. CASE \/ \E s \in Step, reason \in Reason : Confirm(c, s, reason)
           \/ \E reason \in Reason : CostSheetSaved(c, reason)
           \/ QuoteApproved(c) \/ QuoteSent(c) \/ PoRecorded(c)
  BY <1>5, <1>6 DEF Confirm, CostSheetSaved, QuoteApproved, QuoteSent, PoRecorded
<1>7. CASE \E i \in Slot : TaskDone(c, i)
  BY <1>2, <1>7, TaskDoneKeeps DEF TaskDone
<1>8. CASE Hold(c)
  BY <1>2, <1>8, HoldKeeps DEF Hold
<1>9. CASE Reactivate(c)
  BY <1>2, <1>9, ReactivateKeeps DEF Reactivate
<1>10. CASE \E p \in Priority : SetPriority(c, p)
  BY <1>2, <1>10, SetPriorityKeeps DEF SetPriority
<1>11. QED
  BY <1>1, <1>3, <1>4, <1>6, <1>7, <1>8, <1>9, <1>10 DEF Request

LEMMA InitApart == Init => ApartInv
<1> SUFFICES ASSUME Init PROVE ApartInv
  OBVIOUS
<1>1. PICK i \in Slot :
        task = [j \in Slot |-> IF j = i THEN Fresh(First, priority) ELSE Free]
  BY DEF Init
<1>2. /\ task[i].step = First /\ task[i].status = "open"
      /\ task[i].held = None /\ task[i].started = 0 /\ task[i].paused = 0
      /\ task[i].due = 0 + Standard[First][priority]
  BY <1>1 DEF Fresh, Init
<1>3. \A k \in Slot : k # i => task[k].step = None /\ task[k].status = "free"
  BY <1>1 DEF Free
<1>4. First # None /\ First \in Nat
  <2>1. \A k \in Nat : k # None
    OBVIOUS
  <2>2. QED
    BY <2>1
<1>5. SeenIsCurrent
  BY DEF Init, SeenIsCurrent
<1>6. OneRowPerStep
  BY <1>2, <1>3, <1>4 DEF OneRowPerStep
<1>7. Live = {i}
  BY <1>2, <1>3 DEF Live
<1>8. InOrder /\ NoStall
  BY <1>2, <1>3, <1>4, <1>7 DEF InOrder, NoStall
<1>9. ASSUME NEW k \in Slot PROVE ClockOK(k)
  <2>1. worked[k] = 0 /\ pace[k] = priority /\ heldAt = None /\ now = 0
    BY DEF Init
  <2>2. Standard[First][priority] \in Nat
    BY DEF Init
  <2>3. CASE k = i
    BY <1>2, <2>1, <2>2, <2>3 DEF ClockOK
  <2>4. CASE k # i
    BY <1>3, <2>1, <2>4 DEF ClockOK
  <2>5. QED
    BY <2>3, <2>4
<1>10. QED
  BY <1>5, <1>6, <1>8, <1>9 DEF ApartInv, ClocksOK, RequestsApart, Init

\* While no two requests about the RFQ overlap, what one works on is the state
\* of the database, a step has one row, and every row's clock adds up.
LEMMA ApartInvAlways == ApartSpec => [](TypeInv /\ ApartInv)
<1>1. TypeInv /\ ApartInv /\ [Next /\ RequestsApart']_vars
        => (TypeInv /\ ApartInv)'
  <2> SUFFICES ASSUME TypeInv, ApartInv, [Next /\ RequestsApart']_vars
               PROVE  (TypeInv /\ ApartInv)'
    OBVIOUS
  <2>1. CASE Tick /\ RequestsApart'
    BY <2>1, TickType, TickKeeps
  <2>2. ASSUME NEW c \in Clerk, Request(c), RequestsApart'
        PROVE  (TypeInv /\ ApartInv)'
    BY <2>2, RequestType, RequestKeeps
  <2>3. CASE UNCHANGED vars
    <3>1. OneRowPerStep' /\ InOrder' /\ NoStall' /\ ClocksOK'
      BY <2>3, Untouched DEF vars, rfq
    <3>2. SeenIsCurrent' /\ RequestsApart'
      BY <2>3
      DEF vars, rfq, requests, ApartInv, SeenIsCurrent, RequestsApart, Current
    <3>3. TypeInv'
      BY <2>3 DEF vars, rfq, requests, ghosts, TypeInv, RfqTypeOK, HoldsBegan
    <3>4. QED
      BY <3>1, <3>2, <3>3 DEF ApartInv
  <2>4. QED
    BY <2>1, <2>2, <2>3 DEF Next
<1>2. QED
  BY <1>1, InitType, InitApart, PTL DEF ApartSpec

\* The chain neither forks nor stalls, whatever its steps and however the
\* optional ones are ticked and unticked, while no two requests overlap.
THEOREM OneLiveStepWhenApart == ApartSpec => []OneLiveStep
<1>1. TypeInv /\ ApartInv => OneLiveStep
  BY NoFork DEF ApartInv, NoStall, OneLiveStep
<1>2. QED
  BY <1>1, ApartInvAlways, PTL

\* No hold is counted against anybody, neither in the due date of a running
\* step nor in the verdict on a closed one, while no two requests overlap.
THEOREM HoldsCostNobodyWhenApart == ApartSpec => []HoldsCostNobody
<1>1. TypeInv /\ ApartInv => HoldsCostNobody
  <2> SUFFICES ASSUME TypeInv, ApartInv, NEW i \in Slot
               PROVE  LET standard == Standard[task[i].step][pace[i]] IN
                      /\ i \in Live /\ heldAt = None /\ standard > 0
                            => (now > task[i].due <=> worked[i] > standard)
                      /\ task[i].status = "closed" /\ i \notin ticked
                            => task[i].result = Verdict(standard, worked[i])
    BY DEF HoldsCostNobody
  <2> DEFINE standard == Standard[task[i].step][pace[i]]
  <2>1. ClockOK(i)
    BY DEF ApartInv, ClocksOK
  <2>2. ASSUME i \in Live, heldAt = None, standard > 0
        PROVE  now > task[i].due <=> worked[i] > standard
    <3>1. task[i].status = "open"
      BY <2>2 DEF Live
    <3>2. /\ now = task[i].started + task[i].paused + worked[i]
          /\ task[i].due = task[i].started + standard + task[i].paused
      BY <2>1, <2>2, <3>1 DEF ClockOK
    <3>3. task[i].step \in Step /\ pace[i] \in Priority
      BY <3>1, RowTypes DEF ApartInv, OneRowPerStep, TypeInv, RfqTypeOK, Row
    <3>4. /\ task[i].started \in Nat /\ task[i].paused \in Nat
          /\ worked[i] \in Nat /\ standard \in Nat
      <4>1. standard \in Nat
        BY <3>3
      <4>2. QED
        BY <4>1 DEF TypeInv, RfqTypeOK, Row
    <3> HIDE DEF standard
    <3>5. QED
      BY <3>2, <3>4
  <2>3. QED
    BY <2>1, <2>2 DEF ClockOK
<1>2. QED
  BY <1>1, ApartInvAlways, PTL

\* One worker keeps apart from itself: both hold of every behaviour when one
\* request is handled at a time.
THEOREM OneWorkerIsApart ==
    ASSUME \A c, d \in Clerk : c = d
    PROVE  Spec => ApartSpec
<1>1. [Next]_vars => [Next /\ RequestsApart']_vars
  BY DEF RequestsApart
<1>2. QED
  BY <1>1, PTL DEF Spec, ApartSpec
=============================================================================
