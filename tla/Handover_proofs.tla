-------------------------- MODULE Handover_proofs --------------------------
(***************************************************************************)
(* Theorems about the purchase-order gate of app/handover, for any number  *)
(* of workers, handovers, customers and references.                        *)
(***************************************************************************)
EXTENDS Handover, TLAPS

-----------------------------------------------------------------------------
\* Before its row is known a request has loaded nothing.
LEMMA NothingIsARow == Nothing \in Columns
BY DEF Nothing, Columns

LEMMA StoredIsARow ==
  ASSUME HandoverTypeOK, NEW h \in Row
  PROVE  Stored(h) \in Columns
BY DEF HandoverTypeOK, Stored, Columns

Bringing == {"capturing", "creating", "checked"}

LEMMA DoneKeepsTypes ==
  ASSUME HandoverTypeOK, NEW c \in Clerk, Done(c)
  PROVE  /\ step' \in [Clerk -> Step]
         /\ row' \in [Clerk -> Row \cup {None}]
         /\ seen' \in [Clerk -> Columns]
         /\ ref' \in [Clerk -> Ref \cup {None}]
         /\ retired' \subseteq Customer
         /\ \A d \in Clerk : /\ step'[d] = "idle" <=> row'[d] = None
                             /\ ref'[d] # None => step'[d] \in Bringing
BY NothingIsARow DEF HandoverTypeOK, Done, Step, Bringing

LEMMA LoadKeepsTypes ==
  ASSUME HandoverTypeOK, NEW c \in Clerk, NEW h \in Row,
         NEW next \in Step \ {"idle"}, Load(c, h, next),
         NEW r \in Ref \cup {None}, ref' = [ref EXCEPT ![c] = r],
         r # None => next \in Bringing
  PROVE  /\ step' \in [Clerk -> Step]
         /\ row' \in [Clerk -> Row \cup {None}]
         /\ seen' \in [Clerk -> Columns]
         /\ ref' \in [Clerk -> Ref \cup {None}]
         /\ retired' \subseteq Customer
         /\ \A d \in Clerk : /\ step'[d] = "idle" <=> row'[d] = None
                             /\ ref'[d] # None => step'[d] \in Bringing
BY StoredIsARow, HandoverAssumption DEF HandoverTypeOK, Load, Step, Bringing

LEMMA BusyHasARow ==
  ASSUME HandoverTypeOK, NEW c \in Clerk, step[c] # "idle"
  PROVE  row[c] \in Row /\ seen[c] \in Columns
BY DEF HandoverTypeOK

LEMMA HandoverTypeInductive ==
  ASSUME HandoverTypeOK, [Next]_vars
  PROVE  HandoverTypeOK'
<1>1. ASSUME NEW c \in Clerk, NEW h \in Row, NEW r \in Ref \cup {None},
             StartCreate(c, h, r)
      PROVE  HandoverTypeOK'
  <2>1. Stored(h) \in Columns
    BY StoredIsARow
  <2> QED
    BY <1>1, <2>1, HandoverAssumption
       DEF HandoverTypeOK, StartCreate, columns, Step
<1>2. ASSUME NEW c \in Clerk, NEW h \in Row, NEW r \in Ref,
             StartCapture(c, h, r)
      PROVE  HandoverTypeOK'
  <2>1. Load(c, h, "capturing") /\ "capturing" \in Step \ {"idle"}
    BY <1>2 DEF StartCapture, Step
  <2>2. ref' = [ref EXCEPT ![c] = r] /\ UNCHANGED columns
    BY <1>2 DEF StartCapture
  <2>3. "capturing" \in Bringing
    BY DEF Bringing
  <2> QED
    BY <2>1, <2>2, <2>3, LoadKeepsTypes DEF HandoverTypeOK, columns, Bringing
<1>3. ASSUME NEW c \in Clerk, NEW h \in Row,
             StartPatch(c, h) \/ StartCancel(c, h)
      PROVE  HandoverTypeOK'
  <2>1. PICK next \in {"patching", "cancelling"} : Load(c, h, next)
    BY <1>3 DEF StartPatch, StartCancel
  <2>2. next \in Step \ {"idle"}
    BY DEF Step
  <2>3. UNCHANGED <<columns, ref>>
    BY <1>3 DEF StartPatch, StartCancel
  <2>4. ref[c] = None
    BY <2>1 DEF Load, HandoverTypeOK
  <2>5. ref' = [ref EXCEPT ![c] = None]
    BY <2>3, <2>4 DEF HandoverTypeOK
  <2> QED
    BY <2>1, <2>2, <2>3, <2>5, LoadKeepsTypes
       DEF HandoverTypeOK, columns, Bringing
<1>4. ASSUME NEW c \in Clerk, Check(c)  PROVE HandoverTypeOK'
  BY <1>4 DEF HandoverTypeOK, Check, columns, Step
<1>5. ASSUME NEW c \in Clerk, SaveCreate(c)  PROVE HandoverTypeOK'
  <2>1. Done(c) /\ row[c] \in Row
    BY <1>5, BusyHasARow DEF SaveCreate
  <2> QED
    BY <1>5, <2>1, DoneKeepsTypes 
       DEF HandoverTypeOK, SaveCreate, Status, HasPo, Bringing
<1>6. ASSUME NEW c \in Clerk, SaveCapture(c)  PROVE HandoverTypeOK'
  <2>1. Done(c) /\ row[c] \in Row /\ seen[c] \in Columns
    BY <1>6, BusyHasARow DEF SaveCapture
  <2>2. ref[c] \in Ref \cup {None} /\ Captured(c) \in Status \cup {"absent"}
    BY <2>1 DEF HandoverTypeOK, Captured, Columns, Status, HasPo
  <2>3. /\ po' \in [Row -> Ref \cup {None}]
        /\ status' \in [Row -> Status \cup {"absent"}]
    BY <1>6, <2>1, <2>2 DEF SaveCapture, Flush, HandoverTypeOK
  <2> QED
    BY <1>6, <2>1, <2>3, DoneKeepsTypes
       DEF HandoverTypeOK, SaveCapture, Bringing
<1>7. ASSUME NEW c \in Clerk, SaveCancel(c)  PROVE HandoverTypeOK'
  <2>1. Done(c) /\ row[c] \in Row
    BY <1>7, BusyHasARow DEF SaveCancel
  <2> QED
    BY <1>7, <2>1, DoneKeepsTypes
       DEF HandoverTypeOK, SaveCancel, Status, Bringing
<1>8. ASSUME NEW c \in Clerk, NEW s \in Status \cup {"none"},
             NEW p \in Project \cup {None}, NEW ack \in BOOLEAN,
             NEW complete \in BOOLEAN, NEW name \in Customer,
             SavePatch(c, s, p, ack, name, complete)
      PROVE  HandoverTypeOK'
  <2>1. Done(c) /\ row[c] \in Row /\ seen[c] \in Columns
    BY <1>8, BusyHasARow DEF SavePatch
  <2> DEFINE a == seen[c].acked \/ ack
             new == IF s = "none" THEN Advanced(c, p, a, complete) ELSE s
  <2>2. a \in BOOLEAN
    BY <2>1 DEF Columns
  <2>3. new \in Status \cup {"absent"}
    BY <2>1 DEF Advanced, Columns, Status, HasPo
  <2> HIDE DEF a, new
  <2>4. /\ Flush(project, row[c], p, seen[c].project)
        /\ Flush(acked, row[c], a, seen[c].acked)
        /\ Flush(customer, row[c], name, seen[c].customer)
        /\ Flush(status, row[c], new, seen[c].status)
        /\ UNCHANGED po
    BY <1>8 DEF SavePatch, a, new
  <2>5. /\ project' \in [Row -> Project \cup {None}]
        /\ acked' \in [Row -> BOOLEAN]
        /\ customer' \in [Row -> Customer]
        /\ status' \in [Row -> Status \cup {"absent"}]
    BY <2>1, <2>2, <2>3, <2>4 DEF Flush, HandoverTypeOK
  <2> QED
    BY <2>1, <2>4, <2>5, DoneKeepsTypes DEF HandoverTypeOK, Bringing
<1>9. ASSUME NEW c \in Clerk, Abort(c)  PROVE HandoverTypeOK'
  BY <1>9, DoneKeepsTypes DEF HandoverTypeOK, Abort, columns, Bringing
<1>10. ASSUME NEW c \in Clerk, NEW loser \in Customer,
              NEW survivor \in Customer, Merge(c, loser, survivor)
       PROVE  HandoverTypeOK'
  <2>1. customer' \in [Row -> Customer] /\ retired' \subseteq Customer
    BY <1>10 DEF Merge, HandoverTypeOK
  <2> QED
    BY <1>10, <2>1 DEF Merge, HandoverTypeOK, requests
<1>11. CASE UNCHANGED vars
  BY <1>11 DEF HandoverTypeOK, vars, columns, requests
<1> QED
  BY <1>1, <1>2, <1>3, <1>4, <1>5, <1>6, <1>7, <1>8, <1>9, <1>10, <1>11
     DEF Next

\* Every column of the handovers and everything a request remembers keeps its
\* type, however many requests overlap.
THEOREM HandoverTypeCorrect == Spec => []HandoverTypeOK
<1>1. Init => HandoverTypeOK
  BY NothingIsARow, HandoverAssumption
     DEF Init, HandoverTypeOK, Status, Step
<1>2. HandoverTypeOK /\ [Next]_vars => HandoverTypeOK'
  BY HandoverTypeInductive
<1> QED
  BY <1>1, <1>2, PTL DEF Spec

-----------------------------------------------------------------------------
\* What a request that has loaded a row knows of it for good: it was inserted,
\* and a reference it saw is still there.
Remembered(c) ==
    step[c] # "idle" /\ seen[c].status # "absent" =>
        /\ step[c] \in {"patching", "cancelling", "capturing", "checked"}
        /\ status[row[c]] # "absent"
        /\ seen[c].po # None => po[row[c]] # None
        /\ seen[c].status \in HasPo \/ seen[c].project # None
             => seen[c].po # None
        /\ step[c] \in {"capturing", "checked"} => ref[c] # None

\* A request that makes a row is the only one that knows of it.
Making(c) ==
    step[c] # "idle" /\ seen[c].status = "absent" =>
        /\ step[c] \in {"creating", "checked"}
        /\ status[row[c]] = "absent"
        /\ \A d \in Clerk \ {c} : row[d] # row[c]

Blank(h) == status[h] = "absent" => po[h] = None /\ project[h] = None

GateInv ==
    /\ HandoverTypeOK
    /\ \A h \in Row : Blank(h)
    /\ \A c \in Clerk : Remembered(c) /\ Making(c)
    /\ PoBeforeProject

\* What every step does to a row: it is never deleted and keeps a reference.
Grows(h) ==
    /\ status[h] # "absent" => status'[h] # "absent"
    /\ po[h] # None => po'[h] # None

\* A request that is over remembers nothing.
LEMMA DoneForgets ==
  ASSUME HandoverTypeOK, NEW c \in Clerk, Done(c)
  PROVE  Remembered(c)' /\ Making(c)'
BY DEF Done, HandoverTypeOK, Remembered, Making

\* The others' requests go on as they were.
LEMMA OthersRemember ==
  ASSUME HandoverTypeOK, HandoverTypeOK', NEW c \in Clerk,
         NEW d \in Clerk \ {c}, Remembered(d), Making(d),
         step'[d] = step[d], row'[d] = row[d], seen'[d] = seen[d],
         ref'[d] = ref[d], \A h \in Row : Grows(h),
         \A e \in Clerk \ {c} : row'[e] = row[e],
         row'[c] # row[d] \/ row'[c] = row[c],
         row[c] # row[d] => status'[row[d]] = status[row[d]]
  PROVE  Remembered(d)' /\ Making(d)'
<1>1. CASE step[d] = "idle"
  BY <1>1 DEF Remembered, Making
<1>2. CASE step[d] # "idle"
  <2>1. row[d] \in Row
    BY <1>2, BusyHasARow
  <2>2. Remembered(d)'
    BY <1>2, <2>1 DEF Remembered, Grows
  <2>3. Making(d)'
    BY <1>2, <2>1 DEF Making
  <2> QED
    BY <2>2, <2>3
<1> QED
  BY <1>1, <1>2

LEMMA LoadRemembers ==
  ASSUME GateInv, NEW c \in Clerk, NEW h \in Row,
         NEW next \in {"patching", "cancelling", "capturing"},
         Load(c, h, next), UNCHANGED columns,
         next = "capturing" => ref'[c] # None
  PROVE  Remembered(c)' /\ Making(c)'
<1>1. /\ row'[c] = h /\ step'[c] = next /\ seen'[c] = Stored(h)
      /\ status[h] # "absent"
  BY DEF Load, GateInv, HandoverTypeOK
<1>2. status[h] \in HasPo \/ project[h] # None => po[h] # None
  BY DEF GateInv, PoBeforeProject
<1> QED
  BY <1>1, <1>2 DEF Remembered, Making, Stored, columns

LEMMA GateInductive ==
  ASSUME GateInv, [Next]_vars
  PROVE  GateInv' /\ \A h \in Row : Grows(h)
<1>0. HandoverTypeOK /\ HandoverTypeOK'
  BY HandoverTypeInductive DEF GateInv
<1>q. ASSUME UNCHANGED columns
      PROVE  /\ \A h \in Row : Blank(h)' /\ Grows(h)
             /\ PoBeforeProject'
  BY <1>q DEF columns, GateInv, Blank, PoBeforeProject, Grows
<1>1. ASSUME NEW c \in Clerk, NEW h \in Row, NEW r \in Ref \cup {None},
             StartCreate(c, h, r)
      PROVE  GateInv' /\ \A k \in Row : Grows(k)
  <2>1. UNCHANGED columns
    BY <1>1 DEF StartCreate
  <2>2. /\ row'[c] = h /\ step'[c] \in {"creating", "checked"}
        /\ seen'[c].status = "absent" /\ status[h] = "absent"
        /\ \A d \in Clerk : row[d] # h
    BY <1>0, <1>1 DEF StartCreate, HandoverTypeOK, Stored
  <2>3. \A d \in Clerk \ {c} : row'[d] = row[d]
    BY <1>0, <1>1 DEF StartCreate, HandoverTypeOK
  <2>4. Remembered(c)' /\ Making(c)'
    BY <2>1, <2>2, <2>3 DEF Remembered, Making, columns
  <2>5. ASSUME NEW d \in Clerk \ {c}  PROVE Remembered(d)' /\ Making(d)'
    <3>1. /\ step'[d] = step[d] /\ seen'[d] = seen[d] /\ ref'[d] = ref[d]
          /\ row'[d] = row[d]
      BY <1>0, <1>1 DEF StartCreate, HandoverTypeOK
    <3>2. row'[c] # row[d] /\ status' = status
      BY <2>1, <2>2 DEF columns
    <3> QED
      BY <1>0, <1>q, <2>1, <2>3, <3>1, <3>2, OthersRemember DEF GateInv
  <2> QED
    BY <1>0, <1>q, <2>1, <2>4, <2>5 DEF GateInv
<1>2. ASSUME NEW c \in Clerk, NEW h \in Row,
             NEW next \in {"patching", "cancelling", "capturing"},
             Load(c, h, next), UNCHANGED columns,
             \A d \in Clerk \ {c} : ref'[d] = ref[d],
             next = "capturing" => ref'[c] # None
      PROVE  GateInv' /\ \A k \in Row : Grows(k)
  <2>1. Remembered(c)' /\ Making(c)'
    BY <1>2, LoadRemembers
  <2>2. row'[c] = h /\ status[h] # "absent"
    BY <1>0, <1>2 DEF Load, HandoverTypeOK
  <2>3. \A d \in Clerk \ {c} : /\ row'[d] = row[d] /\ step'[d] = step[d]
                               /\ seen'[d] = seen[d] /\ ref'[d] = ref[d]
    BY <1>0, <1>2 DEF Load, HandoverTypeOK
  <2>4. ASSUME NEW d \in Clerk \ {c}  PROVE Remembered(d)' /\ Making(d)'
    <3>1. CASE seen[d].status = "absent" /\ step[d] # "idle"
      <4>1. row'[c] # row[d]
        BY <2>2, <3>1 DEF GateInv, Making
      <4>2. status' = status
        BY <1>2 DEF columns
      <4> QED
        BY <1>0, <1>2, <1>q, <2>3, <4>1, <4>2, OthersRemember DEF GateInv
    <3>2. CASE ~(seen[d].status = "absent" /\ step[d] # "idle")
      <4>1. Making(d)'
        BY <2>3, <3>2 DEF Making
      <4>2. Remembered(d)'
        BY <1>2, <2>3 DEF Remembered, columns, GateInv
      <4> QED
        BY <4>1, <4>2
    <3> QED
      BY <3>1, <3>2
  <2> QED
    BY <1>0, <1>2, <1>q, <2>1, <2>4 DEF GateInv
<1>3. ASSUME NEW c \in Clerk, NEW h \in Row,
             \/ \E r \in Ref : StartCapture(c, h, r)
             \/ StartPatch(c, h)
             \/ StartCancel(c, h)
      PROVE  GateInv' /\ \A k \in Row : Grows(k)
  <2>1. ASSUME NEW r \in Ref, StartCapture(c, h, r)
        PROVE  GateInv' /\ \A k \in Row : Grows(k)
    <3>1. /\ Load(c, h, "capturing") /\ UNCHANGED columns
          /\ ref'[c] = r /\ \A d \in Clerk \ {c} : ref'[d] = ref[d]
      BY <1>0, <2>1 DEF StartCapture, HandoverTypeOK
    <3>2. r # None
      BY HandoverAssumption
    <3> QED
      BY <1>2, <3>1, <3>2
  <2>2. ASSUME StartPatch(c, h) \/ StartCancel(c, h)
        PROVE  GateInv' /\ \A k \in Row : Grows(k)
    <3>1. PICK next \in {"patching", "cancelling"} : Load(c, h, next)
      BY <2>2 DEF StartPatch, StartCancel
    <3>2. UNCHANGED <<columns, ref>>
      BY <2>2 DEF StartPatch, StartCancel
    <3> QED
      BY <1>2, <3>1, <3>2
  <2> QED
    BY <1>3, <2>1, <2>2
<1>4. ASSUME NEW c \in Clerk, Check(c)
      PROVE  GateInv' /\ \A k \in Row : Grows(k)
  <2>1. UNCHANGED columns /\ UNCHANGED <<row, seen, ref>>
    BY <1>4 DEF Check
  <2>2. Remembered(c)' /\ Making(c)'
    BY <1>0, <1>4, <2>1
       DEF Check, columns, GateInv, HandoverTypeOK, Remembered, Making
  <2>3. ASSUME NEW d \in Clerk \ {c}  PROVE Remembered(d)' /\ Making(d)'
    <3>1. step'[d] = step[d]
      BY <1>0, <1>4 DEF Check, HandoverTypeOK
    <3> QED
      BY <2>1, <3>1 DEF columns, GateInv, Remembered, Making
  <2> QED
    BY <1>0, <1>q, <2>1, <2>2, <2>3 DEF GateInv
<1>5. ASSUME NEW c \in Clerk, Done(c), row[c] \in Row,
             \A h \in Row : Grows(h) /\ Blank(h)',
             \A h \in Row \ {row[c]} : /\ status'[h] = status[h]
                                       /\ po'[h] = po[h]
                                       /\ project'[h] = project[h],
             status'[row[c]] \in HasPo \/ project'[row[c]] # None
               => po'[row[c]] # None
      PROVE  GateInv' /\ \A k \in Row : Grows(k)
  <2>1. Remembered(c)' /\ Making(c)'
    BY <1>0, <1>5, DoneForgets
  <2>2. PoBeforeProject'
    BY <1>5 DEF PoBeforeProject, GateInv
  <2>3. ASSUME NEW d \in Clerk \ {c}  PROVE Remembered(d)' /\ Making(d)'
    <3>1. CASE step[d] = "idle"
      BY <1>0, <1>5, <3>1 DEF Done, HandoverTypeOK, Remembered, Making
    <3>2. CASE step[d] # "idle"
      <4>1. row[d] \in Row
        BY <1>0, <3>2, BusyHasARow
      <4>2. /\ step'[d] = step[d] /\ row'[d] = row[d] /\ seen'[d] = seen[d]
            /\ ref'[d] = ref[d] /\ row'[c] = None
            /\ \A e \in Clerk \ {c} : row'[e] = row[e]
        BY <1>0, <1>5 DEF Done, HandoverTypeOK
      <4>3. row'[c] # row[d]
        BY <4>1, <4>2, HandoverAssumption
      <4>4. row[c] # row[d] => status'[row[d]] = status[row[d]]
        BY <1>5, <4>1
      <4> QED
        BY <1>0, <1>5, <4>2, <4>3, <4>4, OthersRemember DEF GateInv
    <3> QED
      BY <3>1, <3>2
  <2> QED
    BY <1>0, <1>5, <2>1, <2>2, <2>3 DEF GateInv
<1>6. ASSUME NEW c \in Clerk, SaveCreate(c)
      PROVE  GateInv' /\ \A k \in Row : Grows(k)
  <2> DEFINE h == row[c]
  <2>1. Done(c) /\ h \in Row /\ step[c] = "checked"
    BY <1>0, <1>6, BusyHasARow DEF SaveCreate
  <2>2. status[h] = "absent" /\ po[h] = None /\ project[h] = None
    BY <1>6, <2>1 DEF GateInv, Making, Blank, SaveCreate
  <2>3. /\ po'[h] = ref[c] /\ project' = project
        /\ status'[h] = IF ref[c] = None THEN "awaiting" ELSE "pending"
        /\ \A k \in Row \ {h} : status'[k] = status[k] /\ po'[k] = po[k]
    BY <1>0, <1>6, <2>1 DEF SaveCreate, HandoverTypeOK
  <2>4. \A k \in Row : Grows(k) /\ Blank(k)'
    BY <2>1, <2>2, <2>3 DEF Grows, Blank, GateInv
  <2>5. status'[h] \in HasPo \/ project'[h] # None => po'[h] # None
    BY <2>2, <2>3 DEF HasPo
  <2> QED
    BY <1>5, <2>1, <2>3, <2>4, <2>5
<1>7. ASSUME NEW c \in Clerk, SaveCapture(c)
      PROVE  GateInv' /\ \A k \in Row : Grows(k)
  <2> DEFINE h == row[c]
  <2>1. Done(c) /\ h \in Row /\ seen[c].status # "absent" /\ project' = project
    BY <1>0, <1>7, BusyHasARow DEF SaveCapture
  <2>2. /\ status[h] # "absent" /\ ref[c] # None
        /\ seen[c].po # None => po[h] # None
    BY <1>7, <2>1 DEF GateInv, Remembered, SaveCapture
  <2>3. po'[h] # None
    BY <1>0, <1>7, <2>1, <2>2 DEF SaveCapture, Flush, HandoverTypeOK
  <2>4. status'[h] # "absent"
    BY <1>0, <1>7, <2>1, <2>2 DEF SaveCapture, Flush, HandoverTypeOK, Captured
  <2>5. \A k \in Row \ {h} : status'[k] = status[k] /\ po'[k] = po[k]
    BY <1>0, <1>7, <2>1 DEF SaveCapture, Flush, HandoverTypeOK
  <2>6. \A k \in Row : Grows(k) /\ Blank(k)'
    BY <2>1, <2>3, <2>4, <2>5 DEF Grows, Blank, GateInv
  <2> QED
    BY <1>5, <2>1, <2>3, <2>5, <2>6
<1>8. ASSUME NEW c \in Clerk, SaveCancel(c)
      PROVE  GateInv' /\ \A k \in Row : Grows(k)
  <2> DEFINE h == row[c]
  <2>1. Done(c) /\ h \in Row /\ UNCHANGED <<po, project>>
    BY <1>0, <1>8, BusyHasARow DEF SaveCancel
  <2>2. /\ status'[h] = "cancelled"
        /\ \A k \in Row \ {h} : status'[k] = status[k]
    BY <1>0, <1>8, <2>1 DEF SaveCancel, HandoverTypeOK
  <2>3. \A k \in Row : Grows(k) /\ Blank(k)'
    BY <2>1, <2>2 DEF Grows, Blank, GateInv
  <2>4. project'[h] # None => po'[h] # None
    BY <2>1 DEF GateInv, PoBeforeProject
  <2> QED
    BY <1>5, <2>1, <2>2, <2>3, <2>4 DEF HasPo
<1>9. ASSUME NEW c \in Clerk, NEW s \in Status \cup {"none"},
             NEW p \in Project \cup {None}, NEW ack \in BOOLEAN,
             NEW complete \in BOOLEAN, NEW name \in Customer,
             SavePatch(c, s, p, ack, name, complete)
      PROVE  GateInv' /\ \A k \in Row : Grows(k)
  <2> DEFINE h == row[c]
             a == seen[c].acked \/ ack
             new == IF s = "none" THEN Advanced(c, p, a, complete) ELSE s
  <2>1. /\ Done(c) /\ h \in Row /\ UNCHANGED po
        /\ seen[c] \in Columns /\ step[c] = "patching"
    BY <1>0, <1>9, BusyHasARow DEF SavePatch
  <2>2. seen[c].status # "absent"
    BY <2>1 DEF GateInv, Making
  <2>3. /\ status[h] # "absent"
        /\ seen[c].po # None => po[h] # None
        /\ seen[c].status \in HasPo \/ seen[c].project # None
             => seen[c].po # None
    BY <2>1, <2>2 DEF GateInv, Remembered
  <2>4. /\ WantsTms(c, s, p) => seen[c].po # None
        /\ Flush(project, h, p, seen[c].project)
        /\ Flush(status, h, new, seen[c].status)
    BY <1>9 DEF SavePatch
  <2>5. new # "absent"
    BY <2>2 DEF Advanced, Status, HasPo
  <2>6. new \in HasPo => po[h] # None
    <3>1. CASE s \in HasPo
      BY <2>3, <2>4, <3>1 DEF WantsTms
    <3>2. CASE s = "none" /\ new \in HasPo
      BY <2>3, <3>2 DEF Advanced, HasPo
    <3> QED
      BY <3>1, <3>2
  <2>7. p # seen[c].project /\ p # None => po[h] # None
    BY <2>3, <2>4 DEF WantsTms
  <2> HIDE DEF new, a
  <2>8. /\ status'[h] = status[h] \/ status'[h] = new
        /\ project'[h] = project[h] \/ (project'[h] = p /\ p # seen[c].project)
        /\ \A k \in Row \ {h} : /\ status'[k] = status[k]
                                /\ project'[k] = project[k]
    BY <1>0, <2>1, <2>4 DEF Flush, HandoverTypeOK
  <2>9. \A k \in Row : Grows(k) /\ Blank(k)'
    BY <2>1, <2>3, <2>5, <2>8 DEF Grows, Blank, GateInv
  <2>10. status'[h] \in HasPo \/ project'[h] # None => po'[h] # None
    BY <2>1, <2>6, <2>7, <2>8 DEF GateInv, PoBeforeProject
  <2> QED
    BY <1>5, <2>1, <2>8, <2>9, <2>10
<1>10. ASSUME NEW c \in Clerk, Abort(c)
       PROVE  GateInv' /\ \A k \in Row : Grows(k)
  <2>1. Done(c) /\ row[c] \in Row /\ UNCHANGED columns
    BY <1>0, <1>10, BusyHasARow DEF Abort
  <2>2. /\ \A h \in Row : Grows(h) /\ Blank(h)'
        /\ UNCHANGED <<status, po, project>>
    BY <1>q, <2>1 DEF columns
  <2>3. status[row[c]] \in HasPo \/ project[row[c]] # None => po[row[c]] # None
    BY <2>1 DEF GateInv, PoBeforeProject
  <2> QED
    BY <1>5, <2>1, <2>2, <2>3
<1>11. ASSUME NEW c \in Clerk, NEW loser \in Customer,
              NEW survivor \in Customer, Merge(c, loser, survivor)
       PROVE  GateInv' /\ \A k \in Row : Grows(k)
  BY <1>0, <1>11
     DEF Merge, GateInv, requests, Remembered, Making, Blank, Grows,
         PoBeforeProject
<1>12. CASE UNCHANGED vars
  BY <1>0, <1>12, <1>q
     DEF GateInv, vars, columns, requests, Remembered, Making
<1> QED
  BY <1>1, <1>3, <1>4, <1>6, <1>7, <1>8, <1>9, <1>10, <1>11, <1>12 DEF Next

LEMMA GateAlways == Spec => []GateInv
<1>1. Init => GateInv
  <2> SUFFICES ASSUME Init  PROVE GateInv
    OBVIOUS
  <2>1. HandoverTypeOK
    BY NothingIsARow, HandoverAssumption
       DEF Init, HandoverTypeOK, Status, Step
  <2> QED
    BY <2>1 DEF Init, GateInv, Blank, Remembered, Making, PoBeforeProject, HasPo
<1>2. GateInv /\ [Next]_vars => GateInv'
  BY GateInductive
<1> QED
  BY <1>1, <1>2, PTL DEF Spec

\* No handover is ready for the TMS, or has TMS ids, without the customer's
\* reference: whatever requests of whatever workers overlap, and wherever one
\* of them fails.
THEOREM PoBeforeProjectAlways == Spec => []PoBeforeProject
<1>1. GateInv => PoBeforeProject
  BY DEF GateInv
<1> QED
  BY <1>1, GateAlways, PTL

\* A handover that has a reference never loses it.
THEOREM PoIsKeptAlways == Spec => PoIsKept
<1>1. GateInv /\ [Next]_vars
        => [\A h \in Row : po[h] # None => po'[h] # None]_vars
  BY GateInductive DEF Grows
<1> QED
  BY <1>1, GateAlways, PTL DEF Spec, PoIsKept

-----------------------------------------------------------------------------
(* Requests that keep apart: what each of the three promises about overlap  *)
(* is enough for.                                                           *)

RowsSpec == Init /\ [][Next /\ RowsApart']_vars
DealsSpec == Init /\ [][Next /\ DealsApart']_vars
RefsSpec == Init /\ [][Next /\ RowsApart' /\ RefsApart' /\ CustomersStay]_vars

\* The workers other than c go on as they were.
OthersWait(c) ==
    \A d \in Clerk \ {c} : /\ step'[d] = step[d] /\ row'[d] = row[d]
                           /\ seen'[d] = seen[d] /\ ref'[d] = ref[d]

\* A request that ends has touched no row but its own.
Ends(c) ==
    /\ Busy(c) /\ Done(c) /\ OthersWait(c)
    /\ \A k \in Row \ {row[c]} :
          /\ status'[k] = status[k] /\ customer'[k] = customer[k]
          /\ po'[k] = po[k] /\ project'[k] = project[k] /\ acked'[k] = acked[k]

\* A request that starts or goes on touches no row.
GoesOn(c) == UNCHANGED columns /\ OthersWait(c)

\* The commits, one by one.
Saves(c) ==
    \/ SaveCreate(c) \/ SaveCapture(c) \/ SaveCancel(c)
    \/ \E s \in Status \cup {"none"}, p \in Project \cup {None},
          ack, complete \in BOOLEAN, name \in Customer :
             SavePatch(c, s, p, ack, name, complete)

LEMMA DoneAlone ==
  ASSUME HandoverTypeOK, NEW c \in Clerk, Done(c)
  PROVE  OthersWait(c)
BY DEF HandoverTypeOK, Done, OthersWait

LEMMA SavesEnd ==
  ASSUME HandoverTypeOK, NEW c \in Clerk, Saves(c) \/ Abort(c)
  PROVE  Ends(c)
<1>1. CASE SaveCreate(c) \/ SaveCapture(c) \/ SaveCancel(c)
  <2>1. Busy(c) /\ Done(c)
    BY <1>1 DEF SaveCreate, SaveCapture, SaveCancel, Busy
  <2>2. \A k \in Row \ {row[c]} :
          /\ status'[k] = status[k] /\ customer'[k] = customer[k]
          /\ po'[k] = po[k] /\ project'[k] = project[k] /\ acked'[k] = acked[k]
    BY <1>1 DEF SaveCreate, SaveCapture, SaveCancel, Flush, HandoverTypeOK
  <2> QED
    BY <2>1, <2>2, DoneAlone DEF Ends
<1>2. ASSUME NEW s \in Status \cup {"none"},
             NEW p \in Project \cup {None}, NEW ack \in BOOLEAN,
             NEW complete \in BOOLEAN, NEW name \in Customer,
             SavePatch(c, s, p, ack, name, complete)
      PROVE  Ends(c)
  <2>1. Busy(c) /\ Done(c) /\ UNCHANGED po
    BY <1>2 DEF SavePatch, Busy
  <2>2. \A k \in Row \ {row[c]} : /\ project'[k] = project[k]
                                  /\ acked'[k] = acked[k]
                                  /\ customer'[k] = customer[k]
    BY <1>2 DEF SavePatch, Flush, HandoverTypeOK
  <2>3. \A k \in Row \ {row[c]} : status'[k] = status[k]
    BY <1>2 DEF SavePatch, Flush, HandoverTypeOK
  <2> QED
    BY <2>1, <2>2, <2>3, DoneAlone DEF Ends
<1>3. CASE Abort(c)
  BY <1>3, DoneAlone DEF Abort, Ends, Busy, columns
<1> QED
  BY <1>1, <1>2, <1>3 DEF Saves

LEMMA LoadGoesOn ==
  ASSUME HandoverTypeOK, NEW c \in Clerk, NEW h \in Row,
         \/ \E r \in Ref : StartCapture(c, h, r)
         \/ StartPatch(c, h)
         \/ StartCancel(c, h)
  PROVE  /\ GoesOn(c) /\ Live(h)
         /\ row'[c] = h /\ seen'[c] = Stored(h)
         /\ step'[c] \in {"patching", "cancelling", "capturing"}
<1>1. ASSUME NEW r \in Ref, StartCapture(c, h, r)
      PROVE  /\ Load(c, h, "capturing") /\ status[h] # "cancelled"
             /\ \A d \in Clerk \ {c} : ref'[d] = ref[d]
             /\ UNCHANGED columns
  BY <1>1 DEF HandoverTypeOK, StartCapture
<1>2. ASSUME StartPatch(c, h) \/ StartCancel(c, h)
      PROVE  /\ \E next \in {"patching", "cancelling"} : Load(c, h, next)
             /\ status[h] # "cancelled"
             /\ \A d \in Clerk \ {c} : ref'[d] = ref[d]
             /\ UNCHANGED columns
  BY <1>2 DEF StartPatch, StartCancel
<1>3. ASSUME NEW next \in {"patching", "cancelling", "capturing"},
             Load(c, h, next), status[h] # "cancelled",
             \A d \in Clerk \ {c} : ref'[d] = ref[d],
             UNCHANGED columns
      PROVE  /\ GoesOn(c) /\ Live(h)
             /\ row'[c] = h /\ seen'[c] = Stored(h)
             /\ step'[c] \in {"patching", "cancelling", "capturing"}
  BY <1>3 DEF HandoverTypeOK, Load, GoesOn, OthersWait, Live
<1> QED
  BY <1>1, <1>2, <1>3

LEMMA CreateGoesOn ==
  ASSUME HandoverTypeOK, NEW c \in Clerk, NEW h \in Row,
         NEW r \in Ref \cup {None}, StartCreate(c, h, r)
  PROVE  /\ GoesOn(c) /\ status[h] = "absent" /\ ~Taken(h)
         /\ row'[c] = h /\ seen'[c] = Stored(h) /\ ref'[c] = r
         /\ step'[c] = IF r = None THEN "checked" ELSE "creating"
BY DEF HandoverTypeOK, StartCreate, GoesOn, OthersWait

\* A merge moves handovers and touches no request.
LEMMA MergeMoves ==
  ASSUME NEW c \in Clerk, NEW loser \in Customer, NEW survivor \in Customer,
         Merge(c, loser, survivor)
  PROVE  UNCHANGED <<status, po, project, acked, step, row, seen, ref>>
BY DEF Merge, requests

LEMMA CheckGoesOn ==
  ASSUME HandoverTypeOK, NEW c \in Clerk, Check(c)
  PROVE  /\ GoesOn(c) /\ UNCHANGED <<row, seen, ref>>
         /\ Busy(c) /\ step'[c] = "checked"
BY DEF HandoverTypeOK, Check, GoesOn, OthersWait, Busy

\* Init, and the lemma about the gate, for the specifications below.
LEMMA ApartInitially ==
  ASSUME Init
  PROVE  GateInv /\ RowsApart /\ DealsApart /\ RefsApart
<1>1. HandoverTypeOK
  BY NothingIsARow, HandoverAssumption DEF Init, HandoverTypeOK, Status, Step
<1>2. GateInv
  BY <1>1 DEF Init, GateInv, Blank, Remembered, Making, PoBeforeProject, HasPo
<1> QED
  BY <1>2 DEF Init, RowsApart, DealsApart, RefsApart, Busy

-----------------------------------------------------------------------------
(* What is cancelled stays so while two requests handle two rows.            *)

RowsInv ==
    /\ GateInv
    /\ RowsApart
    /\ \A c \in Clerk : Busy(c) => status[row[c]] # "cancelled"

NoneRevived ==
    \A h \in Row : status[h] = "cancelled" => status'[h] = "cancelled"

LEMMA RowsInductive ==
  ASSUME RowsInv, [Next /\ RowsApart']_vars
  PROVE  RowsInv' /\ NoneRevived
<1>0. GateInv /\ HandoverTypeOK /\ GateInv' /\ HandoverTypeOK'
  BY GateInductive DEF RowsInv, GateInv
<1>1. ASSUME NEW c \in Clerk, Ends(c), RowsApart'
      PROVE  RowsInv' /\ NoneRevived
  <2>1. ~Busy(c)' /\ row[c] \in Row
    BY <1>0, <1>1 DEF Ends, Done, Busy, HandoverTypeOK
  <2>2. ASSUME NEW d \in Clerk \ {c}, Busy(d)'
        PROVE  status'[row'[d]] # "cancelled"
    <3>1. Busy(d) /\ row'[d] = row[d] /\ row[d] \in Row
      BY <1>0, <1>1, <2>2 DEF Ends, OthersWait, Busy, HandoverTypeOK
    <3>2. row[d] # row[c]
      BY <1>1, <3>1 DEF RowsInv, RowsApart, Ends
    <3> QED
      BY <1>1, <3>1, <3>2 DEF RowsInv, Ends
  <2>3. NoneRevived
    BY <1>1, <2>1 DEF NoneRevived, RowsInv, Ends
  <2> QED
    BY <1>0, <1>1, <2>1, <2>2, <2>3 DEF RowsInv
<1>2. ASSUME NEW c \in Clerk, GoesOn(c), RowsApart',
             row'[c] \in Row, status[row'[c]] # "cancelled"
      PROVE  RowsInv' /\ NoneRevived
  <2>1. status' = status
    BY <1>2 DEF GoesOn, columns
  <2>2. ASSUME NEW d \in Clerk \ {c}, Busy(d)'
        PROVE  status'[row'[d]] # "cancelled"
    BY <1>2, <2>1, <2>2 DEF RowsInv, GoesOn, OthersWait, Busy
  <2> QED
    BY <1>0, <1>2, <2>1, <2>2 DEF RowsInv, NoneRevived
<1>3. ASSUME NEW c \in Clerk, NEW h \in Row, NEW r \in Ref \cup {None},
             StartCreate(c, h, r), RowsApart'
      PROVE  RowsInv' /\ NoneRevived
  <2>1. GoesOn(c) /\ row'[c] = h /\ status[h] = "absent"
    BY <1>0, <1>3, CreateGoesOn
  <2> QED
    BY <1>2, <1>3, <2>1
<1>4. ASSUME NEW c \in Clerk, NEW h \in Row, RowsApart',
             \/ \E r \in Ref : StartCapture(c, h, r)
             \/ StartPatch(c, h)
             \/ StartCancel(c, h)
      PROVE  RowsInv' /\ NoneRevived
  <2>1. GoesOn(c) /\ row'[c] = h /\ Live(h)
    BY <1>0, <1>4, LoadGoesOn
  <2> QED
    BY <1>2, <1>4, <2>1 DEF Live
<1>5. ASSUME NEW c \in Clerk, Check(c), RowsApart'
      PROVE  RowsInv' /\ NoneRevived
  <2>1. GoesOn(c) /\ row' = row /\ Busy(c)
    BY <1>0, <1>5, CheckGoesOn
  <2>2. row[c] \in Row /\ status[row[c]] # "cancelled"
    BY <1>0, <2>1 DEF RowsInv, Busy, HandoverTypeOK
  <2> QED
    BY <1>2, <1>5, <2>1, <2>2
<1>6. ASSUME NEW c \in Clerk, Saves(c) \/ Abort(c), RowsApart'
      PROVE  RowsInv' /\ NoneRevived
  BY <1>0, <1>1, <1>6, SavesEnd
<1>7. ASSUME UNCHANGED <<status, step, row>>
      PROVE  RowsInv' /\ NoneRevived
  BY <1>0, <1>7 DEF RowsInv, NoneRevived, RowsApart, Busy
<1>8. CASE UNCHANGED vars
  BY <1>7, <1>8 DEF vars, columns, requests
<1> QED
  BY <1>3, <1>4, <1>5, <1>6, <1>7, <1>8, MergeMoves DEF Next, Saves

\* A cancelled handover stays cancelled, whichever route tries, with any
\* number of workers whose requests handle rows of their own.
THEOREM CancelledStaysWhenRowsApart == RowsSpec => CancelledStays
<1>1. Init => RowsInv
  BY ApartInitially DEF Init, RowsInv, Busy
<1>2. RowsInv /\ [Next /\ RowsApart']_vars => RowsInv'
  BY RowsInductive
<1>3. RowsInv /\ [Next /\ RowsApart']_vars
        => [\A h \in Row : status[h] = "cancelled" => status'[h] = "cancelled"]_vars
  BY RowsInductive DEF NoneRevived
<1> QED
  BY <1>1, <1>2, <1>3, PTL DEF RowsSpec, CancelledStays

-----------------------------------------------------------------------------
(* A deal has one handover while two requests make it for two deals,        *)
(* whatever else overlaps.                                                  *)

\* A request that makes a row is still the first of its deal.
FirstOfDeal(c) ==
    Busy(c) /\ seen[c].status = "absent" =>
        \A k \in Row : SameDeal(row[c], k) => status[k] = "absent"

\* The dedupe looks at every other handover of the deal.
LEMMA TwinsOfTheDeal ==
  ASSUME NEW h \in Row, NEW k \in Row, SameDeal(h, k)
  PROVE  k \in Twins(h) /\ SameDeal(k, h)
BY DEF SameDeal, Twins

DealInv ==
    /\ GateInv
    /\ DealsApart
    /\ OneHandoverPerDeal
    /\ \A c \in Clerk : FirstOfDeal(c)

\* Only the insert makes a handover appear.
LEMMA OnlyCreatesAppear ==
  ASSUME GateInv, NEW c \in Clerk, Ends(c), seen[c].status # "absent"
  PROVE  \A k \in Row : status[k] = "absent" => status'[k] = "absent"
<1>1. status[row[c]] # "absent"
  BY DEF GateInv, Remembered, Ends, Busy
<1> QED
  BY <1>1 DEF Ends

LEMMA DealInductive ==
  ASSUME DealInv, [Next /\ DealsApart']_vars
  PROVE  DealInv'
<1>0. GateInv /\ HandoverTypeOK /\ GateInv' /\ HandoverTypeOK'
  BY GateInductive DEF DealInv, GateInv
<1>1. ASSUME NEW c \in Clerk, OthersWait(c), DealsApart', FirstOfDeal(c)',
             \A k \in Row : status[k] = "absent" => status'[k] = "absent"
      PROVE  DealInv'
  <2>1. ASSUME NEW d \in Clerk \ {c}  PROVE FirstOfDeal(d)'
    BY <1>1 DEF DealInv, FirstOfDeal, OthersWait, Busy
  <2>2. OneHandoverPerDeal'
    BY <1>1 DEF DealInv, OneHandoverPerDeal
  <2> QED
    BY <1>0, <1>1, <2>1, <2>2 DEF DealInv
<1>2. ASSUME NEW c \in Clerk, Ends(c), seen[c].status = "absent", DealsApart'
      PROVE  DealInv'
  <2>1. row[c] \in Row /\ ~Busy(c)'
    BY <1>0, <1>2 DEF Ends, Done, Busy, HandoverTypeOK
  <2>2. \A k \in Row : SameDeal(row[c], k) => status[k] = "absent"
    BY <1>2 DEF DealInv, FirstOfDeal, Ends
  <2>3. OneHandoverPerDeal'
    <3> SUFFICES ASSUME NEW h \in Row, NEW k \in Row, h # k, SameDeal(h, k),
                        status'[h] # "absent"
                 PROVE  status'[k] = "absent"
      BY DEF OneHandoverPerDeal, SameDeal
    <3>1. CASE h = row[c]
      BY <1>2, <2>2, <3>1 DEF Ends
    <3>2. CASE h # row[c] /\ k = row[c]
      BY <1>2, <2>2, <3>2, TwinsOfTheDeal DEF Ends
    <3>3. CASE h # row[c] /\ k # row[c]
      BY <1>2, <3>3 DEF Ends, DealInv, OneHandoverPerDeal
    <3> QED
      BY <3>1, <3>2, <3>3
  <2>4. ASSUME NEW d \in Clerk \ {c}, Busy(d)', seen'[d].status = "absent",
               NEW k \in Row, SameDeal(row'[d], k)
        PROVE  status'[k] = "absent"
    <3>1. Busy(d) /\ row'[d] = row[d] /\ seen[d].status = "absent"
      BY <1>2, <2>4 DEF Ends, OthersWait, Busy
    <3>2. ~SameDeal(row[d], row[c])
      BY <1>2, <2>4, <3>1 DEF DealInv, DealsApart, Ends
    <3>3. k # row[c]
      BY <2>4, <3>1, <3>2
    <3>4. status[k] = "absent"
      BY <2>4, <3>1 DEF DealInv, FirstOfDeal
    <3> QED
      BY <1>2, <3>3, <3>4 DEF Ends
  <2> QED
    <3>1. \A d \in Clerk \ {c} : FirstOfDeal(d)'
      BY <2>4 DEF FirstOfDeal, SameDeal
    <3>2. FirstOfDeal(c)'
      BY <2>1 DEF FirstOfDeal
    <3> QED
      BY <1>0, <1>2, <2>3, <3>1, <3>2 DEF DealInv
<1>3. ASSUME NEW c \in Clerk, NEW h \in Row, NEW r \in Ref \cup {None},
             StartCreate(c, h, r), DealsApart'
      PROVE  DealInv'
  <2>1. GoesOn(c) /\ row'[c] = h /\ ~Taken(h)
    BY <1>0, <1>3, CreateGoesOn
  <2>2. \A k \in Row : SameDeal(h, k) => status'[k] = "absent"
    BY <2>1, TwinsOfTheDeal DEF Taken, GoesOn, columns
  <2>3. FirstOfDeal(c)'
    BY <2>1, <2>2 DEF FirstOfDeal, SameDeal
  <2> QED
    BY <1>1, <1>3, <2>1, <2>3 DEF GoesOn, columns
<1>4. ASSUME NEW c \in Clerk, NEW h \in Row, DealsApart',
             \/ \E r \in Ref : StartCapture(c, h, r)
             \/ StartPatch(c, h)
             \/ StartCancel(c, h)
      PROVE  DealInv'
  <2>1. GoesOn(c) /\ Live(h) /\ seen'[c] = Stored(h)
    BY <1>0, <1>4, LoadGoesOn
  <2>2. FirstOfDeal(c)'
    BY <2>1 DEF FirstOfDeal, Stored, Live
  <2> QED
    BY <1>1, <1>4, <2>1, <2>2 DEF GoesOn, columns
<1>5. ASSUME NEW c \in Clerk, Check(c), DealsApart'
      PROVE  DealInv'
  <2>1. GoesOn(c) /\ UNCHANGED <<row, seen>> /\ Busy(c)
    BY <1>0, <1>5, CheckGoesOn
  <2>2. FirstOfDeal(c)'
    BY <2>1 DEF DealInv, FirstOfDeal, GoesOn, columns
  <2> QED
    BY <1>1, <1>5, <2>1, <2>2 DEF GoesOn, columns
<1>6. ASSUME NEW c \in Clerk, Saves(c) \/ Abort(c), DealsApart'
      PROVE  DealInv'
  <2>1. Ends(c)
    BY <1>0, <1>6, SavesEnd
  <2>2. FirstOfDeal(c)' /\ OthersWait(c)
    BY <1>0, <2>1 DEF FirstOfDeal, Ends, Done, Busy, HandoverTypeOK
  <2> QED
    BY <1>0, <1>1, <1>2, <1>6, <2>1, <2>2, OnlyCreatesAppear
<1>7. ASSUME UNCHANGED <<status, step, row, seen>>
      PROVE  DealInv'
  BY <1>0, <1>7
     DEF DealInv, DealsApart, OneHandoverPerDeal, FirstOfDeal, SameDeal, Busy
<1>8. CASE UNCHANGED vars
  BY <1>7, <1>8 DEF vars, columns, requests
<1> QED
  BY <1>3, <1>4, <1>5, <1>6, <1>7, <1>8, MergeMoves DEF Next, Saves

\* "Deduped ... so re-firing the hook is safe": an opportunity has at most one
\* handover, and a quotation without one at most one made by a win, however
\* they are won, handed over by hand and cancelled, while no two requests make
\* the handover of one deal at the same time.
THEOREM OneHandoverPerDealWhenDealsApart == DealsSpec => []OneHandoverPerDeal
<1>1. Init => DealInv
  BY ApartInitially DEF Init, DealInv, OneHandoverPerDeal, FirstOfDeal, Busy
<1>2. DealInv /\ [Next /\ DealsApart']_vars => DealInv'
  BY DealInductive
<1>3. DealInv => OneHandoverPerDeal
  BY DEF DealInv
<1> QED
  BY <1>1, <1>2, <1>3, PTL DEF DealsSpec

-----------------------------------------------------------------------------
(* No request gives a reference a second handover while two requests handle  *)
(* two rows, no two bring the same reference for one customer, and no        *)
(* handover changes customer while a request brings one.                     *)

\* A request knows its row as it is, and between the check and the commit no
\* other handover takes the reference.
Current(c) ==
    Busy(c) =>
        /\ seen[c].po = po[row[c]] /\ seen[c].status = status[row[c]]
        /\ ref[c] # None => seen[c].customer = customer[row[c]]
        /\ step[c] \in {"patching", "cancelling", "capturing"}
             => Live(row[c])
        /\ step[c] = "checked" =>
             /\ ref[c] # None => ~Clashes(c)
             /\ status[row[c]] # "cancelled"

RefsInv ==
    /\ GateInv
    /\ RowsApart /\ RefsApart
    /\ \A c \in Clerk : Current(c)

NoNewClash ==
    \A h, k \in Row : Clash(h, k)' => \/ Clash(h, k)
                                     \/ customer'[h] # customer[h]
                                     \/ customer'[k] # customer[k]

\* The row has the reference it had, none, or one that no other handover of
\* its customer has.
OwnReference(h) ==
    \/ Live(h) /\ po'[h] = po[h]
    \/ po'[h] = None
    \/ \A k \in Row \ {h} : Live(k) /\ po[k] = po'[h] =>
           CustomerKey(h, customer[h]) # CustomerKey(k, customer[k])

StaysLive(h) == status'[h] \notin {"absent", "cancelled"}

\* A step that touches one row in that way makes no two clash.
LEMMA OneRowChanges ==
  ASSUME NEW h \in Row, customer' = customer,
         \A k \in Row \ {h} : status'[k] = status[k] /\ po'[k] = po[k],
         StaysLive(h) => OwnReference(h)
  PROVE  NoNewClash
<1> SUFFICES ASSUME NEW j \in Row, NEW k \in Row, Clash(j, k)'
             PROVE  Clash(j, k)
  BY DEF NoNewClash
<1>0. /\ j # k /\ StaysLive(j) /\ StaysLive(k)
      /\ po'[j] # None /\ po'[j] = po'[k]
      /\ CustomerKey(j, customer[j]) = CustomerKey(k, customer[k])
  BY DEF Clash, Live, StaysLive, CustomerKey
<1>1. CASE j # h /\ k # h
  BY <1>0, <1>1 DEF Clash, Live, StaysLive
<1>2. CASE j = h
  BY <1>0, <1>2 DEF Clash, Live, StaysLive, OwnReference
<1>3. CASE k = h
  BY <1>0, <1>3 DEF Clash, Live, StaysLive, OwnReference
<1> QED
  BY <1>1, <1>2, <1>3

\* Nor does one that brings no reference and makes no handover live.
LEMMA NoneBrought ==
  ASSUME po' = po, \A k \in Row : StaysLive(k) => Live(k)
  PROVE  NoNewClash
<1> SUFFICES ASSUME NEW j \in Row, NEW k \in Row, Clash(j, k)',
                    customer'[j] = customer[j], customer'[k] = customer[k]
             PROVE  Clash(j, k)
  BY DEF NoNewClash
<1>1. /\ j # k /\ StaysLive(j) /\ StaysLive(k) /\ po[j] # None /\ po[j] = po[k]
      /\ CustomerKey(j, customer[j]) = CustomerKey(k, customer[k])
  BY DEF Clash, Live, StaysLive, CustomerKey
<1> QED
  BY <1>1 DEF Clash

\* The reference a commit of c leaves in its row is no news to the others, or
\* it is the one c brought.
LEMMA OthersStayCurrent ==
  ASSUME RefsInv, NEW c \in Clerk, Ends(c), customer' = customer,
         StaysLive(row[c]) => \/ Live(row[c]) /\ po'[row[c]] = po[row[c]]
                              \/ po'[row[c]] \in {None, ref[c]},
         NEW d \in Clerk \ {c}
  PROVE  Current(d)'
<1>0. HandoverTypeOK
  BY DEF RefsInv, GateInv
<1> SUFFICES ASSUME Busy(d)'  PROVE Current(d)'
  BY DEF Current
<1>1. /\ step'[d] = step[d] /\ row'[d] = row[d] /\ seen'[d] = seen[d]
      /\ ref'[d] = ref[d] /\ Busy(d)
  BY DEF Ends, OthersWait, Busy
<1>2. row[d] \in Row /\ row[c] \in Row /\ row[d] # row[c]
  BY <1>0, <1>1 DEF HandoverTypeOK, Ends, Busy, RefsInv, RowsApart
<1>3. /\ Current(d) /\ po'[row[d]] = po[row[d]]
      /\ customer'[row[d]] = customer[row[d]]
  BY <1>1, <1>2 DEF RefsInv, Ends
<1>4. Live(row[d])' = Live(row[d]) /\ status'[row[d]] = status[row[d]]
  BY <1>1, <1>2 DEF Ends, Live
<1>5. ASSUME step[d] = "checked", ref[d] # None  PROVE ~Clashes(d)'
  <2>1. ~Clashes(d)
    BY <1>1, <1>3, <1>5 DEF Current
  <2>2. ref[c] # None => seen[c].customer = customer[row[c]]
    BY DEF RefsInv, Current, Ends
  <2>3. ref[c] = ref[d] => CustomerKey(row[c], customer[row[c]])
                             # CustomerKey(row[d], seen[d].customer)
    BY <1>5, <2>2 DEF RefsInv, RefsApart
  <2>4. SUFFICES ASSUME NEW k \in Row \ {row[d]}, Live(k)', po'[k] = ref[d],
                        CustomerKey(k, customer[k])
                          = CustomerKey(row[d], seen[d].customer)
                 PROVE  FALSE
    BY <1>1 DEF Clashes, CustomerKey
  <2>5. k = row[c]
    BY <2>1, <2>4 DEF Clashes, Ends, Live
  <2>6. Live(row[c]) /\ po'[row[c]] = po[row[c]]
    <3>1. po'[row[c]] \notin {None, ref[c]}
      BY <1>5, <2>3, <2>4, <2>5
    <3>2. StaysLive(row[c])
      BY <2>4, <2>5 DEF Live, StaysLive
    <3> QED
      BY <3>1, <3>2
  <2> QED
    BY <1>2, <2>1, <2>4, <2>5, <2>6 DEF Clashes
<1> QED
  BY <1>1, <1>3, <1>4, <1>5 DEF Current

LEMMA RefsEnd ==
  ASSUME RefsInv, GateInv', RowsApart', RefsApart', NEW c \in Clerk, Ends(c),
         customer' = customer,
         StaysLive(row[c]) => \/ Live(row[c]) /\ po'[row[c]] = po[row[c]]
                              \/ po'[row[c]] \in {None, ref[c]},
         StaysLive(row[c]) => OwnReference(row[c])
  PROVE  RefsInv' /\ NoNewClash
<1>0. HandoverTypeOK /\ HandoverTypeOK' /\ row[c] \in Row
  BY DEF RefsInv, GateInv, HandoverTypeOK, Ends, Busy
<1>1. Current(c)'
  BY <1>0 DEF Ends, Done, Current, Busy, HandoverTypeOK
<1>2. \A d \in Clerk \ {c} : Current(d)'
  BY OthersStayCurrent
<1>3. PICK h \in Row : h = row[c]
  BY <1>0
<1>4. NoNewClash
  BY <1>3, OneRowChanges DEF Ends
<1> QED
  BY <1>1, <1>2, <1>4 DEF RefsInv

LEMMA RefsGoOn ==
  ASSUME RefsInv, GateInv', RowsApart', RefsApart', NEW c \in Clerk,
         GoesOn(c), Current(c)'
  PROVE  RefsInv' /\ NoNewClash
<1>1. ASSUME NEW d \in Clerk \ {c}  PROVE Current(d)'
  <2>1. /\ step'[d] = step[d] /\ row'[d] = row[d] /\ seen'[d] = seen[d]
        /\ ref'[d] = ref[d]
    BY DEF GoesOn, OthersWait
  <2>2. Current(d) /\ (Clashes(d)' <=> Clashes(d))
    BY <2>1 DEF RefsInv, Clashes, GoesOn, columns, Live
  <2> QED
    BY <2>1, <2>2 DEF Current, Busy, Live, GoesOn, columns
<1>2. NoNewClash
  BY NoneBrought DEF GoesOn, columns, Live, StaysLive
<1> QED
  BY <1>1, <1>2 DEF RefsInv

\* While no request brings a reference a handover may change customer.
LEMMA RefsRename ==
  ASSUME RefsInv, GateInv', RowsApart', RefsApart', NEW c \in Clerk,
         OthersWait(c), Current(c)', po' = po,
         \A k \in Row : \/ status'[k] = status[k]
                        \/ k = row[c] /\ (StaysLive(k) => Live(k)),
         \A d \in Clerk : ref[d] = None
  PROVE  RefsInv' /\ NoNewClash
<1>1. ASSUME NEW d \in Clerk \ {c}, Busy(d)'  PROVE Current(d)'
  <2>1. /\ step'[d] = step[d] /\ row'[d] = row[d] /\ seen'[d] = seen[d]
        /\ ref'[d] = None /\ Busy(d) /\ Current(d)
    BY <1>1 DEF OthersWait, Busy, RefsInv
  <2>2. row[d] \in Row
    BY <2>1 DEF RefsInv, GateInv, HandoverTypeOK, Busy
  <2>3. row[d] # row[c]
    <3>1. CASE Busy(c)
      BY <2>1, <3>1 DEF RefsInv, RowsApart
    <3>2. CASE ~Busy(c)
      BY <2>2, <3>2, HandoverAssumption
         DEF RefsInv, GateInv, HandoverTypeOK, Busy
    <3> QED
      BY <3>1, <3>2
  <2>4. status'[row[d]] = status[row[d]]
    BY <2>2, <2>3
  <2> QED
    BY <2>1, <2>4 DEF Current, Live
<1>2. \A d \in Clerk : Current(d)'
  BY <1>1 DEF Current
<1>3. NoNewClash
  BY NoneBrought DEF Live, StaysLive
<1> QED
  BY <1>2, <1>3 DEF RefsInv

LEMMA RefsInductive ==
  ASSUME RefsInv, [Next /\ RowsApart' /\ RefsApart' /\ CustomersStay]_vars
  PROVE  RefsInv' /\ NoNewClash
<1>0. HandoverTypeOK /\ HandoverTypeOK' /\ GateInv /\ GateInv'
  BY GateInductive DEF RefsInv, GateInv
<1> DEFINE Kept == RowsApart' /\ RefsApart' /\ CustomersStay
<1>1. ASSUME NEW c \in Clerk, NEW h \in Row, NEW r \in Ref \cup {None},
             StartCreate(c, h, r), Kept
      PROVE  RefsInv' /\ NoNewClash
  <2>1. /\ GoesOn(c) /\ status[h] = "absent"
        /\ row'[c] = h /\ seen'[c] = Stored(h) /\ ref'[c] = r
        /\ step'[c] = IF r = None THEN "checked" ELSE "creating"
    BY <1>0, <1>1, CreateGoesOn
  <2>2. Current(c)'
    BY <2>1 DEF Current, Stored, GoesOn, columns
  <2> QED
    BY <1>0, <1>1, <2>1, <2>2, RefsGoOn
<1>2. ASSUME NEW c \in Clerk, NEW h \in Row, Kept,
             \/ \E r \in Ref : StartCapture(c, h, r)
             \/ StartPatch(c, h)
             \/ StartCancel(c, h)
      PROVE  RefsInv' /\ NoNewClash
  <2>1. /\ GoesOn(c) /\ Live(h) /\ row'[c] = h /\ seen'[c] = Stored(h)
        /\ step'[c] \in {"patching", "cancelling", "capturing"}
    BY <1>0, <1>2, LoadGoesOn
  <2>2. Current(c)'
    BY <2>1 DEF Current, Stored, GoesOn, columns, Live
  <2> QED
    BY <1>0, <1>2, <2>1, <2>2, RefsGoOn
<1>3. ASSUME NEW c \in Clerk, Check(c), Kept
      PROVE  RefsInv' /\ NoNewClash
  <2>1. /\ GoesOn(c) /\ UNCHANGED <<row, seen, ref>>
        /\ ~Clashes(c) /\ step[c] \in {"capturing", "creating"}
        /\ step'[c] = "checked" /\ Busy(c) /\ row[c] \in Row
    BY <1>0, <1>3, CheckGoesOn DEF Check, HandoverTypeOK, Busy
  <2>2. Clashes(c)' <=> Clashes(c)
    BY <2>1 DEF Clashes, GoesOn, columns, Live
  <2>3. status[row[c]] # "cancelled"
    <3>1. CASE step[c] = "capturing"
      BY <2>1, <3>1 DEF RefsInv, Current, Live
    <3>2. CASE step[c] = "creating"
      BY <1>0, <3>2 DEF GateInv, Remembered, Making
    <3> QED
      BY <2>1, <3>1, <3>2
  <2>4. Current(c)'
    BY <2>1, <2>2, <2>3 DEF RefsInv, Current, Busy, GoesOn, columns
  <2> QED
    BY <1>0, <1>3, <2>1, <2>4, RefsGoOn
<1>4. ASSUME NEW c \in Clerk, SaveCreate(c) \/ SaveCapture(c), Kept
      PROVE  RefsInv' /\ NoNewClash
  <2>1. Ends(c)
    BY <1>0, <1>4, SavesEnd DEF Saves
  <2>2. /\ customer' = customer /\ step[c] = "checked" /\ row[c] \in Row
        /\ Busy(c)
    BY <1>0, <1>4, BusyHasARow DEF SaveCreate, SaveCapture, Busy
  <2>3. /\ ref[c] # None => ~Clashes(c)
        /\ ref[c] # None => seen[c].customer = customer[row[c]]
        /\ seen[c].po = po[row[c]]
    BY <2>2 DEF RefsInv, Current
  <2>4. po'[row[c]] = ref[c]
    <3>1. CASE SaveCreate(c)
      BY <1>0, <2>2, <3>1 DEF SaveCreate, HandoverTypeOK
    <3>2. CASE SaveCapture(c)
      BY <1>0, <2>2, <2>3, <3>2 DEF SaveCapture, Flush, HandoverTypeOK
    <3> QED
      BY <1>4, <3>1, <3>2
  <2>5. OwnReference(row[c])
    BY <2>3, <2>4 DEF OwnReference, Clashes
  <2> QED
    BY <1>0, <1>4, <2>1, <2>2, <2>4, <2>5, RefsEnd
<1>5. ASSUME NEW c \in Clerk, SaveCancel(c) \/ Abort(c), Kept
      PROVE  RefsInv' /\ NoNewClash
  <2>1. Ends(c)
    BY <1>0, <1>5, SavesEnd DEF Saves
  <2>2. UNCHANGED <<customer, po>>
    BY <1>5 DEF SaveCancel, Abort, columns
  <2>3. StaysLive(row[c]) => Live(row[c])
    <3>1. CASE SaveCancel(c)
      BY <1>0, <3>1, BusyHasARow DEF SaveCancel, StaysLive, HandoverTypeOK
    <3>2. CASE Abort(c)
      BY <3>2 DEF Abort, columns, Live, StaysLive
    <3> QED
      BY <1>5, <3>1, <3>2
  <2> QED
    BY <1>0, <1>5, <2>1, <2>2, <2>3, RefsEnd DEF OwnReference
<1>6. ASSUME NEW c \in Clerk, NEW s \in Status \cup {"none"},
             NEW p \in Project \cup {None}, NEW ack \in BOOLEAN,
             NEW complete \in BOOLEAN, NEW name \in Customer,
             SavePatch(c, s, p, ack, name, complete), Kept
      PROVE  RefsInv' /\ NoNewClash
  <2>1. Ends(c)
    BY <1>0, <1>6, SavesEnd DEF Saves
  <2>2. po' = po /\ step[c] = "patching" /\ row[c] \in Row /\ Busy(c)
    BY <1>0, <1>6, BusyHasARow DEF SavePatch, Busy
  <2>3. Live(row[c])
    BY <2>2 DEF RefsInv, Current
  <2>4. CASE customer' = customer
    BY <1>0, <1>6, <2>1, <2>2, <2>3, <2>4, RefsEnd DEF OwnReference
  <2>5. CASE customer' # customer
    <3>1. Current(c)' /\ OthersWait(c)
      BY <1>0, <2>1 DEF Ends, Done, Current, Busy, HandoverTypeOK
    <3>2. \A k \in Row : \/ status'[k] = status[k]
                         \/ k = row[c] /\ (StaysLive(k) => Live(k))
      BY <2>1, <2>3 DEF Ends
    <3>3. \A d \in Clerk : ref[d] = None
      BY <1>6, <2>5 DEF CustomersStay
    <3> QED
      BY <1>0, <1>6, <2>2, <3>1, <3>2, <3>3, RefsRename
  <2> QED
    BY <2>4, <2>5
<1>7. ASSUME NEW c \in Clerk, NEW loser \in Customer,
             NEW survivor \in Customer, Merge(c, loser, survivor), Kept
      PROVE  RefsInv' /\ NoNewClash
  <2>1. UNCHANGED <<status, po, project, acked, step, row, seen, ref>>
    BY <1>7, MergeMoves
  <2>2. step[c] = "idle" /\ OthersWait(c) /\ Current(c)'
    BY <1>7, <2>1 DEF Merge, OthersWait, Current, Busy
  <2>3. CASE customer' = customer
    BY <1>0, <1>7, <2>1, <2>2, <2>3, RefsGoOn DEF GoesOn, columns
  <2>4. CASE customer' # customer
    <3>1. \A d \in Clerk : ref[d] = None
      BY <1>7, <2>4 DEF CustomersStay
    <3> QED
      BY <1>0, <1>7, <2>1, <2>2, <3>1, RefsRename
  <2> QED
    BY <2>3, <2>4
<1>8. CASE UNCHANGED vars
  <2>1. \A c \in Clerk : Current(c)'
    BY <1>8
       DEF RefsInv, vars, columns, requests, Current, Live, Clashes, Busy
  <2>2. NoNewClash
    BY <1>8, NoneBrought DEF vars, columns, Live, StaysLive
  <2> QED
    BY <1>0, <1>8, <2>1, <2>2
       DEF RefsInv, RowsApart, RefsApart, Busy, vars, requests
<1> QED
  BY <1>1, <1>2, <1>3, <1>4, <1>5, <1>6, <1>7, <1>8 DEF Next

\* "A PO reference can be attached to only one handover": with any number of
\* workers, while requests keep off each other's rows, no two bring the same
\* reference for one customer and no handover changes customer in between, two
\* handovers of a customer come to hold one reference only by a step that
\* changes a customer: a PATCH of the name, or a merge of accounts.  No
\* condition can be dropped (the README gives the counterexamples).
THEOREM OnePoOneHandoverWhenRefsApart == RefsSpec => OnePoOneHandover
<1>1. Init => RefsInv
  BY ApartInitially DEF Init, RefsInv, Current, Busy
<1>2. RefsInv /\ [Next /\ RowsApart' /\ RefsApart' /\ CustomersStay]_vars
        => RefsInv'
  BY RefsInductive
<1>3. RefsInv /\ [Next /\ RowsApart' /\ RefsApart' /\ CustomersStay]_vars
        => [NoNewClash]_vars
  BY RefsInductive
<1>4. [NoNewClash]_vars
        => [\A h, k \in Row :
              Clash(h, k)' => \/ Clash(h, k)
                              \/ customer'[h] # customer[h]
                              \/ customer'[k] # customer[k]]_vars
  BY DEF NoNewClash
<1> QED
  BY <1>1, <1>2, <1>3, <1>4, PTL DEF RefsSpec, OnePoOneHandover

-----------------------------------------------------------------------------
\* What TLC checks with two workers is each of the three.
THEOREM ApartIsEach == ApartSpec => RowsSpec /\ DealsSpec /\ RefsSpec
<1>1. [Next /\ Apart' /\ CustomersStay]_vars
        => /\ [Next /\ RowsApart']_vars
           /\ [Next /\ DealsApart']_vars
           /\ [Next /\ RowsApart' /\ RefsApart' /\ CustomersStay]_vars
  BY DEF Apart
<1> QED
  BY <1>1, PTL DEF ApartSpec, RowsSpec, DealsSpec, RefsSpec

\* One worker keeps apart from itself: all three hold of every behaviour when
\* one request is handled at a time.
THEOREM OneWorkerIsApart ==
  ASSUME \A c, d \in Clerk : c = d
  PROVE  Spec => ApartSpec
<1>1. Apart'
  BY DEF Apart, RowsApart, DealsApart, RefsApart
<1>2. HandoverTypeOK /\ Next => CustomersStay
  <2> SUFFICES ASSUME HandoverTypeOK, Next, customer' # customer,
                      NEW c \in Clerk
               PROVE  ref[c] = None
    BY DEF CustomersStay
  <2>1. step[c] \in {"idle", "patching"}
    <3>1. ASSUME NEW d \in Clerk, NEW h \in Row,
                 \/ \E r \in Ref \cup {None} : StartCreate(d, h, r)
                 \/ \E r \in Ref : StartCapture(d, h, r)
                 \/ StartPatch(d, h)
                 \/ StartCancel(d, h)
          PROVE  customer' = customer
      BY <3>1 DEF StartCreate, StartCapture, StartPatch, StartCancel, columns
    <3>2. ASSUME NEW d \in Clerk,
                 \/ Check(d) \/ SaveCreate(d) \/ SaveCapture(d)
                 \/ SaveCancel(d) \/ Abort(d)
          PROVE  customer' = customer
      BY <3>2 DEF Check, SaveCreate, SaveCapture, SaveCancel, Abort, columns
    <3> QED
      BY <3>1, <3>2 DEF Next, SavePatch, Merge
  <2> QED
    BY <2>1 DEF HandoverTypeOK
<1>3. HandoverTypeOK /\ [Next]_vars => [Next /\ Apart' /\ CustomersStay]_vars
  BY <1>1, <1>2
<1> QED
  BY <1>3, HandoverTypeCorrect, PTL DEF Spec, ApartSpec
=============================================================================
