----------------------- MODULE QuoteLifecycle_proofs -----------------------
(***************************************************************************)
(* Theorems about the life of a quotation, for any number of workers,      *)
(* quotes, prices and people.                                              *)
(***************************************************************************)
EXTENDS QuoteLifecycle, TLAPS

-----------------------------------------------------------------------------
(* Types *)

LEMMA MemoryIsRows ==
  ASSUME NEW f \in Memory
  PROVE  /\ DOMAIN f \subseteq Quote
         /\ \A q \in DOMAIN f : f[q] \in Columns
BY DEF Memory

LEMMA RowsAreMemory ==
  ASSUME NEW S \in SUBSET Quote, NEW f \in [S -> Columns]
  PROVE  f \in Memory
BY DEF Memory

LEMMA StoredIsARow ==
  ASSUME QuoteTypeOK, NEW q \in Quote, status[q] # "absent"
  PROVE  Stored(q) \in Columns
BY DEF QuoteTypeOK, Stored, Columns

LEMMA SeenIsTyped ==
  ASSUME QuoteTypeOK, NEW c \in Clerk
  PROVE  /\ Rows(c) \subseteq Quote
         /\ \A q \in Rows(c) : /\ seen[c][q] \in Columns
                               /\ seen[c][q].status \in Status
                               /\ seen[c][q].lines \in Price
                               /\ seen[c][q].tax \in Tax
                               /\ seen[c][q].approver \in Person \cup {None}
<1>1. seen[c] \in Memory
  BY DEF QuoteTypeOK
<1>2. Rows(c) \subseteq Quote /\ \A q \in Rows(c) : seen[c][q] \in Columns
  BY <1>1, MemoryIsRows DEF Rows
<1> QED
  BY <1>2 DEF Columns

\* A request that changes a price.
Edits(c) ==
    \/ \E p \in Price : SaveEdit(c, p) \/ SaveCost(c, p)
    \/ \E t \in Tax : SaveTax(c, t)

LEMMA EditsLeaveTheRest ==
  ASSUME NEW c \in Clerk, Edits(c)
  PROVE  /\ step[c] \in {"editing", "pricing", "costing"} /\ Done(c)
         /\ UNCHANGED <<status, approver, root, rev, filed, owed, faults>>
BY DEF Edits, SaveEdit, SaveCost, SaveTax

LEMMA TotalType ==
  ASSUME NEW p \in Price, NEW t \in Tax
  PROVE  p \in Total /\ p + t \in Total /\ p \in Int /\ t \in Int
<1>1. p \in Int /\ t \in Int /\ 0 \in Tax
  BY QuoteAssumption
<1>2. p + 0 = p
  BY <1>1
<1>3. p + 0 \in Total /\ p + t \in Total
  BY <1>1 DEF Total
<1> QED
  BY <1>1, <1>2, <1>3

\* A request that is over, or that has just begun.
RequestsOK ==
    /\ seen \in [Clerk -> Memory]
    /\ step \in [Clerk -> Step]
    /\ by \in [Clerk -> Person \cup {None}]

LEMMA DoneKeepsTypes ==
  ASSUME QuoteTypeOK, NEW c \in Clerk, Done(c)
  PROVE  RequestsOK'
<1>1. [q \in {} |-> None] \in Memory
  <2>1. [q \in {} |-> None] \in [{} -> Columns]
    OBVIOUS
  <2>2. {} \in SUBSET Quote
    OBVIOUS
  <2> QED
    BY <2>1, <2>2, RowsAreMemory
<1>2. seen' \in [Clerk -> Memory]
  BY <1>1 DEF Done, QuoteTypeOK
<1> QED
  BY <1>2 DEF Done, QuoteTypeOK, RequestsOK, Step

LEMMA LoadKeepsTypes ==
  ASSUME QuoteTypeOK, NEW c \in Clerk, NEW S \in SUBSET Quote,
         \A q \in S : status[q] # "absent",
         NEW next \in Step, Load(c, S, next)
  PROVE  /\ seen' \in [Clerk -> Memory]
         /\ step' \in [Clerk -> Step]
<1>1. [q \in S |-> Stored(q)] \in [S -> Columns]
  BY StoredIsARow
<1>2. [q \in S |-> Stored(q)] \in Memory
  BY <1>1, RowsAreMemory
<1>3. seen' \in [Clerk -> Memory]
  BY <1>2 DEF Load, QuoteTypeOK
<1> QED
  BY <1>3 DEF Load, QuoteTypeOK

LEMMA MoveKeepsTypes ==
  ASSUME QuoteTypeOK, NEW c \in Clerk, step[c] \in DOMAIN Outcome, Move(c)
  PROVE  status' \in [Quote -> Status \cup {"absent"}]
<1>1. Outcome[step[c]] \in Status
  BY DEF Outcome, Status, Live, Final
<1> QED
  BY <1>1 DEF Move, QuoteTypeOK

\* What is asked of a quote before it is loaded: that it exists.
LEMMA WantedExists ==
  ASSUME NEW next \in DOMAIN Wanted
  PROVE  Wanted[next] \subseteq Status /\ next \in Step
BY DEF Wanted, Status, Live, Final, Step

LEMMA AbsentIsNoStatus == "absent" \notin Status
BY DEF Status, Live, Final

LEMMA QuoteTypeInductive ==
  ASSUME QuoteTypeOK, [Next]_vars
  PROVE  QuoteTypeOK'
<1>1. ASSUME NEW q \in Quote, NEW p \in Price, Create(q, p)
      PROVE  QuoteTypeOK'
  BY <1>1, TotalType, QuoteAssumption DEF QuoteTypeOK, Create, requests, Status, Live
<1>2. ASSUME NEW c \in Clerk, NEW q \in Quote, NEW u \in Person,
             StartApprove(c, q, u)
      PROVE  QuoteTypeOK'
  <2>1. status[q] # "absent" /\ "approving" \in Step
    BY <1>2, WantedExists, AbsentIsNoStatus DEF StartApprove, Wanted
  <2>2. seen' \in [Clerk -> Memory] /\ step' \in [Clerk -> Step]
    BY <1>2, <2>1, LoadKeepsTypes DEF StartApprove
  <2> QED
    BY <1>2, <2>2 DEF StartApprove, QuoteTypeOK, columns
<1>3. ASSUME NEW c \in Clerk, NEW q \in Quote, NEW next \in DOMAIN Wanted,
             Start(c, q, next)
      PROVE  QuoteTypeOK'
  <2>1. status[q] # "absent" /\ next \in Step
    BY <1>3, WantedExists, AbsentIsNoStatus DEF Start
  <2>2. seen' \in [Clerk -> Memory] /\ step' \in [Clerk -> Step]
    BY <1>3, <2>1, LoadKeepsTypes DEF Start
  <2> QED
    BY <1>3, <2>2 DEF Start, QuoteTypeOK, columns
<1>4. ASSUME NEW c \in Clerk, StartClose(c)  PROVE QuoteTypeOK'
  <2> DEFINE open == {q \in Quote : status[q] \notin {"absent", "won", "lost"}}
  <2>1. Load(c, open, "closing") /\ "closing" \in Step
    BY <1>4 DEF StartClose, Step
  <2>2. open \in SUBSET Quote /\ \A q \in open : status[q] # "absent"
    OBVIOUS
  <2>3. seen' \in [Clerk -> Memory] /\ step' \in [Clerk -> Step]
    BY <2>1, <2>2, LoadKeepsTypes
  <2> QED
    BY <1>4, <2>3 DEF StartClose, QuoteTypeOK, columns
<1>5. ASSUME NEW c \in Clerk, Edits(c)  PROVE QuoteTypeOK'
  <2>1. Rows(c) \subseteq Quote
        /\ \A q \in Rows(c) : seen[c][q].tax \in Tax /\ lines[q] \in Price
    BY SeenIsTyped DEF QuoteTypeOK
  <2>2. lines' \in [Quote -> Price]
    BY <1>5, <2>1 DEF Edits, SaveEdit, SaveCost, SaveTax, Flush, QuoteTypeOK
  <2>3. tax' \in [Quote -> Tax]
    BY <1>5, <2>1 DEF Edits, SaveEdit, SaveCost, SaveTax, Flush, QuoteTypeOK
  <2>4. PICK q \in Rows(c), x \in Total : Flush(total, q, x, seen[c][q].total)
    BY <1>5, <2>1, TotalType, QuoteAssumption
       DEF Edits, SaveEdit, SaveCost, SaveTax
  <2>5. total' \in [Quote -> Total]
    BY <2>1, <2>4 DEF Flush, QuoteTypeOK
  <2> QED
    BY <1>5, <2>2, <2>3, <2>5, EditsLeaveTheRest, DoneKeepsTypes
       DEF QuoteTypeOK, RequestsOK
<1>6. ASSUME NEW c \in Clerk, SaveMove(c)  PROVE QuoteTypeOK'
  <2>1. Done(c) /\ status' \in [Quote -> Status \cup {"absent"}]
    BY <1>6, MoveKeepsTypes DEF SaveMove, Outcome
  <2> QED
    BY <1>6, <2>1, DoneKeepsTypes DEF SaveMove, QuoteTypeOK, RequestsOK
<1>7. ASSUME NEW c \in Clerk, SaveApprove(c)  PROVE QuoteTypeOK'
  <2>1. Done(c) /\ status' \in [Quote -> Status \cup {"absent"}]
    BY <1>7, MoveKeepsTypes DEF SaveApprove, Outcome
  <2>2. approver' \in [Quote -> Person \cup {None}]
    BY <1>7 DEF SaveApprove, Flush, QuoteTypeOK
  <2> QED
    BY <1>7, <2>1, <2>2, DoneKeepsTypes DEF SaveApprove, QuoteTypeOK, RequestsOK
<1>8. ASSUME NEW c \in Clerk, NEW new \in Quote, SaveRevision(c, new)
      PROVE  QuoteTypeOK'
  <2>1. PICK old \in Rows(c) :
           /\ status' = [status EXCEPT ![new] = "draft", ![old] = "superseded"]
           /\ lines' = [lines EXCEPT ![new] = seen[c][old].lines]
           /\ tax' = [tax EXCEPT ![new] = seen[c][old].tax]
           /\ total' = [total EXCEPT
                  ![new] = seen[c][old].lines + seen[c][old].tax]
           /\ root' = [root EXCEPT ![new] = root[old]]
           /\ rev' = [rev EXCEPT ![new] = rev[old] + 1]
           /\ Done(c)
           /\ UNCHANGED <<approver, filed, owed, faults>>
    BY <1>8 DEF SaveRevision
  <2>2. /\ old \in Quote /\ seen[c][old].lines \in Price
        /\ seen[c][old].tax \in Tax
    BY <2>1, SeenIsTyped
  <2>3. /\ status' \in [Quote -> Status \cup {"absent"}]
        /\ root' \in [Quote -> Quote \cup {None}]
    BY <2>1, <2>2 DEF QuoteTypeOK, Status, Live, Final
  <2>4. /\ lines' \in [Quote -> Price] /\ tax' \in [Quote -> Tax]
        /\ total' \in [Quote -> Total]
    BY <2>1, <2>2, TotalType DEF QuoteTypeOK
  <2>5. rev' \in [Quote -> Nat]
    BY <2>1, <2>2 DEF QuoteTypeOK
  <2> QED
    BY <2>1, <2>3, <2>4, <2>5, DoneKeepsTypes DEF QuoteTypeOK, RequestsOK
<1>9. ASSUME NEW c \in Clerk, SaveWon(c)  PROVE QuoteTypeOK'
  <2>1. status' \in [Quote -> Status \cup {"absent"}]
    BY <1>9, MoveKeepsTypes DEF SaveWon, Outcome
  <2> QED
    BY <1>9, <2>1 DEF SaveWon, QuoteTypeOK, Step
<1>10. ASSUME NEW c \in Clerk, File(c) \/ Tell(c) \/ Crash(c)
       PROVE  QuoteTypeOK'
  <2>1. Rows(c) \subseteq Quote
    BY SeenIsTyped
  <2>2. filed' \subseteq Quote /\ owed' \subseteq Quote
    BY <1>10, <2>1 DEF File, Tell, Crash, QuoteTypeOK
  <2>3. faults' \in 0..FAULTS
    BY <1>10, QuoteAssumption DEF File, Tell, Crash, QuoteTypeOK
  <2>4. RequestsOK'
    <3>1. CASE File(c)
      BY <3>1 DEF File, RequestsOK, QuoteTypeOK, Step
    <3>2. CASE Tell(c) \/ Crash(c)
      BY <3>2, DoneKeepsTypes DEF Tell, Crash
    <3> QED
      BY <1>10, <3>1, <3>2
  <2>5. UNCHANGED columns
    BY <1>10 DEF File, Tell, Crash
  <2> QED
    BY <2>2, <2>3, <2>4, <2>5 DEF QuoteTypeOK, RequestsOK, columns
<1>11. ASSUME NEW c \in Clerk, Abort(c)  PROVE QuoteTypeOK'
  BY <1>11, DoneKeepsTypes DEF Abort, QuoteTypeOK, RequestsOK, columns
<1>12. CASE UNCHANGED vars
  BY <1>12 DEF QuoteTypeOK, vars, columns, requests
<1> QED
  BY <1>1, <1>2, <1>3, <1>4, <1>5, <1>6, <1>7, <1>8, <1>9, <1>10, <1>11,
     <1>12 DEF Next, Loads, GoesOn, Edits

LEMMA QuoteTypeInit == Init => QuoteTypeOK
<1> SUFFICES ASSUME Init PROVE QuoteTypeOK
  OBVIOUS
<1>1. [q \in {} |-> None] \in Memory
  <2>1. [q \in {} |-> None] \in [{} -> Columns] /\ {} \in SUBSET Quote
    OBVIOUS
  <2> QED
    BY <2>1, RowsAreMemory
<1>2. seen \in [Clerk -> Memory]
  BY <1>1 DEF Init
<1>3. total \in [Quote -> Total] /\ tax \in [Quote -> Tax]
  BY TotalType, QuoteAssumption DEF Init
<1> QED
  BY <1>2, <1>3, QuoteAssumption DEF Init, QuoteTypeOK, Step

\* Every column of the quotes and everything a request remembers keeps its
\* type, however many requests overlap.
THEOREM QuoteTypeCorrect == Spec => []QuoteTypeOK
<1>1. Init => QuoteTypeOK
  BY QuoteTypeInit
<1>2. QuoteTypeOK /\ [Next]_vars => QuoteTypeOK'
  BY QuoteTypeInductive
<1> QED
  BY <1>1, <1>2, PTL DEF Spec

-----------------------------------------------------------------------------
(* Nothing goes out unapproved *)

\* What a request on its way knows of an approver for good: one it saw is
\* still there, a request to send saw one, and one that approves has one.
Signed(c) ==
    /\ \A q \in Rows(c) : /\ seen[c][q].approver # None => approver[q] # None
                          /\ step[c] = "sending" => approver[q] # None
    /\ step[c] = "approving" => by[c] # None /\ \E q \in Quote : Rows(c) = {q}

SignedInv ==
    /\ QuoteTypeOK
    /\ SentWasApproved
    /\ \A c \in Clerk : Signed(c)

\* What every step does to the approver of a quote.
NeverUnsigned == \A q \in Quote : approver[q] # None => approver'[q] # None

LEMMA DoneIsSigned ==
  ASSUME QuoteTypeOK, NEW c \in Clerk, Done(c)
  PROVE  Signed(c)'
BY DEF Done, QuoteTypeOK, Signed, Rows

\* The requests of the others.
LEMMA OthersStaySigned ==
  ASSUME QuoteTypeOK, NeverUnsigned, NEW d \in Clerk, Signed(d),
         step'[d] = step[d], seen'[d] = seen[d], by'[d] = by[d]
  PROVE  Signed(d)'
<1>1. Rows(d)' = Rows(d) /\ Rows(d) \subseteq Quote
  BY SeenIsTyped DEF Rows
<1> QED
  BY <1>1 DEF Signed, NeverUnsigned

LEMMA ApproverGrows ==
  ASSUME QuoteTypeOK, NEW c \in Clerk, Signed(c), SaveApprove(c)
  PROVE  NeverUnsigned /\ \A q \in Rows(c) : approver'[q] # None
<1>1. PICK q \in Quote : Rows(c) = {q}
  BY DEF SaveApprove, Signed
<1>2. Flush(approver, q, by[c], seen[c][q].approver) /\ by[c] # None
  BY <1>1 DEF SaveApprove, Signed
<1>3. seen[c][q].approver # None => approver[q] # None
  BY <1>1 DEF Signed
<1> QED
  BY <1>1, <1>2, <1>3 DEF Flush, NeverUnsigned, QuoteTypeOK

LEMMA SignedInductive ==
  ASSUME SignedInv, [Next]_vars
  PROVE  SignedInv'
<1>0. QuoteTypeOK' /\ QuoteTypeOK
  BY QuoteTypeInductive DEF SignedInv
<1>1. ASSUME NEW q \in Quote, NEW p \in Price, Create(q, p)
      PROVE  SignedInv'
  <2>1. NeverUnsigned /\ SentWasApproved'
    BY <1>0, <1>1 DEF Create, NeverUnsigned, SentWasApproved, SignedInv,
                      QuoteTypeOK
  <2>2. \A d \in Clerk : Signed(d)'
    BY <1>0, <1>1, <2>1, OthersStaySigned DEF Create, requests, SignedInv
  <2> QED
    BY <1>0, <2>1, <2>2 DEF SignedInv
<1>2. ASSUME NEW c \in Clerk, NEW S \in SUBSET Quote,
             NEW next \in Step, Load(c, S, next), UNCHANGED columns,
             next = "sending" => \A q \in S : status[q] = "approved",
             next = "approving" => by'[c] # None /\ \E q \in Quote : S = {q},
             \A d \in Clerk \ {c} : by'[d] = by[d]
      PROVE  SignedInv'
  <2>1. NeverUnsigned /\ SentWasApproved'
    BY <1>2 DEF columns, NeverUnsigned, SentWasApproved, SignedInv
  <2>2. Rows(c)' = S /\ step'[c] = next
        /\ \A q \in S : seen'[c][q].approver = approver[q]
    BY <1>0, <1>2 DEF Load, Rows, Stored, QuoteTypeOK
  <2>3. \A q \in S : next = "sending" => approver[q] # None
    BY <1>2 DEF SignedInv, SentWasApproved
  <2>4. Signed(c)'
    BY <1>2, <2>2, <2>3 DEF Signed, columns
  <2>5. ASSUME NEW d \in Clerk \ {c}  PROVE Signed(d)'
    BY <1>0, <1>2, <2>1, <2>5, OthersStaySigned DEF Load, SignedInv, QuoteTypeOK
  <2> QED
    BY <1>0, <2>1, <2>4, <2>5 DEF SignedInv
<1>3. ASSUME NEW c \in Clerk, Done(c), NeverUnsigned, SentWasApproved'
      PROVE  SignedInv'
  <2>1. Signed(c)'
    BY <1>0, <1>3, DoneIsSigned
  <2>2. ASSUME NEW d \in Clerk \ {c}  PROVE Signed(d)'
    BY <1>0, <1>3, <2>2, OthersStaySigned DEF Done, SignedInv, QuoteTypeOK
  <2> QED
    BY <1>0, <1>3, <2>1, <2>2 DEF SignedInv
<1>4. ASSUME NEW c \in Clerk, NEW q \in Quote, NEW u \in Person,
             StartApprove(c, q, u)
      PROVE  SignedInv'
  <2>1. "approving" \in Step /\ by'[c] # None
    BY <1>0, <1>4, WantedExists, QuoteAssumption
       DEF StartApprove, Wanted, QuoteTypeOK
  <2>2. \A d \in Clerk \ {c} : by'[d] = by[d]
    BY <1>0, <1>4 DEF StartApprove, QuoteTypeOK
  <2> QED
    BY <1>2, <1>4, <2>1, <2>2 DEF StartApprove
<1>5. ASSUME NEW c \in Clerk, NEW q \in Quote,
             NEW next \in DOMAIN Wanted \ {"approving"}, Start(c, q, next)
      PROVE  SignedInv'
  <2>1. next \in Step /\ UNCHANGED <<columns, by>> /\ Load(c, {q}, next)
    BY <1>5, WantedExists DEF Start
  <2>2. next = "sending" => status[q] = "approved"
    BY <1>5 DEF Start, Wanted
  <2> QED
    BY <1>2, <1>5, <2>1, <2>2
<1>6. ASSUME NEW c \in Clerk, StartClose(c)  PROVE SignedInv'
  <2>1. PICK S \in SUBSET Quote : Load(c, S, "closing")
    BY <1>6 DEF StartClose
  <2>2. "closing" \in Step /\ UNCHANGED <<columns, by>>
    BY <1>6 DEF StartClose, Step
  <2> QED
    BY <1>2, <2>1, <2>2
<1>7. ASSUME NEW c \in Clerk, Edits(c)  PROVE SignedInv'
  <2>1. Done(c) /\ UNCHANGED <<status, approver>>
    BY <1>7, EditsLeaveTheRest
  <2> QED
    BY <1>3, <2>1 DEF NeverUnsigned, SentWasApproved, SignedInv
<1>8. ASSUME NEW c \in Clerk, SaveMove(c)  PROVE SignedInv'
  <2>1. Done(c) /\ UNCHANGED approver /\ Move(c)
    BY <1>8 DEF SaveMove
  <2>2. NeverUnsigned
    BY <2>1 DEF NeverUnsigned
  <2>3. ASSUME NEW q \in Quote, status'[q] \in {"approved", "submitted"}
        PROVE  approver'[q] # None
    <3>1. CASE status'[q] = status[q]
      BY <2>1, <2>3, <3>1 DEF SignedInv, SentWasApproved
    <3>2. CASE status'[q] # status[q]
      <4>1. q \in Rows(c) /\ status'[q] = Outcome[step[c]]
        BY <2>1, <3>2 DEF Move
      <4>2. step[c] = "sending"
        BY <1>8, <2>3, <4>1 DEF SaveMove, Outcome
      <4> QED
        BY <2>1, <4>1, <4>2 DEF SignedInv, Signed
    <3> QED
      BY <3>1, <3>2
  <2> QED
    BY <1>3, <2>1, <2>2, <2>3 DEF SentWasApproved
<1>9. ASSUME NEW c \in Clerk, SaveApprove(c)  PROVE SignedInv'
  <2>1. NeverUnsigned /\ \A q \in Rows(c) : approver'[q] # None
    BY <1>0, <1>9, ApproverGrows DEF SignedInv
  <2>2. SentWasApproved'
    BY <1>9, <2>1 DEF SaveApprove, Move, NeverUnsigned, SignedInv,
                      SentWasApproved
  <2> QED
    BY <1>3, <1>9, <2>1, <2>2 DEF SaveApprove
<1>10. ASSUME NEW c \in Clerk, NEW new \in Quote, SaveRevision(c, new)
       PROVE  SignedInv'
  <2>1. PICK old \in Rows(c) :
           status' = [status EXCEPT ![new] = "draft", ![old] = "superseded"]
    BY <1>10 DEF SaveRevision
  <2>2. Done(c) /\ UNCHANGED approver
    BY <1>10 DEF SaveRevision
  <2>3. NeverUnsigned /\ SentWasApproved'
    BY <1>0, <2>1, <2>2 DEF NeverUnsigned, SentWasApproved, SignedInv,
                            QuoteTypeOK
  <2> QED
    BY <1>3, <2>2, <2>3
<1>11. ASSUME NEW c \in Clerk, SaveWon(c) \/ File(c)  PROVE SignedInv'
  <2>1. UNCHANGED <<approver, seen, by>>
    BY <1>11 DEF SaveWon, File, columns
  <2>2. SentWasApproved'
    <3>1. CASE SaveWon(c)
      BY <3>1 DEF SaveWon, Move, Outcome, SignedInv, SentWasApproved
    <3>2. CASE File(c)
      BY <3>2 DEF File, columns, SignedInv, SentWasApproved
    <3> QED
      BY <1>11, <3>1, <3>2
  <2>3. step'[c] \in {"filing", "telling"}
        /\ \A d \in Clerk \ {c} : step'[d] = step[d]
    BY <1>0, <1>11 DEF SaveWon, File, QuoteTypeOK
  <2>4. NeverUnsigned
    BY <2>1 DEF NeverUnsigned
  <2>5. Signed(c)'
    BY <2>1, <2>3 DEF Signed, SignedInv, Rows
  <2>6. \A d \in Clerk \ {c} : Signed(d)'
    BY <1>0, <2>1, <2>3, <2>4, OthersStaySigned DEF SignedInv
  <2> QED
    BY <1>0, <2>2, <2>5, <2>6 DEF SignedInv
<1>12. ASSUME NEW c \in Clerk, Tell(c) \/ Crash(c) \/ Abort(c)
       PROVE  SignedInv'
  <2>1. Done(c) /\ UNCHANGED <<status, approver>>
    BY <1>12 DEF Tell, Crash, Abort, columns
  <2> QED
    BY <1>3, <2>1 DEF NeverUnsigned, SentWasApproved, SignedInv
<1>13. CASE UNCHANGED vars
  BY <1>0, <1>13 DEF vars, columns, requests, SignedInv, SentWasApproved,
                     Signed, Rows
<1> QED
  BY <1>1, <1>4, <1>5, <1>6, <1>7, <1>8, <1>9, <1>10, <1>11, <1>12, <1>13
     DEF Next, Loads, GoesOn, Edits

\* Nothing goes to a customer that nobody approved, however the requests
\* overlap and whatever they loaded before others changed it.
THEOREM SentWasApprovedAlways == Spec => []SentWasApproved
<1>1. Init => SignedInv
  <2> SUFFICES ASSUME Init PROVE SignedInv
    OBVIOUS
  <2>1. QuoteTypeOK
    BY QuoteTypeInit
  <2> QED
    BY <2>1 DEF Init, SignedInv, SentWasApproved, Signed, Rows
<1>2. SignedInv /\ [Next]_vars => SignedInv'
  BY SignedInductive
<1>3. SignedInv => SentWasApproved
  BY DEF SignedInv
<1> QED
  BY <1>1, <1>2, <1>3, PTL DEF Spec

-----------------------------------------------------------------------------
(* Requests that decide on rows of their own *)

\* What a request that is about to write a status has loaded is still what it
\* insisted on.
Holds(c) ==
    /\ Deciding(c) /\ step[c] # "closing" =>
          \E q \in Quote : Rows(c) = {q} /\ status[q] \in Wanted[step[c]]
    /\ step[c] = "closing" =>
          \A q \in Rows(c) : status[q] \in Live \cup {"superseded"}

\* A quote exists when it has a first version, which is its own.
Rooted ==
    \A q \in Quote : /\ status[q] = "absent" <=> root[q] = None
                     /\ root[q] # None => root[root[q]] = root[q]

\* The version still in play is the latest of its quotation.
Newest ==
    \A p, q \in Quote :
        root[p] = root[q] /\ root[q] # None /\ status[q] \in Live
          => rev[p] <= rev[q]

Chains == Rooted /\ Newest /\ OneVersionCounts /\ DistinctRevisions

ApartInv ==
    /\ QuoteTypeOK /\ Chains /\ RowsApart
    /\ \A c \in Clerk : Holds(c)

LEMMA DecidingIsWanted == DOMAIN Outcome \ {"closing"} \subseteq DOMAIN Wanted
BY DEF Outcome, Wanted

\* What a step may do to the status of a quote that exists.
Ages(q) ==
    /\ status'[q] \in Live => status[q] \in Live
    /\ status'[q] = "won" => status[q] \in Live \cup {"won"}
    /\ status'[q] = "absent" <=> status[q] = "absent"

Stays ==
    \A q \in Quote :
        /\ status[q] = "won" => status'[q] = "won"
        /\ status[q] \in {"superseded", "lost"}
             => status'[q] \in {"superseded", "lost"}

LEMMA AgingKeepsChains ==
  ASSUME Chains, \A q \in Quote : Ages(q), UNCHANGED <<root, rev>>
  PROVE  Chains'
<1>1. Rooted'
  BY DEF Chains, Rooted, Ages
<1>2. Newest'
  BY DEF Chains, Newest, Ages
<1>3. OneVersionCounts'
  BY DEF Chains, OneVersionCounts, Ages
<1>4. DistinctRevisions'
  BY DEF Chains, DistinctRevisions
<1> QED
  BY <1>1, <1>2, <1>3, <1>4 DEF Chains

\* A request that writes a status takes its quotes where it may.
LEMMA MoveAges ==
  ASSUME QuoteTypeOK, NEW c \in Clerk, Holds(c), Move(c),
         step[c] \in DOMAIN Outcome \ {"revising"}
  PROVE  Stays /\ \A q \in Quote : Ages(q)
<1>1. ASSUME NEW q \in Quote, q \notin Rows(c)
      PROVE  status'[q] = status[q]
  BY <1>1 DEF Move
<1>2. ASSUME NEW q \in Rows(c), step[c] = "closing"
      PROVE  /\ status[q] \in Live \cup {"superseded"}
             /\ status'[q] \in {status[q], "lost"}
  <2>1. q \in Quote
    BY SeenIsTyped
  <2> QED
    BY <1>2, <2>1 DEF Move, Outcome, Holds
<1>3. ASSUME NEW q \in Rows(c), step[c] # "closing"
      PROVE  /\ status[q] \in Live \cup {"won"}
             /\ status'[q] \in {status[q], Outcome[step[c]]}
             /\ status[q] = "won" => step[c] = "confirming"
  <2>1. q \in Quote
    BY SeenIsTyped
  <2>2. step[c] \in DOMAIN Wanted
                     \ {"costing", "editing", "pricing", "revising"}
    BY <1>3 DEF Outcome, Wanted
  <2>3. status[q] \in Wanted[step[c]]
    BY <1>3, <2>2 DEF Holds, Deciding
  <2>4. /\ status[q] \in Live \cup {"won"}
        /\ status[q] = "won" => step[c] = "confirming"
    BY <2>2, <2>3 DEF Wanted, Live
  <2> QED
    BY <2>1, <2>4 DEF Move
<1>4. ASSUME NEW q \in Quote
      PROVE  /\ Ages(q)
             /\ status[q] = "won" => status'[q] = "won"
             /\ status[q] \in {"superseded", "lost"}
                  => status'[q] \in {"superseded", "lost"}
  <2>1. CASE q \notin Rows(c)
    BY <1>1, <2>1 DEF Ages
  <2>2. CASE q \in Rows(c) /\ step[c] = "closing"
    BY <1>2, <2>2 DEF Ages, Live
  <2>3. CASE q \in Rows(c) /\ step[c] # "closing"
    BY <1>3, <2>3 DEF Ages, Live, Outcome
  <2> QED
    BY <2>1, <2>2, <2>3
<1> QED
  BY <1>4 DEF Stays

LEMMA RevisionKeepsChains ==
  ASSUME QuoteTypeOK, Chains, NEW old \in Quote, NEW new \in Quote,
         status[old] \in Live, status[new] = "absent",
         status' = [status EXCEPT ![new] = "draft", ![old] = "superseded"],
         root' = [root EXCEPT ![new] = root[old]],
         rev' = [rev EXCEPT ![new] = rev[old] + 1]
  PROVE  Stays /\ Chains'
<1>1. old # new /\ root[new] = None /\ root[old] # None
  BY DEF Chains, Rooted, Live
<1>2. /\ status'[new] = "draft" /\ status'[old] = "superseded"
      /\ root'[new] = root[old] /\ rev'[new] = rev[old] + 1
      /\ \A q \in Quote \ {new} : root'[q] = root[q] /\ rev'[q] = rev[q]
      /\ \A q \in Quote \ {old, new} : status'[q] = status[q]
  BY <1>1 DEF QuoteTypeOK
<1>3. Stays
  BY <1>1, <1>2 DEF Stays, Live
<1>4. Rooted'
  <2>1. \A q \in Quote : root[q] # None => root[q] \in Quote \ {new}
    BY <1>1 DEF QuoteTypeOK, Chains, Rooted
  <2>2. \A q \in Quote : root[q] # None => root'[root[q]] = root[q]
    BY <1>2, <2>1 DEF Chains, Rooted
  <2>3. \A q \in Quote : root'[q] # None => root'[root'[q]] = root'[q]
    BY <1>1, <1>2, <2>2
  <2>4. \A q \in Quote : status'[q] = "absent" <=> root'[q] = None
    BY <1>1, <1>2, ZenonT(60) DEF Chains, Rooted
  <2> QED
    BY <2>3, <2>4 DEF Rooted
<1>5. ASSUME NEW p \in Quote \ {new}, root[p] = root[old]
      PROVE  /\ rev[p] <= rev[old] /\ rev[p] \in Nat /\ rev[old] \in Nat
             /\ p # old => status[p] \notin Live \cup {"won"}
  BY <1>1, <1>5 DEF Chains, Newest, OneVersionCounts, QuoteTypeOK
<1>6. Newest'
  <2>1. ASSUME NEW p \in Quote, NEW q \in Quote, root'[p] = root'[q],
               root'[q] # None, status'[q] \in Live
        PROVE  rev'[p] <= rev'[q]
    <3>1. CASE q = new
      BY <1>2, <1>5, <2>1, <3>1 DEF QuoteTypeOK
    <3>2. CASE q # new
      <4>1. q # old /\ status[q] \in Live
        BY <1>2, <2>1, <3>2 DEF Live
      <4>2. root[q] # root[old]
        BY <1>5, <3>2, <4>1
      <4>3. p # new /\ root[p] = root[q] /\ root[q] # None
        BY <1>2, <2>1, <3>2, <4>2
      <4> QED
        BY <1>2, <3>2, <4>1, <4>3 DEF Chains, Newest
    <3> QED
      BY <3>1, <3>2
  <2> QED
    BY <2>1 DEF Newest
<1>7. OneVersionCounts'
  <2>1. ASSUME NEW p \in Quote, NEW q \in Quote, p # q, root'[p] = root'[q],
               root'[p] # None, status'[p] \in Live \cup {"won"}
        PROVE  status'[q] \notin Live \cup {"won"}
    <3>1. CASE p = new
      BY <1>2, <1>5, <2>1, <3>1, ZenonT(60) DEF Live
    <3>2. CASE p # new
      <4>1. p # old /\ status[p] \in Live \cup {"won"} /\ root[p] # None
        BY <1>2, <2>1, <3>2 DEF Live
      <4>2. root[p] # root[old]
        BY <1>5, <3>2, <4>1
      <4>3. q # new /\ root[q] = root[p]
        BY <1>2, <2>1, <3>2, <4>2
      <4>4. status[q] \notin Live \cup {"won"}
        BY <2>1, <4>1, <4>3 DEF Chains, OneVersionCounts
      <4> QED
        BY <1>2, <4>3, <4>4 DEF Live
    <3> QED
      BY <3>1, <3>2
  <2> QED
    BY <2>1 DEF OneVersionCounts
<1>8. DistinctRevisions'
  <2>1. ASSUME NEW p \in Quote, NEW q \in Quote, p # q, root'[p] = root'[q],
               root'[p] # None
        PROVE  rev'[p] # rev'[q]
    <3>1. CASE p = new
      BY <1>2, <1>5, <2>1, <3>1
    <3>2. CASE q = new
      BY <1>2, <1>5, <2>1, <3>2
    <3>3. CASE p # new /\ q # new
      BY <1>2, <2>1, <3>3 DEF Chains, DistinctRevisions
    <3> QED
      BY <3>1, <3>2, <3>3
  <2> QED
    BY <2>1 DEF DistinctRevisions
<1> QED
  BY <1>3, <1>4, <1>6, <1>7, <1>8 DEF Chains

\* A request whose rows keep their status, and that does nothing itself.
LEMMA OthersHold ==
  ASSUME QuoteTypeOK, NEW d \in Clerk, Holds(d),
         step'[d] = step[d], seen'[d] = seen[d],
         Deciding(d) => \A q \in Rows(d) : status'[q] = status[q]
  PROVE  Holds(d)'
<1>1. Rows(d)' = Rows(d) /\ (Deciding(d)' <=> Deciding(d))
  BY DEF Rows, Deciding
<1>2. step[d] = "closing" => Deciding(d)
  BY DEF Deciding, Outcome
<1> QED
  BY <1>1, <1>2 DEF Holds

\* No request holds a row that does not exist.
LEMMA HeldRowsExist ==
  ASSUME QuoteTypeOK, NEW d \in Clerk, Holds(d), Deciding(d), NEW q \in Rows(d)
  PROVE  status[q] # "absent"
<1>1. CASE step[d] = "closing"
  BY <1>1 DEF Holds, Live
<1>2. CASE step[d] # "closing"
  <2>1. status[q] \in Wanted[step[d]] /\ step[d] \in DOMAIN Wanted
    BY <1>2, DecidingIsWanted DEF Holds, Deciding
  <2> QED
    BY <2>1, WantedExists, AbsentIsNoStatus
<1> QED
  BY <1>1, <1>2

\* A step of one request c, and what it must leave alone.
LEMMA ApartStepOf ==
  ASSUME QuoteTypeOK, QuoteTypeOK', \A d \in Clerk : Holds(d), RowsApart',
         NEW c \in Clerk, Holds(c)', Chains',
         \A d \in Clerk \ {c} : step'[d] = step[d] /\ seen'[d] = seen[d],
         \A d \in Clerk \ {c} : Deciding(d) =>
             \A q \in Rows(d) : status'[q] = status[q]
  PROVE  ApartInv'
<1>1. ASSUME NEW d \in Clerk  PROVE Holds(d)'
  BY <1>1, OthersHold
<1> QED
  BY <1>1 DEF ApartInv

\* One step, with the other requests kept off the rows it decides on.
LEMMA ApartStep ==
  ASSUME ApartInv, [Next /\ RowsApart']_vars
  PROVE  ApartInv' /\ Stays
<1>0. /\ QuoteTypeOK /\ Chains /\ RowsApart /\ \A c \in Clerk : Holds(c)
      /\ [Next]_vars
  BY DEF ApartInv
<1>01. QuoteTypeOK'
  BY <1>0, QuoteTypeInductive
<1>02. ASSUME UNCHANGED vars  PROVE RowsApart'
  BY <1>0, <1>02 DEF vars, requests, RowsApart, Deciding, Rows
<1>03. RowsApart'
  BY <1>02
<1>04. step \in [Clerk -> Step] /\ seen \in [Clerk -> Memory]
       /\ status \in [Quote -> Status \cup {"absent"}]
  BY <1>0 DEF QuoteTypeOK
<1>1. ASSUME NEW q \in Quote, NEW p \in Price, Create(q, p)
      PROVE  ApartInv' /\ Stays
  <2>1. /\ status[q] = "absent" /\ status'[q] = "draft"
        /\ root[q] = None /\ root'[q] = q /\ q # None
        /\ \A x \in Quote \ {q} : /\ status'[x] = status[x]
                                  /\ root'[x] = root[x] /\ rev'[x] = rev[x]
    BY <1>0, <1>1, QuoteAssumption DEF Create, QuoteTypeOK, Chains, Rooted
  <2>2. \A x \in Quote \ {q} : root[x] # q
    BY <1>0, <2>1 DEF Chains, Rooted
  <2>3. Rooted'
    <3>1. \A x \in Quote : root[x] # None => root[x] \in Quote \ {q}
      BY <1>0, <2>1, <2>2 DEF QuoteTypeOK
    <3> QED
      BY <1>0, <2>1, <3>1 DEF Chains, Rooted
  <2>4. Newest'
    <3> SUFFICES ASSUME NEW x \in Quote, NEW y \in Quote, root'[x] = root'[y],
                        root'[y] # None, status'[y] \in Live
                 PROVE  rev'[x] <= rev'[y]
      BY DEF Newest
    <3>1. CASE x = q \/ y = q
      <4>1. x = y
        BY <2>1, <2>2, <3>1
      <4> QED
        BY <1>01, <4>1 DEF QuoteTypeOK
    <3>2. CASE x # q /\ y # q
      BY <1>0, <2>1, <3>2 DEF Chains, Newest
    <3> QED
      BY <3>1, <3>2
  <2>5. OneVersionCounts' /\ DistinctRevisions'
    BY <1>0, <2>1, <2>2 DEF Chains, OneVersionCounts, DistinctRevisions
  <2>6. Stays
    BY <2>1 DEF Stays
  <2>7. ASSUME NEW c \in Clerk  PROVE Holds(c)'
    <3>1. UNCHANGED <<step, seen>> /\ Rows(c) \subseteq Quote
      BY <1>0, <1>1, SeenIsTyped DEF Create, requests
    <3>2. Deciding(c) => \A x \in Rows(c) : status'[x] = status[x]
      BY <1>0, <2>1, <3>1, HeldRowsExist
    <3> QED
      BY <1>0, <3>1, <3>2, OthersHold
  <2> QED
    BY <1>01, <1>03, <2>3, <2>4, <2>5, <2>6, <2>7 DEF ApartInv, Chains
<1>2. ASSUME UNCHANGED <<status, root, rev>>  PROVE Stays /\ Chains'
  <2>1. Stays /\ \A q \in Quote : Ages(q)
    BY <1>2 DEF Stays, Ages
  <2> QED
    BY <1>0, <1>2, <2>1, AgingKeepsChains
<1>3. ASSUME NEW c \in Clerk, NEW S, NEW next \in Step, Load(c, S, next),
             next \in DOMAIN Wanted => \E q \in Quote : S = {q} /\ status[q] \in Wanted[next],
             next = "closing" => \A q \in S : status[q] \in Live \cup {"superseded"},
             UNCHANGED columns
      PROVE  ApartInv' /\ Stays
  <2>1. Rows(c)' = S /\ step'[c] = next /\ status' = status
    BY <1>0, <1>3 DEF Load, Rows, QuoteTypeOK, columns
  <2>2. Holds(c)'
    <3>1. Deciding(c)' /\ next # "closing" => next \in DOMAIN Wanted
      BY <2>1, DecidingIsWanted DEF Deciding
    <3>2. next \in DOMAIN Wanted
             => \E q \in Quote : Rows(c)' = {q} /\ status'[q] \in Wanted[next]
      BY <1>3, <2>1
    <3>3. next = "closing"
             => \A q \in Rows(c)' : status'[q] \in Live \cup {"superseded"}
      BY <1>3, <2>1
    <3> QED
      BY <2>1, <3>1, <3>2, <3>3 DEF Holds
  <2>3. \A d \in Clerk \ {c} : step'[d] = step[d] /\ seen'[d] = seen[d]
    BY <1>04, <1>3 DEF Load
  <2>4. Stays /\ Chains'
    BY <1>2, <1>3 DEF columns
  <2> QED
    BY <1>0, <1>01, <1>03, <2>1, <2>2, <2>3, <2>4, ApartStepOf
<1>4. ASSUME NEW c \in Clerk, StartClose(c)  PROVE ApartInv' /\ Stays
  <2> DEFINE open == {q \in Quote : status[q] \notin {"absent", "won", "lost"}}
  <2>1. Load(c, open, "closing") /\ UNCHANGED columns
    BY <1>4 DEF StartClose
  <2>2. \A q \in open : status[q] \in Live \cup {"superseded"}
    BY <1>0 DEF QuoteTypeOK, Status, Final
  <2>3. "closing" \in Step \ DOMAIN Wanted
    BY DEF Step, Wanted
  <2> QED
    BY <1>3, <2>1, <2>2, <2>3
<1>5. ASSUME NEW c \in Clerk, Done(c), Chains',
             \A d \in Clerk \ {c} : Deciding(d) =>
                 \A q \in Rows(d) : status'[q] = status[q]
      PROVE  ApartInv'
  <2>1. step'[c] = "idle"
        /\ \A d \in Clerk \ {c} : step'[d] = step[d] /\ seen'[d] = seen[d]
    BY <1>04, <1>5 DEF Done
  <2>2. Holds(c)'
    BY <2>1 DEF Holds, Deciding, Outcome
  <2> QED
    BY <1>0, <1>01, <1>03, <1>5, <2>1, <2>2, ApartStepOf
<1>6. ASSUME NEW c \in Clerk, Deciding(c), Move(c)
      PROVE  \A d \in Clerk \ {c} : Deciding(d) =>
                 \A q \in Rows(d) : status'[q] = status[q]
  <2> SUFFICES ASSUME NEW d \in Clerk \ {c}, Deciding(d), NEW q \in Rows(d)
               PROVE  status'[q] = status[q]
    OBVIOUS
  <2>1. q \in Quote /\ q \notin Rows(c)
    BY <1>0, <1>6, SeenIsTyped DEF RowsApart
  <2> QED
    BY <1>6, <2>1 DEF Move
<1>7. ASSUME NEW c \in Clerk, Move(c), UNCHANGED <<root, rev>>,
             step[c] \in DOMAIN Outcome \ {"revising"}
      PROVE  Stays /\ Chains'
  BY <1>0, <1>7, MoveAges, AgingKeepsChains
<1>8. ASSUME NEW c \in Clerk, Edits(c)  PROVE ApartInv' /\ Stays
  <2>1. Done(c) /\ UNCHANGED <<status, root, rev>>
    BY <1>8, EditsLeaveTheRest
  <2> QED
    BY <1>2, <1>5, <2>1
<1>9. ASSUME NEW c \in Clerk, SaveMove(c) \/ SaveApprove(c)
      PROVE  ApartInv' /\ Stays
  <2>1. Done(c) /\ Move(c) /\ UNCHANGED <<root, rev>>
        /\ step[c] \in DOMAIN Outcome \ {"revising"}
    BY <1>9 DEF SaveMove, SaveApprove, Outcome
  <2> QED
    BY <1>5, <1>6, <1>7, <2>1 DEF Deciding
<1>10. ASSUME NEW c \in Clerk, NEW new \in Quote, SaveRevision(c, new)
       PROVE  ApartInv' /\ Stays
  <2>1. PICK old \in Rows(c) :
           /\ step[c] = "revising" /\ status[new] = "absent"
           /\ status' = [status EXCEPT ![new] = "draft", ![old] = "superseded"]
           /\ root' = [root EXCEPT ![new] = root[old]]
           /\ rev' = [rev EXCEPT ![new] = rev[old] + 1]
           /\ Done(c)
    BY <1>10 DEF SaveRevision
  <2>2. Deciding(c)
    BY <2>1 DEF Deciding, Outcome
  <2>3. old \in Quote /\ status[old] \in Live
    BY <1>0, <2>1, <2>2 DEF Holds, Wanted
  <2>4. Stays /\ Chains'
    BY <1>0, <2>1, <2>3, RevisionKeepsChains
  <2>5. ASSUME NEW d \in Clerk \ {c}, Deciding(d), NEW q \in Rows(d)
        PROVE  status'[q] = status[q]
    <3>1. q \in Quote /\ q # old
      BY <1>0, <2>1, <2>2, <2>5, SeenIsTyped DEF RowsApart
    <3>2. q # new
      BY <1>0, <2>1, <2>5, HeldRowsExist
    <3> QED
      BY <1>04, <2>1, <3>1, <3>2
  <2> QED
    BY <1>5, <2>1, <2>4, <2>5
<1>11. ASSUME NEW c \in Clerk, SaveWon(c)  PROVE ApartInv' /\ Stays
  <2>1. Move(c) /\ UNCHANGED <<root, rev, seen>>
        /\ step[c] \in DOMAIN Outcome \ {"revising"}
    BY <1>11 DEF SaveWon, Outcome
  <2>2. step' = [step EXCEPT ![c] = "filing"]
    BY <1>11 DEF SaveWon
  <2>3. Holds(c)'
    BY <1>04, <2>2 DEF Holds, Deciding, Outcome
  <2> QED
    BY <1>0, <1>01, <1>03, <1>04, <1>6, <1>7, <2>1, <2>2, <2>3, ApartStepOf
       DEF Deciding
<1>12. ASSUME NEW c \in Clerk, File(c)  PROVE ApartInv' /\ Stays
  <2>1. step' = [step EXCEPT ![c] = "telling"] /\ UNCHANGED <<columns, seen>>
    BY <1>12 DEF File
  <2>2. Holds(c)'
    BY <1>04, <2>1 DEF Holds, Deciding, Outcome
  <2>3. UNCHANGED <<status, root, rev>>
    BY <2>1 DEF columns
  <2> QED
    BY <1>0, <1>01, <1>03, <1>04, <1>2, <2>1, <2>2, <2>3, ApartStepOf
<1>13. ASSUME NEW c \in Clerk, Tell(c) \/ Crash(c) \/ Abort(c)
       PROVE  ApartInv' /\ Stays
  <2>1. Done(c) /\ UNCHANGED <<status, root, rev>>
    BY <1>13 DEF Tell, Crash, Abort, columns
  <2> QED
    BY <1>2, <1>5, <2>1
<1>14. CASE UNCHANGED vars
  <2>1. UNCHANGED <<status, root, rev, step, seen>>
    BY <1>14 DEF vars, columns, requests
  <2>2. \A c \in Clerk : Holds(c)'
    BY <1>0, <2>1, OthersHold
  <2> QED
    BY <1>01, <1>03, <1>2, <2>1, <2>2 DEF ApartInv
<1>15. ASSUME NEW c \in Clerk, NEW q \in Quote, NEW u \in Person,
              StartApprove(c, q, u)
       PROVE  ApartInv' /\ Stays
  <2>1. "approving" \in DOMAIN Wanted /\ "approving" \in Step
    BY DEF Wanted, Step
  <2> QED
    BY <1>3, <1>15, <2>1 DEF StartApprove
<1>16. ASSUME NEW c \in Clerk, NEW q \in Quote, NEW next \in DOMAIN Wanted,
              Start(c, q, next)
       PROVE  ApartInv' /\ Stays
  <2>1. next \in Step /\ next # "closing"
    BY WantedExists DEF Wanted
  <2> QED
    BY <1>3, <1>16, <2>1 DEF Start
<1> QED
  BY <1>0, <1>1, <1>4, <1>8, <1>9, <1>10, <1>11, <1>12, <1>13, <1>14, <1>15,
     <1>16 DEF Next, Loads, GoesOn, Edits

LEMMA ApartInit == Init => ApartInv
<1> SUFFICES ASSUME Init PROVE ApartInv
  OBVIOUS
<1>1. QuoteTypeOK
  BY QuoteTypeInit
<1>2. \A c \in Clerk : ~Deciding(c)
  BY DEF Init, Deciding, Outcome
<1> QED
  BY <1>1, <1>2 DEF Init, ApartInv, Chains, Rooted, Newest, OneVersionCounts,
              DistinctRevisions, RowsApart, Holds, Deciding, Outcome

\* Only a load can bring two requests together: one that goes on keeps the rows
\* it holds or lets go of them, and in the end decides nothing.
LEMMA GoingOnStaysApart ==
  ASSUME QuoteTypeOK, RowsApart, NEW c \in Clerk, GoesOn(c)
  PROVE  RowsApart'
<1>1. step \in [Clerk -> Step] /\ seen \in [Clerk -> Memory]
  BY DEF QuoteTypeOK
<1>2. \A d \in Clerk \ {c} : step'[d] = step[d] /\ seen'[d] = seen[d]
  <2>1. CASE SaveWon(c) \/ File(c)
    BY <1>1, <2>1 DEF SaveWon, File
  <2>2. CASE Done(c)
    BY <1>1, <2>2 DEF Done
  <2> QED
    BY <2>1, <2>2 DEF GoesOn, SaveEdit, SaveTax, SaveCost, SaveMove,
       SaveApprove, SaveRevision, Tell, Crash, Abort
<1>3. step'[c] \in {"idle", "filing", "telling"}
  <2>1. CASE SaveWon(c) \/ File(c)
    BY <1>1, <2>1 DEF SaveWon, File
  <2>2. CASE Done(c)
    BY <1>1, <2>2 DEF Done
  <2> QED
    BY <2>1, <2>2 DEF GoesOn, SaveEdit, SaveTax, SaveCost, SaveMove,
       SaveApprove, SaveRevision, Tell, Crash, Abort
<1>4. ~Deciding(c)'
  BY <1>3 DEF Deciding, Outcome
<1>5. \A d \in Clerk \ {c} : Deciding(d)' = Deciding(d) /\ Rows(d)' = Rows(d)
  BY <1>2 DEF Deciding, Rows
<1> QED
  BY <1>4, <1>5 DEF RowsApart

LEMMA NextStaysApart ==
  ASSUME ApartInv, [ApartNext]_vars
  PROVE  [Next /\ RowsApart']_vars
<1>0. QuoteTypeOK /\ RowsApart
  BY DEF ApartInv
<1>1. ASSUME NEW q \in Quote, NEW p \in Price, Create(q, p)
      PROVE  Next /\ RowsApart'
  BY <1>0, <1>1 DEF Create, requests, RowsApart, Deciding, Rows, Next
<1>2. ASSUME NEW c \in Clerk, Loads(c), RowsApart'  PROVE Next /\ RowsApart'
  BY <1>2 DEF Next
<1>3. ASSUME NEW c \in Clerk, GoesOn(c)  PROVE Next /\ RowsApart'
  BY <1>0, <1>3, GoingOnStaysApart DEF Next
<1> QED
  BY <1>1, <1>2, <1>3 DEF ApartNext

\* A single worker is never in anybody's way: what holds of requests apart holds
\* of one request at a time.
THEOREM OneWorkerIsApart ==
  ASSUME \A c, d \in Clerk : c = d
  PROVE  Spec => ApartSpec
<1>1. RowsApart'
  BY DEF RowsApart
<1>2. [Next]_vars => [ApartNext]_vars
  BY <1>1 DEF Next, ApartNext
<1> QED
  BY <1>2, PTL DEF Spec, ApartSpec

\* Of the versions of a quotation at most one can still be sent, or is won, for
\* any number of workers, quotes and revisions, as long as no two requests
\* decide on one row.
THEOREM OneVersionCountsWhenApart == ApartSpec => []OneVersionCounts
<1>1. ApartInv /\ [ApartNext]_vars => ApartInv'
  BY ApartStep, NextStaysApart
<1>2. ApartInv => OneVersionCounts
  BY DEF ApartInv, Chains
<1> QED
  BY <1>1, <1>2, ApartInit, PTL DEF ApartSpec

\* No two versions of a quotation carry the same revision number.
THEOREM DistinctRevisionsWhenApart == ApartSpec => []DistinctRevisions
<1>1. ApartInv /\ [ApartNext]_vars => ApartInv'
  BY ApartStep, NextStaysApart
<1>2. ApartInv => DistinctRevisions
  BY DEF ApartInv, Chains
<1> QED
  BY <1>1, <1>2, ApartInit, PTL DEF ApartSpec

\* What is won stays won and what was lost or superseded stays out of play,
\* through every route that writes a status.
THEOREM FinalStaysFinalWhenApart == ApartSpec => FinalStaysFinal
<1>1. ApartInv /\ [ApartNext]_vars => ApartInv'
  BY ApartStep, NextStaysApart
<1>2. ApartInv /\ [ApartNext]_vars => [Stays]_vars
  BY ApartStep, NextStaysApart
<1>3. ApartSpec => [][Stays]_vars
  BY <1>1, <1>2, ApartInit, PTL DEF ApartSpec
<1> QED
  BY <1>3 DEF Stays, FinalStaysFinal
-----------------------------------------------------------------------------
(* A win and what follows it, for requests that overlap as they like *)

Filing(q) == \E c \in Clerk : step[c] = "filing" /\ q \in Rows(c)
Telling(q) == \E c \in Clerk : step[c] = "telling" /\ q \in Rows(c)

\* A won quote has its handover and its event, or a request is on its way to
\* make them, or something has failed.
WinsAreInHand ==
    \A q \in Quote \ Forwarding : status[q] = "won" =>
        /\ q \in filed \/ Filing(q) \/ faults > 0
        /\ q \in owed \/ Filing(q) \/ Telling(q) \/ faults > 0

\* Only a Forwarding quote is confirmed.
ConfirmsForwarding ==
    \A c \in Clerk : step[c] = "confirming" => Rows(c) \subseteq Forwarding

WinInv == QuoteTypeOK /\ WinsAreInHand /\ ConfirmsForwarding

\* A step of c that neither wins a quote nor belongs to a win.
LEMMA OtherStepsKeepWins ==
  ASSUME WinInv, QuoteTypeOK', NEW c \in Clerk,
         step[c] \notin {"filing", "telling"},
         step'[c] = "confirming" => Rows(c)' \subseteq Forwarding,
         \A d \in Clerk \ {c} : step'[d] = step[d] /\ seen'[d] = seen[d],
         UNCHANGED <<filed, owed, faults>>,
         \A q \in Quote \ Forwarding : status'[q] = "won" => status[q] = "won"
  PROVE  WinInv'
<1>1. \A d \in Clerk \ {c} : Rows(d)' = Rows(d)
  BY DEF Rows
<1>2. ConfirmsForwarding'
  BY <1>1 DEF WinInv, ConfirmsForwarding
<1>3. \A q \in Quote : (Filing(q) => Filing(q)') /\ (Telling(q) => Telling(q)')
  BY <1>1 DEF Filing, Telling
<1>4. WinsAreInHand'
  BY <1>3 DEF WinInv, WinsAreInHand
<1> QED
  BY <1>2, <1>4 DEF WinInv

LEMMA WinStep ==
  ASSUME WinInv, [Next]_vars
  PROVE  WinInv'
<1>0. QuoteTypeOK /\ QuoteTypeOK'
  BY QuoteTypeInductive DEF WinInv
<1>01. step \in [Clerk -> Step] /\ seen \in [Clerk -> Memory]
       /\ status \in [Quote -> Status \cup {"absent"}] /\ faults \in Nat
  BY <1>0, QuoteAssumption DEF QuoteTypeOK
<1>1. ASSUME NEW q \in Quote, NEW p \in Price, Create(q, p)  PROVE WinInv'
  <2>1. UNCHANGED <<filed, owed, step, seen, faults>>
        /\ status' = [status EXCEPT ![q] = "draft"]
    BY <1>1 DEF Create, requests
  <2>2. \A x \in Quote : status'[x] = "won" => status[x] = "won"
    BY <1>01, <2>1
  <2> QED
    BY <1>0, <2>1, <2>2
       DEF WinInv, WinsAreInHand, ConfirmsForwarding, Filing, Telling, Rows
<1>2. ASSUME NEW c \in Clerk, NEW q \in Quote, NEW u \in Person,
             StartApprove(c, q, u)
      PROVE  WinInv'
  <2>1. /\ UNCHANGED <<status, filed, owed, faults>>
        /\ step[c] = "idle" /\ step'[c] = "approving"
        /\ \A d \in Clerk \ {c} : step'[d] = step[d] /\ seen'[d] = seen[d]
    BY <1>01, <1>2 DEF StartApprove, Load, columns
  <2> QED
    BY <1>0, <2>1, OtherStepsKeepWins
<1>3. ASSUME NEW c \in Clerk, NEW q \in Quote, NEW next \in DOMAIN Wanted,
             Start(c, q, next)
      PROVE  WinInv'
  <2>1. /\ UNCHANGED <<status, filed, owed, faults>>
        /\ step[c] = "idle" /\ step'[c] = next
        /\ next = "confirming" => q \in Forwarding
        /\ \A d \in Clerk \ {c} : step'[d] = step[d] /\ seen'[d] = seen[d]
    BY <1>01, <1>3 DEF Start, Load, columns
  <2>2. Rows(c)' = {q}
    BY <1>01, <1>3 DEF Start, Load, Rows
  <2> QED
    BY <1>0, <2>1, <2>2, OtherStepsKeepWins
<1>4. ASSUME NEW c \in Clerk, StartClose(c)  PROVE WinInv'
  <2>1. /\ UNCHANGED <<status, filed, owed, faults>>
        /\ step[c] = "idle" /\ step'[c] = "closing"
        /\ \A d \in Clerk \ {c} : step'[d] = step[d] /\ seen'[d] = seen[d]
    BY <1>01, <1>4 DEF StartClose, Load, columns
  <2> QED
    BY <1>0, <2>1, OtherStepsKeepWins
<1>5. ASSUME NEW c \in Clerk, Done(c), step[c] \notin {"filing", "telling"},
             UNCHANGED <<filed, owed, faults>>,
             \A q \in Quote \ Forwarding : status'[q] = "won" => status[q] = "won"
      PROVE  WinInv'
  <2>1. /\ step'[c] = "idle"
        /\ \A d \in Clerk \ {c} : step'[d] = step[d] /\ seen'[d] = seen[d]
    BY <1>01, <1>5 DEF Done
  <2> QED
    BY <1>0, <1>5, <2>1, OtherStepsKeepWins
<1>6. ASSUME NEW c \in Clerk, Edits(c)  PROVE WinInv'
  BY <1>5, <1>6, EditsLeaveTheRest
<1>7. ASSUME NEW c \in Clerk, SaveMove(c) \/ SaveApprove(c)  PROVE WinInv'
  <2>1. /\ Move(c) /\ Done(c) /\ UNCHANGED <<filed, owed, faults>>
        /\ step[c] \in DOMAIN Outcome \ {"winning", "revising"}
    BY <1>7 DEF SaveMove, SaveApprove, Outcome
  <2>2. ASSUME NEW q \in Quote \ Forwarding, status'[q] = "won", status[q] # "won"
        PROVE  FALSE
    <3>1. q \in Rows(c) /\ Outcome[step[c]] = "won"
      BY <2>1, <2>2 DEF Move
    <3>2. step[c] = "confirming"
      BY <2>1, <3>1 DEF Outcome
    <3> QED
      BY <2>2, <3>1, <3>2 DEF WinInv, ConfirmsForwarding
  <2>3. step[c] \notin {"filing", "telling"}
    BY <2>1 DEF Outcome
  <2> QED
    BY <1>5, <2>1, <2>2, <2>3
<1>8. ASSUME NEW c \in Clerk, NEW new \in Quote, SaveRevision(c, new)
      PROVE  WinInv'
  <2>1. PICK old \in Rows(c) :
           status' = [status EXCEPT ![new] = "draft", ![old] = "superseded"]
    BY <1>8 DEF SaveRevision
  <2>2. Done(c) /\ step[c] = "revising" /\ UNCHANGED <<filed, owed, faults>>
    BY <1>8 DEF SaveRevision
  <2>3. \A q \in Quote : status'[q] = "won" => status[q] = "won"
    BY <1>01, <2>1
  <2> QED
    BY <1>5, <2>2, <2>3
<1>9. ASSUME NEW c \in Clerk, SaveWon(c)  PROVE WinInv'
  <2>1. /\ Move(c) /\ UNCHANGED <<filed, owed, faults, seen>>
        /\ step[c] = "winning" /\ step' = [step EXCEPT ![c] = "filing"]
    BY <1>9 DEF SaveWon
  <2>2. /\ step'[c] = "filing" /\ \A d \in Clerk : Rows(d)' = Rows(d)
        /\ \A d \in Clerk \ {c} : step'[d] = step[d]
    BY <1>01, <2>1 DEF Rows
  <2>3. \A q \in Quote : (Filing(q) => Filing(q)') /\ (Telling(q) => Telling(q)')
    BY <2>1, <2>2 DEF Filing, Telling
  <2>4. \A q \in Rows(c) : Filing(q)'
    BY <2>2 DEF Filing
  <2>5. \A q \in Quote : q \notin Rows(c) => status'[q] = status[q]
    BY <2>1 DEF Move
  <2>6. WinsAreInHand'
    BY <2>1, <2>3, <2>4, <2>5 DEF WinInv, WinsAreInHand
  <2>7. ConfirmsForwarding'
    BY <2>2 DEF WinInv, ConfirmsForwarding
  <2> QED
    BY <1>0, <2>6, <2>7 DEF WinInv
<1>10. ASSUME NEW c \in Clerk, faults' > 0, UNCHANGED status,
              \A d \in Clerk \ {c} : step'[d] = step[d] /\ seen'[d] = seen[d],
              step'[c] # "confirming"
       PROVE  WinInv'
  <2>1. WinsAreInHand'
    BY <1>10 DEF WinsAreInHand
  <2>2. ConfirmsForwarding'
    BY <1>10 DEF WinInv, ConfirmsForwarding, Rows
  <2> QED
    BY <1>0, <2>1, <2>2 DEF WinInv
<1>11. ASSUME NEW c \in Clerk, File(c)  PROVE WinInv'
  <2>1. /\ step[c] = "filing" /\ step' = [step EXCEPT ![c] = "telling"]
        /\ UNCHANGED <<status, owed, seen>>
    BY <1>11 DEF File, columns
  <2>2. /\ step'[c] = "telling" /\ \A d \in Clerk : Rows(d)' = Rows(d)
        /\ \A d \in Clerk \ {c} : step'[d] = step[d]
    BY <1>01, <2>1 DEF Rows
  <2>3. CASE filed' = filed \cup Rows(c) /\ UNCHANGED faults
    <3>1. \A q \in Quote : Filing(q) => q \in Rows(c) \/ Filing(q)'
      BY <2>2 DEF Filing
    <3>2. \A q \in Quote : Filing(q) \/ Telling(q) => Filing(q)' \/ Telling(q)'
      BY <2>1, <2>2 DEF Filing, Telling
    <3>3. WinsAreInHand'
      BY <2>1, <2>3, <3>1, <3>2 DEF WinInv, WinsAreInHand
    <3>4. ConfirmsForwarding'
      BY <2>2 DEF WinInv, ConfirmsForwarding
    <3> QED
      BY <1>0, <3>3, <3>4 DEF WinInv
  <2>4. CASE faults' = faults + 1
    BY <1>01, <1>10, <2>1, <2>2, <2>4
  <2> QED
    BY <1>11, <2>3, <2>4 DEF File
<1>12. ASSUME NEW c \in Clerk, Tell(c)  PROVE WinInv'
  <2>1. /\ step[c] = "telling" /\ step'[c] = "idle"
        /\ UNCHANGED <<status, filed>>
        /\ \A d \in Clerk \ {c} : step'[d] = step[d] /\ seen'[d] = seen[d]
    BY <1>01, <1>12 DEF Tell, Done, columns
  <2>2. CASE owed' = owed \cup Rows(c) /\ UNCHANGED faults
    <3>1. \A q \in Quote : /\ Filing(q) => Filing(q)'
                           /\ Telling(q) => q \in Rows(c) \/ Telling(q)'
      BY <2>1 DEF Filing, Telling, Rows
    <3>2. WinsAreInHand'
      BY <2>1, <2>2, <3>1 DEF WinInv, WinsAreInHand
    <3>3. ConfirmsForwarding'
      BY <2>1 DEF WinInv, ConfirmsForwarding, Rows
    <3> QED
      BY <1>0, <3>2, <3>3 DEF WinInv
  <2>3. CASE faults' = faults + 1
    BY <1>01, <1>10, <2>1, <2>3
  <2> QED
    BY <1>12, <2>2, <2>3 DEF Tell
<1>13. ASSUME NEW c \in Clerk, Crash(c)  PROVE WinInv'
  <2>1. /\ faults' = faults + 1 /\ step'[c] = "idle" /\ UNCHANGED status
        /\ \A d \in Clerk \ {c} : step'[d] = step[d] /\ seen'[d] = seen[d]
    BY <1>01, <1>13 DEF Crash, Done, columns
  <2> QED
    BY <1>01, <1>10, <2>1
<1>14. ASSUME NEW c \in Clerk, Abort(c)  PROVE WinInv'
  BY <1>5, <1>14 DEF Abort, columns
<1>15. CASE UNCHANGED vars
  BY <1>0, <1>15 DEF vars, columns, requests, WinInv, WinsAreInHand,
                     ConfirmsForwarding, Filing, Telling, Rows
<1> QED
  BY <1>1, <1>2, <1>3, <1>4, <1>6, <1>7, <1>8, <1>9, <1>11, <1>12, <1>13,
     <1>14, <1>15 DEF Next, Loads, GoesOn, Edits

\* No win is lost but by a failure: however the requests overlap, a won quote
\* without its handover or its event is one whose request is still under way,
\* until something fails.  (That the request ends is WonIsFiled and WonIsOwed.)
THEOREM WinsAreInHandAlways == Spec => []WinsAreInHand
<1>1. Init => WinInv
  <2> SUFFICES ASSUME Init PROVE WinInv
    OBVIOUS
  <2>1. QuoteTypeOK
    BY QuoteTypeInit
  <2> QED
    BY <2>1 DEF Init, WinInv, WinsAreInHand, ConfirmsForwarding
<1>2. WinInv /\ [Next]_vars => WinInv'
  BY WinStep
<1>3. WinInv => WinsAreInHand
  BY DEF WinInv
<1> QED
  BY <1>1, <1>2, <1>3, PTL DEF Spec
-----------------------------------------------------------------------------
(* The authority to approve, when no price changes behind the approver *)

\* What a request that edits or approves has loaded is still stored, and whoever
\* approves may approve what the lines ask.
Handled(c) ==
    /\ \A q \in Rows(c) :
          /\ status[q] # "absent"
          /\ Pricing(c) => /\ seen[c][q].lines = lines[q]
                           /\ seen[c][q].approver = approver[q]
    /\ step[c] = "approving" =>
          \E q \in Quote : /\ Rows(c) = {q}
                           /\ by[c] \in Director \/ lines[q] \notin Beyond
    /\ step[c] \in {"editing", "pricing"} => \E q \in Quote : Rows(c) = {q}

LinesInv ==
    /\ QuoteTypeOK /\ PricesApart
    /\ \A c \in Clerk : Handled(c)

\* What a step may do to the lines and the approver: of the rows in T alone.
LinesKept(T) ==
    \A q \in Quote \ T : lines'[q] = lines[q] /\ approver'[q] = approver[q]

\* No step takes a quote out of existence.
NeverAbsent == \A q \in Quote : status[q] # "absent" => status'[q] # "absent"

\* What the rule sees to in a step: of the lines, not of the price asked.
LinesWithinAuthority ==
    \A q \in Quote :
        status[q] = "awaiting" /\ status'[q] = "approved" /\ lines[q] \in Beyond
          => approver'[q] \in Director

\* A request over, or on its way to something else than an edit or an approval.
LEMMA RestIsHandled ==
  ASSUME QuoteTypeOK, NeverAbsent, NEW c \in Clerk, Handled(c),
         Rows(c)' \subseteq Rows(c), ~Pricing(c)'
  PROVE  Handled(c)'
<1>1. Rows(c) \subseteq Quote
  BY SeenIsTyped
<1> QED
  BY <1>1 DEF Handled, Pricing, NeverAbsent

\* The requests of the others.
LEMMA OthersStayHandled ==
  ASSUME QuoteTypeOK, NeverAbsent, NEW T, LinesKept(T),
         NEW d \in Clerk, Handled(d), Pricing(d) => Rows(d) \cap T = {},
         step'[d] = step[d], seen'[d] = seen[d], by'[d] = by[d]
  PROVE  Handled(d)'
<1>1. Rows(d)' = Rows(d) /\ Rows(d) \subseteq Quote /\ Pricing(d)' = Pricing(d)
  BY SeenIsTyped DEF Rows, Pricing
<1>2. \A q \in Rows(d) : status'[q] # "absent"
  BY <1>1 DEF NeverAbsent, Handled
<1>3. ASSUME Pricing(d)
      PROVE  \A q \in Rows(d) : lines'[q] = lines[q] /\ approver'[q] = approver[q]
  BY <1>1, <1>3 DEF LinesKept
<1>4. ASSUME NEW q \in Rows(d), Pricing(d)
      PROVE  /\ seen'[d][q].lines = lines'[q]
             /\ seen'[d][q].approver = approver'[q]
  BY <1>3, <1>4 DEF Handled
<1>5. ASSUME step[d] = "approving"
      PROVE  \E q \in Quote : /\ Rows(d) = {q}
                              /\ by[d] \in Director \/ lines'[q] \notin Beyond
  BY <1>3, <1>5 DEF Handled, Pricing
<1> QED
  BY <1>1, <1>2, <1>4, <1>5 DEF Handled

\* A request that has just loaded its rows.
LEMMA LoadIsHandled ==
  ASSUME LinesInv, QuoteTypeOK', PricesApart',
         NEW c \in Clerk, NEW S \in SUBSET Quote, NEW next,
         \A q \in S : status[q] # "absent",
         Load(c, S, next), UNCHANGED columns,
         next \in {"approving", "editing", "pricing"} => \E q \in Quote : S = {q},
         next = "approving" =>
            \A q \in S : by'[c] \in Director \/ lines[q] \notin Beyond,
         \A d \in Clerk \ {c} : by'[d] = by[d]
  PROVE  LinesInv'
<1>0. step \in [Clerk -> Step] /\ seen \in [Clerk -> Memory] /\ QuoteTypeOK
  BY DEF LinesInv, QuoteTypeOK
<1>1. /\ Rows(c)' = S /\ step'[c] = next
      /\ \A q \in S : seen'[c][q] = Stored(q)
  BY <1>0 DEF Load, Rows
<1>2. \A d \in Clerk \ {c} : step'[d] = step[d] /\ seen'[d] = seen[d]
  BY <1>0 DEF Load
<1>3. Handled(c)'
  <2>0. UNCHANGED <<status, lines, approver>>
    BY DEF columns
  <2>1. ASSUME NEW q \in S
        PROVE  /\ status'[q] # "absent"
               /\ seen'[c][q].lines = lines'[q]
               /\ seen'[c][q].approver = approver'[q]
    <3>1. seen'[c][q] = [status |-> status[q], lines |-> lines[q],
                         tax |-> tax[q], total |-> total[q],
                         approver |-> approver[q]]
      BY <1>1 DEF Stored
    <3> QED
      BY <2>0, <3>1
  <2>2. ASSUME next = "approving"
        PROVE  \E q \in Quote : /\ S = {q}
                                /\ by'[c] \in Director \/ lines'[q] \notin Beyond
    BY <2>0, <2>2
  <2> QED
    BY <1>1, <2>1, <2>2 DEF Handled
<1>4. NeverAbsent /\ LinesKept({})
  BY DEF NeverAbsent, LinesKept, columns
<1>5. ASSUME NEW d \in Clerk \ {c}  PROVE Handled(d)'
  BY <1>0, <1>2, <1>4, <1>5, OthersStayHandled DEF LinesInv
<1> QED
  BY <1>3, <1>5 DEF LinesInv

\* A step that ends a request, or takes it on to what follows a win, and writes
\* the rows in T.
LEMMA WriteKeepsLines ==
  ASSUME LinesInv, QuoteTypeOK', PricesApart',
         NEW c \in Clerk, NEW T, LinesKept(T), NeverAbsent,
         step'[c] \in {"idle", "filing", "telling"},
         Rows(c)' \subseteq Rows(c),
         \A d \in Clerk \ {c} : /\ step'[d] = step[d] /\ seen'[d] = seen[d]
                                /\ by'[d] = by[d]
                                /\ Pricing(d) => Rows(d) \cap T = {}
  PROVE  LinesInv'
<1>1. Handled(c)'
  BY RestIsHandled DEF LinesInv, Pricing
<1>2. ASSUME NEW d \in Clerk \ {c}  PROVE Handled(d)'
  BY <1>2, OthersStayHandled DEF LinesInv
<1> QED
  BY <1>1, <1>2 DEF LinesInv

LEMMA LinesStep ==
  ASSUME MARGIN_GATE = TRUE, LinesInv, [Next /\ PricesApart']_vars
  PROVE  LinesInv' /\ LinesWithinAuthority
<1>0. QuoteTypeOK /\ QuoteTypeOK'
  BY QuoteTypeInductive DEF LinesInv
<1>01. /\ step \in [Clerk -> Step] /\ seen \in [Clerk -> Memory]
       /\ by \in [Clerk -> Person \cup {None}]
       /\ status \in [Quote -> Status \cup {"absent"}]
       /\ lines \in [Quote -> Price]
       /\ approver \in [Quote -> Person \cup {None}]
  BY <1>0 DEF QuoteTypeOK
<1>1. CASE UNCHANGED vars
  <2>1. UNCHANGED <<columns, step, seen, by>>
    BY <1>1 DEF vars, requests
  <2>2. \A c \in Clerk : Handled(c)'
    BY <2>1 DEF LinesInv, Handled, Pricing, Rows, columns
  <2>3. PricesApart'
    BY <2>1 DEF LinesInv, PricesApart, Pricing, Rows
  <2> QED
    BY <1>0, <2>1, <2>2, <2>3 DEF LinesInv, columns, LinesWithinAuthority
<1>2. ASSUME Next, PricesApart'
      PROVE  LinesInv' /\ LinesWithinAuthority
  <2>1. ASSUME NEW q \in Quote, NEW p \in Price, Create(q, p)
        PROVE  LinesInv' /\ LinesWithinAuthority
    <3>1. /\ UNCHANGED <<step, seen, by, approver>> /\ status[q] = "absent"
          /\ status' = [status EXCEPT ![q] = "draft"]
          /\ lines' = [lines EXCEPT ![q] = p]
      BY <2>1 DEF Create, requests
    <3>2. NeverAbsent /\ LinesKept({q})
      BY <1>01, <3>1 DEF NeverAbsent, LinesKept
    <3>3. ASSUME NEW d \in Clerk  PROVE Handled(d)'
      <4>1. Rows(d) \cap {q} = {} /\ Handled(d)
        BY <3>1 DEF LinesInv, Handled
      <4> QED
        BY <1>0, <3>1, <3>2, <4>1, OthersStayHandled
    <3>4. LinesWithinAuthority
      BY <1>01, <3>1 DEF LinesWithinAuthority
    <3> QED
      BY <1>0, <1>2, <3>3, <3>4 DEF LinesInv
  <2>2. ASSUME NEW c \in Clerk, NEW q \in Quote, NEW u \in Person,
               StartApprove(c, q, u)
        PROVE  LinesInv' /\ LinesWithinAuthority
    <3>1. /\ Load(c, {q}, "approving") /\ UNCHANGED columns
          /\ by' = [by EXCEPT ![c] = u]
          /\ status[q] = "awaiting" /\ Authorised(q, u)
      BY <2>2 DEF StartApprove, Wanted
    <3>2. u \in Director \/ lines[q] \notin Beyond
      BY <3>1 DEF Authorised
    <3>3. LinesWithinAuthority
      BY <3>1 DEF LinesWithinAuthority, columns
    <3>4. by'[c] = u /\ \A d \in Clerk \ {c} : by'[d] = by[d]
      BY <1>01, <3>1
    <3> QED
      BY <1>0, <1>2, <3>1, <3>2, <3>3, <3>4, LoadIsHandled
  <2>3. ASSUME NEW c \in Clerk, NEW q \in Quote,
               NEW next \in DOMAIN Wanted \ {"approving"}, Start(c, q, next)
        PROVE  LinesInv' /\ LinesWithinAuthority
    <3>1. Load(c, {q}, next) /\ UNCHANGED <<columns, by>> /\ status[q] # "absent"
      BY <2>3, WantedExists, AbsentIsNoStatus DEF Start
    <3>2. LinesWithinAuthority
      BY <3>1 DEF LinesWithinAuthority, columns
    <3> QED
      BY <1>0, <1>2, <3>1, <3>2, LoadIsHandled
  <2>4. ASSUME NEW c \in Clerk, StartClose(c)
        PROVE  LinesInv' /\ LinesWithinAuthority
    <3>1. PICK S \in SUBSET Quote : /\ Load(c, S, "closing")
                                    /\ \A q \in S : status[q] # "absent"
      BY <2>4 DEF StartClose
    <3>2. UNCHANGED <<columns, by>>
      BY <2>4 DEF StartClose
    <3>3. LinesWithinAuthority
      BY <3>2 DEF LinesWithinAuthority, columns
    <3> QED
      BY <1>0, <1>2, <3>1, <3>2, <3>3, LoadIsHandled
  <2>5. ASSUME NEW c \in Clerk, Done(c)
        PROVE  /\ step'[c] = "idle" /\ Rows(c)' \subseteq Rows(c)
               /\ \A d \in Clerk \ {c} : /\ step'[d] = step[d]
                                         /\ seen'[d] = seen[d] /\ by'[d] = by[d]
    BY <1>01, <2>5 DEF Done, Rows
  <2>6. ASSUME NEW c \in Clerk, Pricing(c), NEW d \in Clerk \ {c}, Pricing(d)
        PROVE  Rows(d) \cap Rows(c) = {}
    BY <2>6 DEF LinesInv, PricesApart
  <2>7. ASSUME NEW c \in Clerk, NEW p \in Price, SaveEdit(c, p)
        PROVE  LinesInv' /\ LinesWithinAuthority
    <3>1. PICK q \in Quote : Rows(c) = {q}
      BY <2>7 DEF SaveEdit, LinesInv, Handled
    <3>2. /\ Flush(lines, q, p, seen[c][q].lines)
          /\ Done(c) /\ UNCHANGED <<status, approver>> /\ Pricing(c)
      BY <2>7, <3>1 DEF SaveEdit, Pricing
    <3>3. LinesKept({q}) /\ NeverAbsent
      BY <1>01, <3>2 DEF Flush, LinesKept, NeverAbsent
    <3>4. \A d \in Clerk \ {c} : Pricing(d) => Rows(d) \cap {q} = {}
      BY <2>6, <3>1, <3>2
    <3>5. LinesWithinAuthority
      BY <3>2 DEF LinesWithinAuthority
    <3>6. LinesInv'
      BY <1>0, <1>2, <2>5, <3>2, <3>3, <3>4, WriteKeepsLines
    <3> QED
      BY <3>5, <3>6
  <2>8. ASSUME NEW c \in Clerk, Done(c) \/ (UNCHANGED <<seen, by>>
                  /\ \E s \in {"filing", "telling"} :
                        step' = [step EXCEPT ![c] = s]),
               UNCHANGED <<lines, approver>>, NeverAbsent
        PROVE  LinesInv'
    <3>1. /\ step'[c] \in {"idle", "filing", "telling"}
          /\ Rows(c)' \subseteq Rows(c)
          /\ \A d \in Clerk \ {c} : /\ step'[d] = step[d]
                                    /\ seen'[d] = seen[d] /\ by'[d] = by[d]
      <4>1. CASE Done(c)
        BY <2>5, <4>1
      <4>2. CASE UNCHANGED <<seen, by>>
                 /\ \E s \in {"filing", "telling"} : step' = [step EXCEPT ![c] = s]
        BY <1>01, <4>2 DEF Rows
      <4> QED
        BY <2>8, <4>1, <4>2
    <3>2. LinesKept({})
      BY <2>8 DEF LinesKept
    <3> QED
      BY <1>0, <1>2, <2>8, <3>1, <3>2, WriteKeepsLines
  <2>9. ASSUME NEW c \in Clerk,
               \/ \E p \in Price : SaveCost(c, p)
               \/ \E t \in Tax : SaveTax(c, t)
        PROVE  LinesInv' /\ LinesWithinAuthority
    <3>1. Done(c) /\ UNCHANGED <<status, lines, approver>>
      BY <2>9 DEF SaveCost, SaveTax
    <3>2. NeverAbsent /\ LinesWithinAuthority
      BY <3>1 DEF NeverAbsent, LinesWithinAuthority
    <3> QED
      BY <2>8, <3>1, <3>2
  <2>10. ASSUME NEW c \in Clerk, Move(c), step[c] \in DOMAIN Outcome
         PROVE  NeverAbsent
    <3>1. Outcome[step[c]] # "absent"
      BY <2>10 DEF Outcome
    <3> QED
      BY <2>10, <3>1 DEF Move, NeverAbsent
  <2>11. ASSUME NEW c \in Clerk, SaveMove(c) \/ SaveWon(c)
         PROVE  LinesInv' /\ LinesWithinAuthority
    <3>1. /\ Move(c) /\ UNCHANGED <<lines, approver>>
          /\ step[c] \in DOMAIN Outcome \ {"approving"}
      BY <2>11 DEF SaveMove, SaveWon, Outcome
    <3>2. LinesWithinAuthority
      BY <3>1 DEF Move, Outcome, LinesWithinAuthority
    <3> QED
      BY <2>8, <2>10, <2>11, <3>1, <3>2 DEF SaveMove, SaveWon
  <2>12. ASSUME NEW c \in Clerk, SaveApprove(c)
         PROVE  LinesInv' /\ LinesWithinAuthority
    <3>1. PICK q \in Quote : /\ Rows(c) = {q}
                             /\ by[c] \in Director \/ lines[q] \notin Beyond
      BY <2>12 DEF SaveApprove, LinesInv, Handled
    <3>2. /\ Move(c) /\ Done(c) /\ UNCHANGED lines /\ Pricing(c)
          /\ Flush(approver, q, by[c], seen[c][q].approver)
      BY <2>12, <3>1 DEF SaveApprove, Pricing
    <3>3. approver[q] = seen[c][q].approver
      BY <3>1, <3>2 DEF LinesInv, Handled
    <3>4. approver'[q] = by[c] /\ LinesKept({q})
      BY <1>01, <3>2, <3>3 DEF Flush, LinesKept
    <3>5. \A x \in Quote \ {q} : status'[x] = status[x]
      BY <3>1, <3>2 DEF Move
    <3>6. LinesWithinAuthority
      BY <3>1, <3>4, <3>5 DEF LinesWithinAuthority, LinesInv
    <3>7. NeverAbsent
      BY <2>10, <2>12, <3>2 DEF SaveApprove, Outcome
    <3>8. \A d \in Clerk \ {c} : Pricing(d) => Rows(d) \cap {q} = {}
      BY <2>6, <3>1, <3>2
    <3>9. LinesInv'
      BY <1>0, <1>2, <2>5, <3>2, <3>4, <3>7, <3>8, WriteKeepsLines
    <3> QED
      BY <3>6, <3>9
  <2>13. ASSUME NEW c \in Clerk, NEW new \in Quote, SaveRevision(c, new)
         PROVE  LinesInv' /\ LinesWithinAuthority
    <3>1. PICK old \in Rows(c) :
             /\ status' = [status EXCEPT ![new] = "draft", ![old] = "superseded"]
             /\ lines' = [lines EXCEPT ![new] = seen[c][old].lines]
      BY <2>13 DEF SaveRevision
    <3>2. Done(c) /\ status[new] = "absent" /\ UNCHANGED approver
      BY <2>13 DEF SaveRevision
    <3>3. NeverAbsent /\ LinesWithinAuthority
      BY <1>01, <3>1 DEF NeverAbsent, LinesWithinAuthority
    <3>4. LinesKept({new})
      BY <1>01, <3>1, <3>2 DEF LinesKept
    <3>5. \A d \in Clerk : Rows(d) \cap {new} = {}
      BY <3>2 DEF LinesInv, Handled
    <3>6. LinesInv'
      BY <1>0, <1>2, <2>5, <3>2, <3>3, <3>4, <3>5, WriteKeepsLines
    <3> QED
      BY <3>3, <3>6
  <2>14. ASSUME NEW c \in Clerk, File(c) \/ Tell(c) \/ Crash(c) \/ Abort(c)
         PROVE  LinesInv' /\ LinesWithinAuthority
    <3>1. UNCHANGED columns
      BY <2>14 DEF File, Tell, Crash, Abort
    <3>2. NeverAbsent /\ LinesWithinAuthority /\ UNCHANGED <<lines, approver>>
      BY <3>1 DEF NeverAbsent, LinesWithinAuthority, columns
    <3>3. Done(c) \/ (UNCHANGED <<seen, by>>
                        /\ \E s \in {"filing", "telling"} :
                              step' = [step EXCEPT ![c] = s])
      BY <2>14 DEF File, Tell, Crash, Abort
    <3> QED
      BY <2>8, <3>2, <3>3
  <2> QED
    BY <1>2, <2>1, <2>2, <2>3, <2>4, <2>7, <2>9, <2>11, <2>12, <2>13, <2>14
       DEF Next, Loads, GoesOn
<1> QED
  BY <1>1, <1>2

LEMMA LinesInitially == Init => LinesInv
<1> SUFFICES ASSUME Init PROVE LinesInv
  OBVIOUS
<1>1. QuoteTypeOK
  BY QuoteTypeInit
<1>2. \A c \in Clerk : step[c] = "idle" /\ Rows(c) = {}
  BY DEF Init, Rows
<1> QED
  BY <1>1, <1>2 DEF LinesInv, Handled, Pricing, PricesApart

\* The rule as it is coded: a quote whose lines are beyond the head's limit or
\* under a minimum is approved by a director, for any number of workers, quotes
\* and prices, cost sheets and taxes too, if an approval and the edits of a quote
\* wait for one another.
THEOREM AuthorityOverLines ==
  ASSUME MARGIN_GATE = TRUE
  PROVE  LinesSpec => [][LinesWithinAuthority]_vars
<1>1. Init => LinesInv
  BY LinesInitially
<1>2. LinesInv /\ [Next /\ PricesApart']_vars
        => LinesInv' /\ [LinesWithinAuthority]_vars
  BY LinesStep
<1> QED
  BY <1>1, <1>2, PTL DEF LinesSpec

-----------------------------------------------------------------------------
(* ... and over the price asked, when the lines are all of it *)

TotalIsLines ==
    /\ LinesOnly
    /\ \A q \in Quote : total[q] = lines[q]
    /\ \A c \in Clerk : \A q \in Rows(c) : /\ seen[c][q].tax = 0
                                           /\ seen[c][q].total = seen[c][q].lines

PricedInv == LinesInv /\ TotalIsLines

\* What a request has loaded, or still has.
LEMMA SeenTotals ==
  ASSUME PricedInv, [Next]_vars
  PROVE  \A c \in Clerk : \A q \in Rows(c)' :
             /\ seen'[c][q].tax = 0
             /\ seen'[c][q].total = seen'[c][q].lines
<1>0. /\ step \in [Clerk -> Step] /\ seen \in [Clerk -> Memory]
      /\ \A q \in Quote : tax[q] = 0 /\ total[q] = lines[q]
  BY DEF PricedInv, LinesInv, TotalIsLines, LinesOnly, QuoteTypeOK
<1>1. ASSUME NEW c \in Clerk, NEW d \in Clerk, seen'[d] = seen[d]
      PROVE  \A q \in Rows(d)' : /\ seen'[d][q].tax = 0
                                 /\ seen'[d][q].total = seen'[d][q].lines
  BY <1>1 DEF PricedInv, TotalIsLines, Rows
<1>2. ASSUME NEW c \in Clerk, NEW S \in SUBSET Quote, NEW next, Load(c, S, next),
             NEW d \in Clerk, NEW q \in Rows(d)'
      PROVE  seen'[d][q].tax = 0 /\ seen'[d][q].total = seen'[d][q].lines
  <2>1. CASE d = c
    <3>1. q \in S /\ seen'[d][q] = Stored(q)
      BY <1>0, <1>2, <2>1 DEF Load, Rows
    <3>2. seen'[d][q] = [status |-> status[q], lines |-> lines[q], tax |-> tax[q],
                         total |-> total[q], approver |-> approver[q]]
      BY <3>1 DEF Stored
    <3> QED
      BY <1>0, <3>1, <3>2
  <2>2. CASE d # c
    <3>1. seen'[d] = seen[d]
      BY <1>0, <1>2, <2>2 DEF Load
    <3> QED
      BY <1>1, <1>2, <3>1
  <2> QED
    BY <2>1, <2>2
<1>3. ASSUME NEW c \in Clerk, Done(c), NEW d \in Clerk, NEW q \in Rows(d)'
      PROVE  seen'[d][q].tax = 0 /\ seen'[d][q].total = seen'[d][q].lines
  <2>1. d # c
    BY <1>0, <1>3 DEF Done, Rows
  <2>2. seen'[d] = seen[d]
    BY <1>0, <1>3, <2>1 DEF Done
  <2> QED
    BY <1>1, <1>3, <2>2
<1>4. CASE UNCHANGED seen
  BY <1>1, <1>4
<1>5. ASSUME NEW c \in Clerk, Loads(c)
      PROVE  \E S \in SUBSET Quote : \E next : Load(c, S, next)
  BY <1>5 DEF Loads, StartApprove, Start, StartClose
<1>6. ASSUME NEW c \in Clerk, GoesOn(c)  PROVE Done(c) \/ UNCHANGED seen
  BY <1>6 DEF GoesOn, SaveEdit, SaveTax, SaveCost, SaveMove, SaveApprove,
     SaveRevision, SaveWon, File, Tell, Crash, Abort
<1>7. ASSUME NEW q \in Quote, NEW p \in Price, Create(q, p)  PROVE UNCHANGED seen
  BY <1>7 DEF Create, requests
<1>8. UNCHANGED vars => UNCHANGED seen
  BY DEF vars, requests
<1> QED
  BY <1>2, <1>3, <1>4, <1>5, <1>6, <1>7, <1>8 DEF Next

\* A step that ends a request writes the lines and the total alike.
LEMMA PricedStep ==
  ASSUME MARGIN_GATE = TRUE, PricedInv,
         [Next /\ PricesApart' /\ LinesOnly']_vars
  PROVE  PricedInv' /\ LinesWithinAuthority
<1>0. LinesInv' /\ LinesWithinAuthority
  BY LinesStep DEF PricedInv
<1>1. /\ lines \in [Quote -> Price] /\ tax \in [Quote -> Tax]
      /\ total \in [Quote -> Total]
      /\ \A q \in Quote : tax[q] = 0 /\ total[q] = lines[q]
      /\ \A c \in Clerk : Rows(c) \subseteq Quote
  BY SeenIsTyped DEF PricedInv, LinesInv, TotalIsLines, LinesOnly, QuoteTypeOK
<1>2. LinesOnly'
  BY DEF PricedInv, TotalIsLines, LinesOnly, vars, columns, requests
<1>3. ASSUME NEW c \in Clerk, step[c] \in {"editing", "pricing"}
      PROVE  \E q \in Quote : /\ Rows(c) = {q}
                              /\ seen[c][q].tax = 0
                              /\ seen[c][q].lines = lines[q]
                              /\ seen[c][q].total = lines[q]
  <2>1. PICK q \in Quote : Rows(c) = {q}
    BY <1>3 DEF PricedInv, LinesInv, Handled
  <2>2. seen[c][q].lines = lines[q]
    BY <1>3, <2>1 DEF PricedInv, LinesInv, Handled, Pricing
  <2> QED
    BY <2>1, <2>2 DEF PricedInv, TotalIsLines
<1>4. ASSUME NEW c \in Clerk, NEW p \in Price, SaveEdit(c, p)
      PROVE  \A q \in Quote : total'[q] = lines'[q]
  <2>1. PICK q \in Quote : /\ Rows(c) = {q}
                           /\ seen[c][q].tax = 0
                           /\ seen[c][q].lines = lines[q]
                           /\ seen[c][q].total = lines[q]
    BY <1>3, <1>4 DEF SaveEdit
  <2>2. p + seen[c][q].tax = p
    BY <2>1, TotalType, QuoteAssumption
  <2>3. Flush(lines, q, p, lines[q]) /\ Flush(total, q, p, lines[q])
    BY <1>4, <2>1, <2>2 DEF SaveEdit
  <2> QED
    BY <1>1, <2>3 DEF Flush
<1>5. ASSUME NEW c \in Clerk, NEW t \in Tax, SaveTax(c, t)
      PROVE  \A q \in Quote : total'[q] = lines'[q]
  <2>1. PICK q \in Quote : /\ Rows(c) = {q}
                           /\ seen[c][q].tax = 0
                           /\ seen[c][q].lines = lines[q]
                           /\ seen[c][q].total = lines[q]
    BY <1>3, <1>5 DEF SaveTax
  <2>2. /\ Flush(tax, q, t, 0) /\ Flush(total, q, lines[q] + t, lines[q])
        /\ UNCHANGED lines
    BY <1>5, <2>1 DEF SaveTax
  <2>3. t = 0
    BY <1>1, <1>2, <2>2 DEF Flush, LinesOnly
  <2>4. lines[q] + t = lines[q]
    <3>1. lines[q] \in Int
      BY <1>1, <2>1, QuoteAssumption
    <3> QED
      BY <2>3, <3>1
  <2>5. UNCHANGED total
    BY <2>2, <2>4 DEF Flush
  <2> QED
    BY <1>1, <2>2, <2>5
<1>6. ASSUME NEW c \in Clerk, NEW new \in Quote, SaveRevision(c, new)
      PROVE  \A q \in Quote : total'[q] = lines'[q]
  <2>1. PICK old \in Rows(c) :
           /\ lines' = [lines EXCEPT ![new] = seen[c][old].lines]
           /\ total' = [total EXCEPT
                  ![new] = seen[c][old].lines + seen[c][old].tax]
    BY <1>6 DEF SaveRevision
  <2>2. seen[c][old].tax = 0 /\ seen[c][old].lines \in Int
    BY <2>1, SeenIsTyped, QuoteAssumption DEF PricedInv, TotalIsLines, LinesInv
  <2>3. seen[c][old].lines + seen[c][old].tax = seen[c][old].lines
    BY <2>2
  <2> QED
    BY <1>1, <2>1, <2>3
<1>7. ASSUME NEW q \in Quote, NEW p \in Price, Create(q, p)
      PROVE  \A x \in Quote : total'[x] = lines'[x]
  BY <1>1, <1>7 DEF Create
<1>8. ASSUME NEW c \in Clerk, NEW p \in Price, SaveCost(c, p)  PROVE FALSE
  BY <1>8 DEF SaveCost, PricedInv, TotalIsLines, LinesOnly
<1>9. ASSUME UNCHANGED <<lines, total>>
      PROVE  \A q \in Quote : total'[q] = lines'[q]
  BY <1>1, <1>9
<1>10. ASSUME NEW c \in Clerk,
              \/ Loads(c) \/ SaveMove(c) \/ SaveApprove(c) \/ SaveWon(c)
              \/ File(c) \/ Tell(c) \/ Crash(c) \/ Abort(c)
       PROVE  UNCHANGED <<lines, total>>
  BY <1>10 DEF Loads, StartApprove, Start, StartClose, SaveMove, SaveApprove,
     SaveWon, File, Tell, Crash, Abort, columns
<1>11. UNCHANGED vars => UNCHANGED <<lines, total>>
  BY DEF vars, columns
<1>12. ASSUME NEW c \in Clerk, GoesOn(c)
       PROVE  \A q \in Quote : total'[q] = lines'[q]
  BY <1>4, <1>5, <1>6, <1>8, <1>9, <1>10, <1>12 DEF GoesOn
<1>13. \A q \in Quote : total'[q] = lines'[q]
  BY <1>7, <1>9, <1>10, <1>11, <1>12 DEF Next
<1> QED
  BY <1>0, <1>2, <1>13, SeenTotals DEF PricedInv, TotalIsLines

\* With the margin rule on, a quote that asks a price beyond the head's limit is
\* approved by a director: for any number of workers, quotes and prices, if an
\* approval and the edits of a quote wait for one another, nobody opens a cost
\* sheet and there is no tax.
THEOREM AuthorityEnforcedWhenPriced ==
  ASSUME MARGIN_GATE = TRUE
  PROVE  PricedSpec => ApprovedWithinAuthority
<1>1. Init => PricedInv
  <2>1. Init => \A c \in Clerk : step[c] = "idle" /\ Rows(c) = {}
    BY DEF Init, Rows
  <2>2. Init => TotalIsLines
    BY <2>1 DEF Init, TotalIsLines, LinesOnly
  <2> QED
    BY <2>2, LinesInitially DEF PricedInv
<1>2. PricedInv /\ [Next /\ PricesApart' /\ LinesOnly']_vars
        => PricedInv' /\ [LinesWithinAuthority]_vars
  BY PricedStep
<1>3. PricedInv /\ [LinesWithinAuthority]_vars
        => [\A q \in Quote :
              status[q] = "awaiting" /\ status'[q] = "approved"
                  /\ total[q] \in Beyond
                => approver'[q] \in Director]_vars
  BY DEF PricedInv, TotalIsLines, LinesWithinAuthority
<1> QED
  BY <1>1, <1>2, <1>3, PTL DEF PricedSpec, ApprovedWithinAuthority
=============================================================================
