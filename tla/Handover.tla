------------------------------ MODULE Handover ------------------------------
(***************************************************************************)
(* app/handover: a won deal waits for the customer's purchase order, and   *)
(* only then may Operations create its project in the TMS.  Each request   *)
(* is handled by a web worker that reads the row, decides, and writes in a *)
(* later statement; nothing in the database joins the three, so requests   *)
(* of different workers interleave between them.  The merge of two accounts *)
(* moves the handovers of one to the other and checks nothing.             *)
(*                                                                         *)
(* Left out: the TMS job id, guarded with the project id and decided on    *)
(* nowhere; references that norm_ref() folds to nothing, which no check    *)
(* compares; the snapshot of the deal; who may see the row.                *)
(***************************************************************************)
EXTENDS Naturals

CONSTANTS
    Clerk,       \* web workers, and whoever runs the merge script
    Row,         \* won_handovers rows
    Opportunity, \* the opportunity of each row, or None
    Quoted,      \* the quotation of each row, or None
    ByWin,       \* rows a win makes; the others are made by hand
    Linked,      \* rows with an account_id
    Customer,    \* accounts, by id or by folded name
    Ref,         \* PO references, folded by norm_ref()
    Project,     \* TMS project ids
    None         \* no reference, no project, no row, no opportunity, no quote

ASSUME HandoverAssumption ==
    /\ DOMAIN Opportunity = Row /\ DOMAIN Quoted = Row
    /\ \A h \in ByWin : Opportunity[h] # None \/ Quoted[h] # None
    /\ Linked \subseteq Row
    /\ None \notin Ref \cup Project \cup Row

VARIABLES
    status, customer, po, project, acked,   \* columns of the row
    retired, \* accounts merged into another
    step,    \* where each worker is in its request
    row,     \* the row it handles
    seen,    \* that row as the worker loaded it
    ref      \* the reference it was given

columns == <<status, customer, po, project, acked>>
requests == <<step, row, seen, ref>>
vars == <<columns, retired, requests>>

HasPo == {"pending", "made", "complete"}
Status == {"awaiting", "cancelled"} \cup HasPo

Columns == [status : Status \cup {"absent"}, customer : Customer \cup {None},
            po : Ref \cup {None}, project : Project \cup {None},
            acked : BOOLEAN]

Step == {"idle", "patching", "cancelling", "capturing", "creating", "checked"}

\* The row as the database has it.
Stored(h) == [status |-> status[h], customer |-> customer[h], po |-> po[h],
              project |-> project[h], acked |-> acked[h]]

Nothing == [status |-> "absent", customer |-> None, po |-> None,
            project |-> None, acked |-> FALSE]

Live(h) == status[h] \notin {"absent", "cancelled"}

\* _customer_key(): an account id and a name never make the same key.
CustomerKey(h, name) == <<h \in Linked, name>>

Init ==
    /\ status = [h \in Row |-> "absent"]
    /\ customer \in [Row -> Customer]
    /\ po = [h \in Row |-> None]
    /\ project = [h \in Row |-> None]
    /\ acked = [h \in Row |-> FALSE]
    /\ retired = {}
    /\ step = [c \in Clerk |-> "idle"]
    /\ row = [c \in Clerk |-> None]
    /\ seen = [c \in Clerk |-> Nothing]
    /\ ref = [c \in Clerk |-> None]

-----------------------------------------------------------------------------
\* A worker loads the row of its request.
Load(c, h, next) ==
    /\ step[c] = "idle"
    /\ status[h] # "absent"
    /\ step' = [step EXCEPT ![c] = next]
    /\ row' = [row EXCEPT ![c] = h]
    /\ seen' = [seen EXCEPT ![c] = Stored(h)]
    /\ UNCHANGED retired

\* The columns the worker changed are written, the others are left as they
\* are in the database by now.
Flush(column, h, new, old) ==
    column' = IF new = old THEN column ELSE [column EXCEPT ![h] = new]

\* The request is over.
Done(c) ==
    /\ step' = [step EXCEPT ![c] = "idle"]
    /\ row' = [row EXCEPT ![c] = None]
    /\ ref' = [ref EXCEPT ![c] = None]
    /\ seen' = [seen EXCEPT ![c] = Nothing]
    /\ UNCHANGED retired

\* Refused, failed or killed before its commit.
Abort(c) ==
    /\ step[c] # "idle"
    /\ Done(c)
    /\ UNCHANGED columns

-----------------------------------------------------------------------------
(* POST /api/handovers, and _autocreate_handover() on a win *)

\* The rows the dedupe of each door looks at: those of the opportunity; for a
\* win without one, those of the quotation; by hand without one, none.
Twins(h) ==
    IF Opportunity[h] # None
    THEN {k \in Row : Opportunity[k] = Opportunity[h]}
    ELSE {k \in Row : h \in ByWin /\ Quoted[k] = Quoted[h]}

\* A cancelled handover forgotten.
TakenByALiveOne(h) == \E k \in Twins(h) : Live(k)

\* Whatever became of the handover there is.
Taken(h) == \E k \in Twins(h) : status[k] # "absent"

\* Rows are told apart before they are inserted: no two requests make one h.
\* A win brings no reference.
StartCreate(c, h, r) ==
    /\ step[c] = "idle"
    /\ status[h] = "absent"
    /\ \A d \in Clerk : row[d] # h
    /\ ~Taken(h)
    /\ h \in ByWin => r = None
    /\ step' = [step EXCEPT ![c] = IF r = None THEN "checked" ELSE "creating"]
    /\ row' = [row EXCEPT ![c] = h]
    /\ seen' = [seen EXCEPT ![c] = Stored(h)]
    /\ ref' = [ref EXCEPT ![c] = r]
    /\ UNCHANGED <<columns, retired>>

-----------------------------------------------------------------------------
(* POST /api/handovers/<id>/po *)

StartCapture(c, h, r) ==
    /\ status[h] # "cancelled"
    /\ Load(c, h, "capturing")
    /\ ref' = [ref EXCEPT ![c] = r]
    /\ UNCHANGED columns

\* Only handovers that are ready count.
ClashesWithReady(c) ==
    \E k \in Row \ {row[c]} : /\ status[k] \in HasPo \ {"pending"}
                              /\ po[k] = ref[c]
                              /\ CustomerKey(k, customer[k])
                                   = CustomerKey(row[c], seen[c].customer)

\* find_duplicate(): another handover of the customer that holds the reference.
Clashes(c) ==
    \E k \in Row \ {row[c]} : /\ Live(k)
                              /\ po[k] = ref[c]
                              /\ CustomerKey(k, customer[k])
                                   = CustomerKey(row[c], seen[c].customer)

Check(c) ==
    /\ step[c] \in {"capturing", "creating"}
    /\ ~Clashes(c)
    /\ step' = [step EXCEPT ![c] = "checked"]
    /\ UNCHANGED <<columns, retired, row, seen, ref>>

\* A status the module does not know.
CapturedMisspelt(c) ==
    IF ref[c] # None /\ seen[c].status = "awaiting" THEN "ready"
                                                    ELSE seen[c].status

\* capture(): the reference, and out of `Awaiting PO`.
Captured(c) ==
    IF ref[c] # None /\ seen[c].status = "awaiting" THEN "pending"
                                                    ELSE seen[c].status

SaveCapture(c) ==
    /\ step[c] = "checked"
    /\ seen[c].status # "absent"
    /\ Flush(po, row[c], ref[c], seen[c].po)
    /\ Flush(status, row[c], Captured(c), seen[c].status)
    /\ Done(c)
    /\ UNCHANGED <<customer, project, acked>>

\* A row that was `Awaiting PO` is inserted, or one with its reference.
SaveCreate(c) ==
    /\ step[c] = "checked"
    /\ seen[c].status = "absent"
    /\ po' = [po EXCEPT ![row[c]] = ref[c]]
    /\ status' = [status EXCEPT
           ![row[c]] = IF ref[c] = None THEN "awaiting" ELSE "pending"]
    /\ Done(c)
    /\ UNCHANGED <<customer, project, acked>>

-----------------------------------------------------------------------------
(* PATCH /api/handovers/<id> *)

\* Any row may be patched.
StartPatchAny(c, h) ==
    /\ Load(c, h, "patching")
    /\ UNCHANGED <<columns, ref>>

StartPatch(c, h) ==
    /\ status[h] # "cancelled"
    /\ Load(c, h, "patching")
    /\ UNCHANGED <<columns, ref>>

\* The status forgotten.
WantsIdsOnly(c, s, p) == p \in Project \ {seen[c].project}

\* An id or a status the reference has to come before; the id the row has
\* already stands for a request that leaves it out.
WantsTms(c, s, p) == p \in Project \ {seen[c].project} \/ s \in HasPo

\* Where the row moves by itself: both ids and acknowledgement, then the word
\* `complete` in the remarks.
Advanced(c, p, a, complete) ==
    LET made == IF seen[c].status = "pending" /\ p # None /\ a
                THEN "made" ELSE seen[c].status
    IN  IF complete /\ made = "made" THEN "complete" ELSE made

\* s is the status asked for, or `none` to let the row move by itself.
SavePatch(c, s, p, ack, name, complete) ==
    LET a == seen[c].acked \/ ack IN
    /\ step[c] = "patching"
    /\ WantsTms(c, s, p) => seen[c].po # None
    /\ name = seen[c].customer \/ row[c] \notin Linked
    /\ Flush(project, row[c], p, seen[c].project)
    /\ Flush(acked, row[c], a, seen[c].acked)
    /\ Flush(customer, row[c], name, seen[c].customer)
    /\ Flush(status, row[c],
             IF s = "none" THEN Advanced(c, p, a, complete) ELSE s,
             seen[c].status)
    /\ Done(c)
    /\ UNCHANGED po

-----------------------------------------------------------------------------
(* POST /api/handovers/<id>/cancel *)

StartCancel(c, h) ==
    /\ status[h] \notin {"complete", "cancelled"}
    /\ Load(c, h, "cancelling")
    /\ UNCHANGED <<columns, ref>>

\* The reference given free for another handover.
SaveCancelFreesPo(c) ==
    /\ step[c] = "cancelling"
    /\ status' = [status EXCEPT ![row[c]] = "cancelled"]
    /\ po' = [po EXCEPT ![row[c]] = None]
    /\ Done(c)
    /\ UNCHANGED <<customer, project, acked>>

SaveCancel(c) ==
    /\ step[c] = "cancelling"
    /\ status' = [status EXCEPT ![row[c]] = "cancelled"]
    /\ Done(c)
    /\ UNCHANGED <<customer, po, project, acked>>

-----------------------------------------------------------------------------
(* POST /api/admin/account-duplicates/merge *)

\* Every handover of the loser goes to the survivor, whatever reference it has.
Merge(c, loser, survivor) ==
    /\ step[c] = "idle"
    /\ loser # survivor /\ {loser, survivor} \cap retired = {}
    /\ customer' = [h \in Row |->
           IF h \in Linked /\ status[h] # "absent" /\ customer[h] = loser
           THEN survivor ELSE customer[h]]
    /\ retired' = retired \cup {loser}
    /\ UNCHANGED <<status, po, project, acked, requests>>

-----------------------------------------------------------------------------
Next ==
    \E c \in Clerk :
        \/ \E h \in Row : \/ \E r \in Ref \cup {None} : StartCreate(c, h, r)
                          \/ \E r \in Ref : StartCapture(c, h, r)
                          \/ StartPatch(c, h)
                          \/ StartCancel(c, h)
        \/ Check(c) \/ SaveCreate(c) \/ SaveCapture(c) \/ SaveCancel(c)
        \/ \E s \in Status \cup {"none"}, p \in Project \cup {None},
              ack, complete \in BOOLEAN, name \in Customer :
                 SavePatch(c, s, p, ack, name, complete)
        \/ Abort(c)
        \/ \E loser, survivor \in Customer : Merge(c, loser, survivor)

Spec == Init /\ [][Next]_vars

-----------------------------------------------------------------------------
(* Nothing in the code keeps two requests from the same row, the same deal  *)
(* or the same reference.  These say that they keep apart all the same, as  *)
(* with a lock on each, or one worker.                                      *)
Busy(c) == step[c] # "idle"

\* Two requests handle two rows.
RowsApart ==
    \A c, d \in Clerk : c # d /\ Busy(c) /\ Busy(d) => row[c] # row[d]

\* Rows the code promises to make only one of: of one opportunity, or won by
\* one quotation that has none.
SameDeal(h, k) ==
    \/ Opportunity[h] # None /\ Opportunity[k] = Opportunity[h]
    \/ /\ {h, k} \subseteq ByWin
       /\ Opportunity[h] = None /\ Opportunity[k] = None
       /\ Quoted[k] = Quoted[h]

\* Two requests that make a handover make it for two deals.
DealsApart ==
    \A c, d \in Clerk :
        /\ c # d /\ Busy(c) /\ Busy(d)
        /\ seen[c].status = "absent" /\ seen[d].status = "absent"
        => ~SameDeal(row[c], row[d])

\* Two requests that bring one reference bring it for two customers.
RefsApart ==
    \A c, d \in Clerk :
        c # d /\ ref[c] # None /\ ref[c] = ref[d]
            => CustomerKey(row[c], seen[c].customer)
                 # CustomerKey(row[d], seen[d].customer)

\* No handover changes customer while a request brings a reference.
CustomersStay == customer' # customer => \A c \in Clerk : ref[c] = None

Apart == RowsApart /\ DealsApart /\ RefsApart

ApartSpec == Init /\ [][Next /\ Apart' /\ CustomersStay]_vars

-----------------------------------------------------------------------------
HandoverTypeOK ==
    /\ status \in [Row -> Status \cup {"absent"}]
    /\ customer \in [Row -> Customer]
    /\ po \in [Row -> Ref \cup {None}]
    /\ project \in [Row -> Project \cup {None}]
    /\ acked \in [Row -> BOOLEAN]
    /\ retired \subseteq Customer
    /\ step \in [Clerk -> Step]
    /\ row \in [Clerk -> Row \cup {None}]
    /\ seen \in [Clerk -> Columns]
    /\ ref \in [Clerk -> Ref \cup {None}]
    /\ \A c \in Clerk :
          /\ step[c] = "idle" <=> row[c] = None
          /\ ref[c] # None => step[c] \in {"capturing", "creating", "checked"}

\* routes.py: "no Project, no Job, no TMS ids until the customer has committed
\* in writing", and `Handover Pending` is the "ready for TMS" state: whatever
\* requests overlap, a row that is ready or has ids has its reference.
PoBeforeProject ==
    \A h \in Row : status[h] \in HasPo \/ project[h] # None => po[h] # None

\* "Deduped by (opportunity_id, quote_id) so re-firing the hook is safe."  The
\* manual door promises it of opportunities only.
OneHandoverPerDeal ==
    \A h, k \in Row :
        h # k /\ SameDeal(h, k) /\ status[h] # "absent" => status[k] = "absent"

\* Two handovers of one customer, neither cancelled, that hold one reference.
Clash(h, k) ==
    /\ h # k /\ Live(h) /\ Live(k)
    /\ po[h] # None /\ po[h] = po[k]
    /\ CustomerKey(h, customer[h]) = CustomerKey(k, customer[k])

\* po.py: "a PO reference can be attached to only one handover".  Two handovers
\* come to clash only by a change of customer, which no route checks: a rename
\* or an account merge.  No request that brings a reference, and none that
\* changes a status, makes them.
OnePoOneHandover ==
    [][\A h, k \in Row :
          Clash(h, k)' => \/ Clash(h, k)
                          \/ customer'[h] # customer[h]
                          \/ customer'[k] # customer[k]]_vars

\* "Handover is Cancelled - immutable": the TMS is never asked to work on it
\* again.
CancelledStays ==
    [][\A h \in Row : status[h] = "cancelled" => status'[h] = "cancelled"]_vars

\* What the customer committed to is never taken back, only amended.
PoIsKept ==
    [][\A h \in Row : po[h] # None => po'[h] # None]_vars
=============================================================================
