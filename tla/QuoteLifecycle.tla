--------------------------- MODULE QuoteLifecycle ---------------------------
(***************************************************************************)
(* app/quote/routes.py: a quotation from its draft over approval and       *)
(* revisions to a win or a loss.  As in Handover, a request loads the row, *)
(* decides and commits in separate statements, and the requests of         *)
(* different web workers interleave between them.  A win is three          *)
(* transactions: the status, the handover, the event owed to the TMS.      *)
(*                                                                         *)
(* Left out: who may see the quote, the restriction gate and the           *)
(* conflicting-conditions check (all three only refuse, as Abort does),    *)
(* notifications, tasks and the RFQ chain, currencies other than rupees,   *)
(* and the statuses `Under Negotiation` and `Withdrawn`, which no code     *)
(* sets.                                                                   *)
(***************************************************************************)
EXTENDS Integers

CONSTANTS
    Clerk,         \* web workers
    Quote,         \* rows of quotes, one per version of a quotation
    Preparer,      \* who prepares each of them
    Forwarding,    \* quotes the office prices or confirms through /api/ff
    Price,         \* what the lines of a quote, or its cost sheet, amount to
    Tax,           \* what may be added to the lines
    Beyond,        \* prices under a margin minimum or over the head's limit
    Person,
    Head,          \* heads of the quotes' vertical
    Director,      \* `director_approvers`
    Unrestricted,  \* company-wide scope
    MARGIN_GATE,   \* FEATURE_MARGIN_GATE
    FAULTS,        \* bound: failures after a win has been committed
    None

ASSUME QuoteAssumption ==
    /\ Preparer \in [Quote -> Person]
    /\ Forwarding \subseteq Quote
    /\ Price \subseteq Int /\ Tax \subseteq Int /\ 0 \in Tax
    /\ Beyond \subseteq Int
    /\ Director \subseteq Person
    /\ MARGIN_GATE \in BOOLEAN
    /\ FAULTS \in Nat
    /\ None \notin Person \cup Quote

VARIABLES
    status, approver,                 \* columns of a version
    lines, tax, total,                \* ... its price
    root,     \* the first version of its quotation, None before it exists
    rev,      \* revision_number
    filed,    \* versions whose deal has a handover
    owed,     \* versions whose win is in the webhook outbox
    step,     \* where each worker is in its request
    seen,     \* the rows it loaded, as they were
    by,       \* the person it acts for when it approves
    faults

columns == <<status, lines, tax, total, approver, root, rev>>
requests == <<step, seen, by>>
vars == <<columns, filed, owed, requests, faults>>

Live == {"draft", "awaiting", "approved", "submitted"}
Final == {"superseded", "won", "lost"}
Status == Live \cup Final

\* A rejected quote goes to a status no other request accepts.
OutcomeMisspelt ==
    [submitting |-> "awaiting", approving |-> "approved",
     rejecting |-> "rejected", sending |-> "submitted",
     winning |-> "won", confirming |-> "won", losing |-> "lost",
     closing |-> "lost", revising |-> "superseded"]

\* What a request is about to write.
Outcome == [submitting |-> "awaiting", approving |-> "approved",
            rejecting |-> "draft", sending |-> "submitted",
            winning |-> "won", confirming |-> "won",
            losing |-> "lost", closing |-> "lost",
            revising |-> "superseded"]

Stored(q) == [status |-> status[q], lines |-> lines[q], tax |-> tax[q],
              total |-> total[q], approver |-> approver[q]]

Init ==
    /\ status = [q \in Quote |-> "absent"]
    /\ lines \in [Quote -> Price] /\ total = lines
    /\ tax = [q \in Quote |-> 0]
    /\ approver = [q \in Quote |-> None]
    /\ root = [q \in Quote |-> None]
    /\ rev = [q \in Quote |-> 0]
    /\ filed = {} /\ owed = {}
    /\ step = [c \in Clerk |-> "idle"]
    /\ seen = [c \in Clerk |-> [q \in {} |-> None]]
    /\ by = [c \in Clerk |-> None]
    /\ faults = 0

-----------------------------------------------------------------------------
Load(c, S, next) ==
    /\ step[c] = "idle"
    /\ step' = [step EXCEPT ![c] = next]
    /\ seen' = [seen EXCEPT ![c] = [q \in S |-> Stored(q)]]

\* The rows c has loaded.
Rows(c) == DOMAIN seen[c]

Done(c) ==
    /\ step' = [step EXCEPT ![c] = "idle"]
    /\ seen' = [seen EXCEPT ![c] = [q \in {} |-> None]]
    /\ by' = [by EXCEPT ![c] = None]

\* Only the columns the request changed are written.
Flush(column, q, new, old) ==
    column' = IF new = old THEN column ELSE [column EXCEPT ![q] = new]

\* Refused, failed or killed before its commit.
Abort(c) ==
    /\ step[c] \notin {"idle", "filing", "telling"}
    /\ Done(c)
    /\ UNCHANGED <<columns, filed, owed, faults>>

-----------------------------------------------------------------------------
(* POST /api/quotes *)
Create(q, p) ==
    /\ status[q] = "absent"
    /\ status' = [status EXCEPT ![q] = "draft"]
    /\ lines' = [lines EXCEPT ![q] = p]
    /\ total' = [total EXCEPT ![q] = p]
    /\ root' = [root EXCEPT ![q] = q]
    /\ rev' = [rev EXCEPT ![q] = 1]
    /\ UNCHANGED <<tax, approver, filed, owed, requests, faults>>

\* `lost` without the check that the quote is still open.
WantedButLost ==
    [submitting |-> {"draft"}, approving |-> {"awaiting"},
     rejecting |-> {"awaiting"}, sending |-> {"approved"},
     editing |-> Live, revising |-> Live, winning |-> Live,
     losing |-> Status, pricing |-> Status, costing |-> Status,
     confirming |-> Live \cup {"won"}]

\* The status each request insists on when it loads the quote.
Wanted == [submitting |-> {"draft"}, approving |-> {"awaiting"},
           rejecting |-> {"awaiting"}, sending |-> {"approved"},
           editing |-> Live, revising |-> Live, winning |-> Live,
           losing |-> Live, pricing |-> Status, costing |-> Status,
           confirming |-> Live \cup {"won"}]

\* The margin rule when it is on, else the role.
Authorised(q, u) ==
    IF MARGIN_GATE THEN u \in Director \/ (u \in Head /\ lines[q] \notin Beyond)
                   ELSE u \in Unrestricted \cup Head

StartApprove(c, q, u) ==
    /\ status[q] \in Wanted["approving"]
    /\ Authorised(q, u)
    /\ u # Preparer[q] \/ u \in Unrestricted
    /\ Load(c, {q}, "approving")
    /\ by' = [by EXCEPT ![c] = u]
    /\ UNCHANGED <<columns, filed, owed, faults>>

Start(c, q, next) ==
    /\ status[q] \in Wanted[next]
    /\ next \in {"pricing", "confirming"} => q \in Forwarding
    /\ Load(c, {q}, next)
    /\ UNCHANGED <<columns, filed, owed, by, faults>>

\* restriction_register: everything open of a client just blocked.
StartClose(c) ==
    LET open == {q \in Quote : status[q] \notin {"absent", "won", "lost"}} IN
    /\ open # {}
    /\ Load(c, open, "closing")
    /\ UNCHANGED <<columns, filed, owed, by, faults>>

-----------------------------------------------------------------------------
(* A line is added or changed, by /api/ff/.../price-line whatever the status, *)
(* and recompute_totals().                                                   *)
SaveEdit(c, p) ==
    /\ step[c] \in {"editing", "pricing"}
    /\ \E q \in Rows(c) :
          /\ Flush(lines, q, p, seen[c][q].lines)
          /\ Flush(total, q, p + seen[c][q].tax, seen[c][q].total)
    /\ Done(c)
    /\ UNCHANGED <<status, tax, approver, root, rev, filed, owed, faults>>

(* PATCH of the quote: its tax, and recompute_totals(), which reads the lines *)
(* again.                                                                     *)
SaveTax(c, t) ==
    /\ step[c] = "editing"
    /\ \E q \in Rows(c) :
          /\ Flush(tax, q, t, seen[c][q].tax)
          /\ Flush(total, q, lines[q] + t, seen[c][q].total)
    /\ Done(c)
    /\ UNCHANGED <<status, lines, approver, root, rev, filed, owed, faults>>

(* POST cost-sheet: the price asked, whatever the lines say. *)
SaveCost(c, p) ==
    /\ step[c] = "costing"
    /\ \E q \in Rows(c) : Flush(total, q, p, seen[c][q].total)
    /\ Done(c)
    /\ UNCHANGED <<status, lines, tax, approver, root, rev, filed, owed,
                   faults>>

\* The new status of every row loaded.
Move(c) ==
    status' = [q \in Quote |->
                 IF q \in Rows(c) /\ seen[c][q].status # Outcome[step[c]]
                 THEN Outcome[step[c]] ELSE status[q]]

(* submit-for-approval, reject, submit-to-client, lost, the FF confirmation  *)
(* and the closing of a blocked client's business.                           *)
SaveMove(c) ==
    /\ step[c] \in {"submitting", "rejecting", "sending", "losing",
                    "confirming", "closing"}
    /\ Move(c)
    /\ Done(c)
    /\ UNCHANGED <<lines, tax, total, approver, root, rev, filed, owed, faults>>

\* The approver left out.
SaveApproveUnsigned(c) ==
    /\ step[c] = "approving"
    /\ Move(c)
    /\ Done(c)
    /\ UNCHANGED <<lines, tax, total, approver, root, rev, filed, owed, faults>>

SaveApprove(c) ==
    /\ step[c] = "approving"
    /\ Move(c)
    /\ \E q \in Rows(c) : Flush(approver, q, by[c], seen[c][q].approver)
    /\ Done(c)
    /\ UNCHANGED <<lines, tax, total, root, rev, filed, owed, faults>>

\* The old version stays as it was.
SaveRevisionOnly(c, new) ==
    \E old \in Rows(c) :
        /\ step[c] = "revising"
        /\ status[new] = "absent" /\ Preparer[new] = Preparer[old]
        /\ new \in Forwarding <=> old \in Forwarding
        /\ status' = [status EXCEPT ![new] = "draft"]
        /\ lines' = [lines EXCEPT ![new] = seen[c][old].lines]
        /\ tax' = [tax EXCEPT ![new] = seen[c][old].tax]
        /\ total' = [total EXCEPT
               ![new] = seen[c][old].lines + seen[c][old].tax]
        /\ root' = [root EXCEPT ![new] = root[old]]
        /\ rev' = [rev EXCEPT ![new] = rev[old] + 1]
        /\ Done(c)
        /\ UNCHANGED <<approver, filed, owed, faults>>

\* The new version under the number of the old one.
SaveRevisionSameNumber(c, new) ==
    \E old \in Rows(c) :
        /\ step[c] = "revising"
        /\ status[new] = "absent" /\ Preparer[new] = Preparer[old]
        /\ new \in Forwarding <=> old \in Forwarding
        /\ status' = [status EXCEPT ![new] = "draft", ![old] = "superseded"]
        /\ lines' = [lines EXCEPT ![new] = seen[c][old].lines]
        /\ tax' = [tax EXCEPT ![new] = seen[c][old].tax]
        /\ total' = [total EXCEPT
               ![new] = seen[c][old].lines + seen[c][old].tax]
        /\ root' = [root EXCEPT ![new] = root[old]]
        /\ rev' = [rev EXCEPT ![new] = rev[old]]
        /\ Done(c)
        /\ UNCHANGED <<approver, filed, owed, faults>>

(* POST revise: a draft with the lines and the tax of the old version, which *)
(* it replaces.                                                              *)
SaveRevision(c, new) ==
    \E old \in Rows(c) :
        /\ step[c] = "revising"
        /\ status[new] = "absent" /\ Preparer[new] = Preparer[old]
        /\ new \in Forwarding <=> old \in Forwarding
        /\ status' = [status EXCEPT ![new] = "draft", ![old] = "superseded"]
        /\ lines' = [lines EXCEPT ![new] = seen[c][old].lines]
        /\ tax' = [tax EXCEPT ![new] = seen[c][old].tax]
        /\ total' = [total EXCEPT
               ![new] = seen[c][old].lines + seen[c][old].tax]
        /\ root' = [root EXCEPT ![new] = root[old]]
        /\ rev' = [rev EXCEPT ![new] = rev[old] + 1]
        /\ Done(c)
        /\ UNCHANGED <<approver, filed, owed, faults>>

-----------------------------------------------------------------------------
(* POST won *)
SaveWon(c) ==
    /\ step[c] = "winning"
    /\ Move(c)
    /\ step' = [step EXCEPT ![c] = "filing"]
    /\ UNCHANGED <<lines, tax, total, approver, root, rev, filed, owed, seen,
                   by, faults>>

\* Only while the quote, read again, still says it is won.
FileIfStillWon(c) ==
    /\ step[c] = "filing"
    /\ step' = [step EXCEPT ![c] = "telling"]
    /\ \/ filed' = filed \cup {q \in Rows(c) : status[q] = "won"}
          /\ UNCHANGED faults
       \/ faults < FAULTS /\ faults' = faults + 1 /\ UNCHANGED filed
    /\ UNCHANGED <<columns, owed, seen, by>>

\* _autocreate_handover() and its commit; an error is rolled back and
\* swallowed.
File(c) ==
    /\ step[c] = "filing"
    /\ step' = [step EXCEPT ![c] = "telling"]
    /\ \/ filed' = filed \cup Rows(c) /\ UNCHANGED faults
       \/ faults < FAULTS /\ faults' = faults + 1 /\ UNCHANGED filed
    /\ UNCHANGED <<columns, owed, seen, by>>

\* Told only when the handover was new.
TellOnce(c) ==
    /\ step[c] = "telling"
    /\ Done(c)
    /\ \/ owed' = owed \cup (Rows(c) \ filed) /\ UNCHANGED faults
       \/ faults < FAULTS /\ faults' = faults + 1 /\ UNCHANGED owed
    /\ UNCHANGED <<columns, filed>>

\* notify_tms(), which never raises.
Tell(c) ==
    /\ step[c] = "telling"
    /\ Done(c)
    /\ \/ owed' = owed \cup Rows(c) /\ UNCHANGED faults
       \/ faults < FAULTS /\ faults' = faults + 1 /\ UNCHANGED owed
    /\ UNCHANGED <<columns, filed>>

\* The worker is killed between two of the transactions of a win.
Crash(c) ==
    /\ step[c] \in {"filing", "telling"}
    /\ faults < FAULTS
    /\ faults' = faults + 1
    /\ Done(c)
    /\ UNCHANGED <<columns, filed, owed>>

-----------------------------------------------------------------------------
\* A request comes in, and one that is under way goes on.
Loads(c) ==
    \/ \E q \in Quote : \/ \E u \in Person : StartApprove(c, q, u)
                        \/ \E next \in DOMAIN Wanted \ {"approving"} :
                               Start(c, q, next)
    \/ StartClose(c)

GoesOn(c) ==
    \/ \E p \in Price : SaveEdit(c, p) \/ SaveCost(c, p)
    \/ \E t \in Tax : SaveTax(c, t)
    \/ SaveMove(c) \/ SaveApprove(c)
    \/ \E new \in Quote : SaveRevision(c, new)
    \/ SaveWon(c) \/ File(c) \/ Tell(c) \/ Crash(c) \/ Abort(c)

Next ==
    \/ \E q \in Quote, p \in Price : Create(q, p)
    \/ \E c \in Clerk : Loads(c) \/ GoesOn(c)

Spec == Init /\ [][Next]_vars

\* A worker that is alive finishes the request it is in; nobody has to make
\* another one.
Fairness == \A c \in Clerk : WF_vars(File(c)) /\ WF_vars(Tell(c))

FairSpec == Spec /\ Fairness

\* Nothing in the code keeps two requests off one row.  What would follow if
\* something did, as a row lock would: of the requests that are about to write
\* a status, no two have loaded the same row, because the second one waits.
Deciding(c) == step[c] \in DOMAIN Outcome

RowsApart ==
    \A c, d \in Clerk : c # d /\ Deciding(c) /\ Deciding(d)
                            => Rows(c) \cap Rows(d) = {}

ApartNext ==
    \/ \E q \in Quote, p \in Price : Create(q, p)
    \/ \E c \in Clerk : (Loads(c) /\ RowsApart') \/ GoesOn(c)

ApartSpec == Init /\ [][ApartNext]_vars

\* What would follow for the authority to approve if the lines could not change
\* behind the one who approves: an approval and the edits of a quote wait for
\* one another.
Pricing(c) == step[c] \in {"editing", "pricing", "approving"}

PricesApart ==
    \A c, d \in Clerk : c # d /\ Pricing(c) /\ Pricing(d)
                            => Rows(c) \cap Rows(d) = {}

LinesSpec == Init /\ [][Next /\ PricesApart']_vars

\* ... and if the lines were the whole price: nobody opens a cost sheet, and
\* there is no tax.
LinesOnly ==
    /\ \A c \in Clerk : step[c] # "costing"
    /\ \A q \in Quote : tax[q] = 0

PricedSpec == Init /\ [][Next /\ PricesApart' /\ LinesOnly']_vars

-----------------------------------------------------------------------------
Step == {"idle", "filing", "telling"} \cup DOMAIN Wanted \cup {"closing"}

\* What may be asked for a quote.
Total == {p + t : p \in Price, t \in Tax}

Columns == [status : Status, lines : Price, tax : Tax, total : Total,
            approver : Person \cup {None}]

\* What a request may have loaded.
Memory == UNION {[S -> Columns] : S \in SUBSET Quote}

QuoteTypeOK ==
    /\ status \in [Quote -> Status \cup {"absent"}]
    /\ lines \in [Quote -> Price]
    /\ tax \in [Quote -> Tax] /\ total \in [Quote -> Total]
    /\ approver \in [Quote -> Person \cup {None}]
    /\ root \in [Quote -> Quote \cup {None}]
    /\ rev \in [Quote -> Nat]
    /\ filed \subseteq Quote /\ owed \subseteq Quote
    /\ step \in [Clerk -> Step]
    /\ seen \in [Clerk -> Memory]
    /\ by \in [Clerk -> Person \cup {None}]
    /\ faults \in 0..FAULTS

\* quote.py: "The old row is marked `Superseded`, a new row is created": of
\* the versions of one quotation at most one can still be sent, or is won.
OneVersionCounts ==
    \A p, q \in Quote :
        /\ p # q /\ root[p] = root[q] /\ root[p] # None
        /\ status[p] \in Live \cup {"won"}
        => status[q] \notin Live \cup {"won"}

\* Two versions of one quotation never carry the same revision number: that
\* is how a customer and the office tell them apart.
DistinctRevisions ==
    \A p, q \in Quote :
        p # q /\ root[p] = root[q] /\ root[p] # None => rev[p] # rev[q]

\* "Quote is Won - immutable": what is won stays won, and what was lost or
\* superseded never comes back to life.
FinalStaysFinal ==
    [][\A q \in Quote :
         /\ status[q] = "won" => status'[q] = "won"
         /\ status[q] \in {"superseded", "lost"}
              => status'[q] \in {"superseded", "lost"}]_vars

\* Nothing goes to a customer that nobody approved.
SentWasApproved ==
    \A q \in Quote : status[q] \in {"approved", "submitted"}
                       => approver[q] # None

\* cost_sheet.py: "Below the floor, or above 25 lakh, the quote needs a
\* director rather than the vertical head. The rule is stated here and
\* enforced at approval": whoever approves a quote that asks such a price is
\* a director.
ApprovedWithinAuthority ==
    [][\A q \in Quote :
         status[q] = "awaiting" /\ status'[q] = "approved" /\ total[q] \in Beyond
           => approver'[q] \in Director]_vars

\* A won quote gets its handover, and "the event is now owed to the TMS".
\* Forwarding quotes may be won by a confirmation, which does neither.
WonIsFiled == \A q \in Quote \ Forwarding : status[q] = "won" ~> q \in filed
WonIsOwed == \A q \in Quote \ Forwarding : status[q] = "won" ~> q \in owed
=============================================================================
