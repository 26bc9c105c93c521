# Procam CRM: TLA+ models, model checking and proofs

Procam CRM is a Flask application over one SQLAlchemy database (SQLite today).
Two gunicorn workers serve requests; systemd timers start short processes
(outbox worker, webhook worker, escalation, follow-ups) that share the same
database file.  There are no threads and no message broker: concurrency is
*between processes*, and every database statement or commit is a point where
another process may step in.

## 1. Inventory

| Component | State | Operations | Interacts with | Hard behaviour | What makes it correct |
|---|---|---|---|---|---|
| Job leases (`app/services/leases.py`) | one row per job: holder, expiry | acquire, renew, release, hold | every timer job | expiry against a live runner, killed runner, late release | one runner at a time; the job runs again after a crash |
| Webhook outbox (`app/services/webhooks.py`, `scripts/webhook_worker.py`) | `webhook_outbox` rows: status, attempts, next attempt, claim | enqueue, claim, deliver, retry, unstick | leases, TMS over HTTP, quote/handover code that owes events | overlap of passes, lost answers, crash between post and commit | no event in two hands; delivered only if taken; every event settles |
| Email outbox (`app/services/outbox.py`, `app/mailops`) | `email_outbox` rows, queued/sending/sent/failed/cancelled, not before, claim; kill switch, per-minute and per-day ceilings | enqueue, throttle, claim, refresh, send, requeue, retry, cancel | leases, Graph mail, notifications | cancel against claim, ceiling against overlapping runs, one message for several rows | a cancelled mail is not sent; nobody is sent the same mail twice by overlap |
| Quotes (`app/quote/routes.py`) | quote status, versions, approvals, RFQ status | save, submit, approve, reject, revise, won, lost | RFQ chain, handover, webhook outbox | several commits in one request, two people acting on one quote | a won deal is announced and handed over; won and lost exclude each other |
| Handover (`app/handover`) | `won_handovers` rows: status, customer, PO reference, TMS ids | create on a win or by hand, capture the PO, patch, cancel | quotes, TMS integration | check, then commit, from two workers; a key that can be edited after the check | no TMS project before the PO; a reference on one live handover of a customer; what is cancelled stays cancelled |
| RFQ chain (`app/services/rfq_chain.py`, `app/rfq_chain`, `cost_sheet.py`) | 12 step rows with start, due date, paused time, hold, result; priority, optional steps and hold of the RFQ | open_step, close_step by clicks and events, hold, reactivate, set_priority, the Done button | quotes, PO screen, mailbox, tasks | every close tests the row it loaded, clock stopped by a hold, two holds kept side by side | the chain neither forks nor stalls; holds are counted against nobody |
| Lead flow and stages (`app.py`, `lead_flow.py`, `stage_map.py`, `mail_ingest.py`, and nine others) | stage, frozen, archived, junk, merged, stage history | some twenty routes, jobs and mails that each write the stage | task engine, mails, quotes, restrictions | each door decides for itself about history and tasks; reopening reads what was recorded | a reopened lead is where it was; merges leave a survivor |
| Task engine (`app/services/task_engine.py`, `task_autoclose.py`, `app/tasks`) | open tasks by definition, lead and owner | raise, complete, close all, Done button | leads, in a second transaction | read-then-insert; swallowed errors; crash between the commits | one open task per definition, lead and owner; none on a closed lead |
| Junk, archive, merge (`junk_delete.py`, `app/junk`, `lead_merge.py`, `app/bulk_admin`) | junk, archived, merged_into | bin, restore, purge, archive, merge | lead stages, tasks | each of them also moves the stage | an enquiry survives somewhere |
| Bulk undo (`app/services/bulk_log.py`) | batch with old and new value per field | Batch.set, undo | every table it edits | undo after later edits, twice, or in part | undo restores what nobody changed since and touches nothing else |
| Escalation (`app/services/escalation.py`) | escalation log per step and level | run_once | RFQ chain, outbox, leases | send-then-log | a level is escalated once |
| Notifications (`app/services/notify.py`) | notification rows | notify with a 10-minute window | outbox | check-then-insert | no duplicate inside the window |
| Reports, directory, intelligence, copilot, intake, Excel, templates | read models, suggestions, forms | queries, parsing, rendering | database | large but sequential | not modelled: data transformation and presentation |

## 2. Plan and state of the work

Modules, in the order of what they protect.  The first seven are written.

| Order | Module | Composes | State |
|---|---|---|---|
| 1 | `JobLease` | - | modelled, checked, proved |
| 2 | `WebhookOutbox` | EXTENDS `JobLease`; implements the abstract `OwedEvents` | modelled, checked, proved |
| 3 | `EmailOutbox` | EXTENDS `JobLease`; implements the abstract `OwedMail` | modelled, checked, proved |
| 4 | `Handover` | - | modelled, checked, proved |
| 5 | `QuoteLifecycle` | its `filed` and `owed` are the requests `Handover` and `WebhookOutbox` start from | modelled but for the parts named in section 3, checked, proved |
| 6 | `LeadLifecycle` (`app.py`, `task_engine.py`, `mail_ingest.py`, `lead_merge.py`, `junk_delete.py`, ...) | the tasks of leads, the mails that reopen them | modelled but for the parts named in section 3, checked, proved |
| 7 | `RfqChain` (`app/services/rfq_chain.py`) | events of quotes, the PO screen and the mailbox | modelled but for the parts named in section 3, checked, proved |
| 8 | `BulkLog` (`app/services/bulk_log.py`) | - | not written: undo in part, twice, after later edits and other batches; abstract specification "the latest hand wins" |
| 9 | `Escalation` (`app/services/escalation.py`) | `JobLease`, `RfqChain` | not written: send, then log; ladder levels in order |

Abstract specifications: `OwedEvents` and `OwedMail` (done); "a rung is climbed
once" for escalation and "the latest edit wins" for undo would be next.  Theorems
that could follow: one abstract queue for the common argument about claims behind
`OneDeliverer` and `OneSender`, and those of modules 8 and 9.  No module needs a
RECURSIVE operator.

## 3. The modules

`MC*` modules give the constants their values for TLC; `*_proofs` modules hold
theorems.  `PROJECT.json` maps every definition to the lines it stands for.

### JobLease - `app/services/leases.py`

| Model | Code |
|---|---|
| `holder`, `left` | `job_leases.holder`, `expires_at - now` |
| `phase[w]` | before, between reading `utcnow()` and the UPDATE, and inside `with hold(...)` |
| `age[w]` | time since worker `w` read its `now` |
| `Ask`, `Take`, `Refuse` | `acquire()`: reading the clock; the conditional UPDATE (or the INSERT of a missing row) that matched; the one that did not |
| `Renew`, `Release`, `Abandon` | `renew()`, `release()`, a worker killed or whose release failed |
| `LeaseTick` | a unit of time |

The clock is *relative*: `Tick` lowers `left` and raises every `age`, so the state
space is finite without a bound on time.  `acquire()` compares the expiry with
the `now` it read before it waited for the write lock, hence `left < -age[w]`.
`RUN` is how long a live worker goes without releasing or renewing; nothing in
the code limits it.  `hold()` reads its own `now` microseconds after
the caller's `run_once()`; both are one `age`.  The holder is `host:pid`, which
is unique among live processes.

### WebhookOutbox - `app/services/webhooks.py`, `scripts/webhook_worker.py`

A row is `status`, `attempts`, `wait` (`next_attempt_at - now`), `owner`, `claimed`
(`now - claimed_at`) and `addressed` (its `destination` was filled in).  A pass
is `step[w]`, the ids it selected and then the rows it read back (`mine`), and
the event on the wire (`current`, `seen`, `reply`).  `tms` is what the TMS has
processed, external to the code.

| Action | Code |
|---|---|
| `Enqueue`, `Revive`, `Configure` | `enqueue()`; a person's retry; `TMS_WEBHOOK_URL` set |
| `Start`, `Begin`, `Skip` | the worker starts, gets the lease, or is refused it |
| `Unstick`, `Select`, `Claim`, `Fetch` | the four statements of `claim()`, one step each |
| `Post` | the HTTP request: taken, taken with the answer lost, not reached, 429/5xx, refused |
| `NoUrl`, `Delivered`, `Refused`, `RetryLater`, `Exhausted` | the branches of `deliver()` and the commit that ends each |
| `Finish`, `Raise`, `Crash` | end of the batch and `release()`; a database error; the process killed |

Every database statement is one step and other passes come between any two.
`OwedEvents` is the promise of the docstring: an event is owed until the TMS has
it or a person is asked; `Debts` maps `queued`, `sending` and `failed` to owed,
`delivered` to settled, `dead` to given up.

### EmailOutbox - `app/services/outbox.py`, `scripts/outbox_worker.py`

Rows as above, with `stamp` and `days` (`sent_at` relative to now and in
midnights), `tomorrow` (held until the coming midnight), and `stopped`, the kill
switch as `flags.py` answers (its cache makes a change wait up to ten seconds, a fraction
of a tick).  `NOTIFY` is `NOTIFY_ENABLED`.  `Batch` gives the rows that travel as one message.  Actions follow the
pass: `Start` asks the kill switch, `Begin` takes the lease, then `Unstick`,
`Room` (the ceiling per minute), `Select`, `Claim`, `Fetch`, and group by group
`HoldForCap` or `Send`, then `MarkSent`, `MarkFailed` or `Held`.  `Cancel`,
`Revive`, `Switch` are people; `Midnight` and `Tick` are time.  History variables
(`asked`, `copies`, `excused`) count the times the mail server was really asked,
the copies it accepted, and those of them that nobody could record.

`OwedMail` is the promise: a mail is owed until it left or a person is asked, those of
one message leave together, and of one that is sent or that a person stopped no
further copy leaves.  A row's status is its debt, and a mail has left when the
server accepted a copy of it (`Debts`, `Departed`).

What the code does when it cannot read is modelled where it decides: a switch that
cannot be read is off, to a pass that starts (`Misread`) and to the transport (`Unread`);
the counts behind the ceilings return 0 when their query fails, so the pass gets the
whole minute (`Room`) or passes a daily cap (`Send`, `Passed`); `missed` counts those.
Each is a fault, as are `Raise` and `Crash`.  The two caps of a day, on everything and on
business development, are the records of `Caps`, asked for the first row of a group.
The ceilings themselves are constants: a setting that cannot be read falls back on the
environment or a default (`outbox.py:229-262`), which the model does not have.

`_mark_sent()` leaves `claimed_by`, which nobody reads after that.  The branch
at `outbox.py:648-651` that holds back what exceeds the minute's ceiling cannot
be reached: `claim()` is called with `limit=take`, which is at most `room`.
Every row has one recipient, so a row that alone exceeds the daily cap is not
modelled (it is among the hazards).

### Handover - `app/handover/`

A request loads its row, decides, and writes in a later statement.  `row[c]`,
`seen[c]` and `ref[c]` are what worker `c` holds in between.  `Flush` is what
SQLAlchemy does at the commit: the UPDATE has only the columns whose value the
request changed *against what it loaded*, and there is no version column and no
`SELECT ... FOR UPDATE`.  `StartCreate`, `Check`, `SaveCreate` are the manual
creation and the creation on a win, `StartCapture`, `Check`, `SaveCapture` the
capture of the reference, `StartPatch`, `SavePatch` the PATCH route with its
advance to `complete`, `StartCancel`, `SaveCancel` the cancellation; `Abort` is
any refusal, error or crash before the commit.  `Merge` is the merge of two accounts, by
its route or its script, which moves the handovers of one to the other in one statement.

The two doors look for different rows: by hand only those of the opportunity, a win those
of the opportunity or, without one, those of the quotation (`Twins`).  `SameDeal` is what
both look for; a handover made by hand with a quotation and no opportunity is outside it
(section 8).

Nothing in the code keeps requests apart.  `RowsApart`, `DealsApart` and `RefsApart` say
that they are, as with a lock on a row, a deal and a reference, and `CustomersStay` that no
handover changes customer while a request brings a reference; `ApartSpec` is `Spec`
with those promises, and the properties that fail without them are checked and proved
under it.  `QuoteLifecycle`, `LeadLifecycle` and `RfqChain` do the same; in
`QuoteLifecycle` only a load waits (`Loads`), and that a request which goes on
(`GoesOn`) leaves the rows apart is a lemma.

### QuoteLifecycle - `app/quote/routes.py`, `margin_policy.py`, `cost_sheet.py`, `ff_handover.py`, `client_restrictions.py`

Versions of quotations with `status`, `lines` (their sum, the stored subtotal), `tax`,
`total` (the price asked), `approver`, `root`, `rev`; prices are in rupees.
Requests are as in `Handover` (`Load`, `Flush`, `Abort`).  `Wanted` is the statuses from
which each route goes on, `Outcome` what it writes.  A win is three transactions:
`SaveWon`, `File` (the handover), `Tell` (the event); `Crash` or a swallowed error
may come between them, at most `FAULTS` times.  `SaveRevision` supersedes
a version and adds its successor in one commit.  `Forwarding` are the quotes the
office also prices line by line from its sourcing (`/api/ff/.../price-line`) or confirms by
mail (`ff_handover.mark_won`).

The price has four doors.  `SaveEdit` is the routes of a line and `price-line`, which unlike
them tests no status (request `pricing`); `SaveTax` the PATCH with a `tax_amount`; both
end in `recompute_totals()`, so the total is the lines and the tax.  `SaveCost` is the cost
sheet, which writes the total alone.  `SaveRevision` copies lines and tax.

Left out: who may see the quote, the restriction gate and the conditions check
(they only refuse), notifications, tasks, the RFQ chain, the text of the quote
number, archives and packs, other currencies (a margin rule sends them all to a
director), and what a line costs us but for what it does to `Beyond`.
`Under Negotiation` and `Withdrawn` are never set by
any code; `quote_rev.mark_superseded` is never called, and
`quote_build.recalculate()` by tests only.

### LeadLifecycle - `app.py`, `app/services/`, `email_ingest/`, `app/bulk_admin/` and others

A request is `row[c]` (its lead), `seen[c]` (the row it loaded, for task-engine steps also
the tasks it read) and `step[c]`.  The commit writes the columns that differ
from what was loaded (`Flush`), as in `Handover`.  An open task belongs to a `Duty`, a
definition and an owner (a person, or a role whose pool shares it): `Owners` is
`next_owner_rule`, which names the owners by who is assigned to the lead (`team`),
and the engine looks for an open task of that owner only.  `mark` is what `last_open_stage()`
would read in the stage history; three history variables say what really
happened: `held` (the last open stage), `told` (the history recorded how it left
that stage) and `swept` (a route that closes tasks has run since).

| Action | Code |
|---|---|
| `Create`, `SaveForm`, `Advance`, `Decide`, `CloseLost` | the screens of a lead in `app.py`; those that change the stage go on to the task engine |
| `Look`, `RunHook` | `_fire_task_hook()`: `on_state_change()` reads the lead and its open tasks, then raises, completes or closes them, in a transaction of its own; `Abort` in between is a crash or a swallowed error |
| `TaskDone` | the Done button of the task list |
| `Reassign` | `assign()` and the other ways a lead changes hands; the tasks stay with whom they were raised for |
| `BulkSet`, `BulkClose`, `WorkbenchSet`, `Move`, `CopilotMove`, `PurchaseOrder`, `CapabilityNo`, `CallLogged`, `QuoteSent`, `Block` | the other doors to the stage, none of which calls the task engine |
| `LoadForMail`, `QuotedByMail`, `MailReopens` | a mail finds a lead by conversation, references or subject; our quotation seen in the mailbox; `reopen_for()` |
| `Archive`, `Unarchive`, `Bin`, `Restore`, `Purge`, `LoadForMerge`, `Merge` | shelves and duplicates |

`Logs` writes a history row, `Sets` does not: which of them an action uses is what
its source does.  `Worked` are the leads with requests of their own; in the code
it is every lead, and the theorems hold for that.  The other leads are made at
`Fallback`.

Left out: gates that only refuse (value, account, minimum entry, rights),
rework tasks, the opportunity and handover that a decision also makes, the
snapshot of the bin, blocked senders, every other field of a lead.

### RfqChain - `app/services/rfq_chain.py`, `app/rfq_chain/routes.py`, `cost_sheet.py`, `app/tasks/routes.py`

`task` are the rows of the task table with a step number (`Slot` its ids), `priority`,
`wanted` (the optional steps) and `heldAt` the RFQ.  A request loads all of
them (`Load`), then acts and commits (`Done`).  History variables: `worked`, the time each
step was open while the RFQ was not on hold; `pace`, the priority its due date
or verdict was reckoned by; `ticked`, the rows closed with the Done button.

| Action | Code |
|---|---|
| `Register` | `api_register()`: priority and optional steps stand even if step 2 is not closed |
| `Confirm`, `CostSheetSaved`, `QuoteApproved`, `QuoteSent`, `PoRecorded` | the clicks and events that call `close_step()`; it closes a row and opens the next (`CloseStep`, `Follows`) |
| `TaskDone` | `api_task_done()` on a step of the chain |
| `Hold`, `Reactivate`, `SetPriority` | the functions of these names |
| `Tick` | time; standard times are in units of the instance's choosing |

`Elapsed` and `Verdict` are `elapsed_hours()` and `result_for()`; seconds are not rounded.
`StepsFor` is nondeterministic where the dictionary of `steps_for()` keeps the last of
two rows of one step, in an order the query leaves open.  `Init` is a chain that
someone has started: nothing under `app/` opens step 1 or 2, only
`scripts/parity_world.py:311-354` and the tests do.

Left out: owners, rights, evidence, conditions, the customer's questions at the
screening (the step just stays open), and what the callers save besides.
Nothing fires the events of steps 9, 10 and 12 (`rfq_mail_linked`, `customer_replied`,
`award_date_recorded`; `on_handover_sent` is never called), so they close only by
the Done button; the model has such steps like any other.  The task engine does
not touch the chain's rows: their definitions name no state.

## 4. The runs

| Run | Instance | What it shows |
|---|---|---|
| `lease` | 3 runners, one renews, LEASE = RUN = 3 | one runner inside at a time (`OneRunner`); the job runs for ever after crashes (`JobKeepsRunning`) |
| `webhook` | 2 passes, 1 event, 2 attempts, 2 faults, 1 revival | `DeliveredMeansTaken`, `DeadForAReason`, `BackoffRespected`, and `EveryEventSettles` |
| `webhook_overrun` | 2 passes that may outlast the lease (RUN = 2, LEASE = 1), 2 events | `OneDeliverer`, `OnlyItsHolderEndsALease`, refinement of `OwedEvents` (`OwedPromise`) |
| `email_overrun` | 2 overlapping passes, 2 mails in one message, retries, 1 fault | `OneSender`, `CopiesAccountedFor`, refinement of `OwedMail` (`MailPromise`) |
| `email_ceilings` | 1 pass at a time, 2 mails, one a minute, one a day of business development and two of all, kill switch, cancel, 1 fault, 1 revival | `HeldCostsNothing`; `StampedRate`, `StampedDay` by the recorded times, up to the counts that failed; mail held back still goes (`EveryMailSettles`) |
| `handover_apart` | 2 workers that keep off each other's row, deal and reference, a win and a handover by hand of one opportunity, 2 wins of one quotation, merges of accounts | `OneHandoverPerDeal`, `CancelledStays` through every route; a reference gets a second handover only by a change of customer (`OnePoOneHandover`) |
| `handover_overlap` | 2 workers on one unlinked handover, 2 references, 2 names | `PoBeforeProject`, `PoIsKept` whatever interleaves |
| `quote_apart` | 2 workers whose deciding requests keep off each other's rows, 3 versions or quotations, one failure | `OneVersionCounts`, `DistinctRevisions`, `FinalStaysFinal` |
| `quote_overlap` | 3 workers on one quotation, no failure | `SentWasApproved`, `WonIsFiled`, `WonIsOwed` |
| `quote_authority` | 1 worker, prices and a tax within and beyond the head's limit | *violated*: `ApprovedWithinAuthority` (section 7) |
| `lead` | 1 worker, a lead with every request and one that is only merged, 3 open stages, 2 tasks, 2 owners, a lead that changes hands, crashes between the commits | `ReopensWhereItWas`, `NoWorkOnAClosedLead`, `OneTaskPerOwner`, `SomebodySurvives` |
| `rfq` | 1 worker, a chain of 4 steps, one of them optional, 2 priorities, 3 units of time | `OneLiveStep`, `HoldsCostNobody` |

**Bounds.**  Two passes suffice for an overlap: a third only sees the leftovers of
either.  Two events or mails are what makes a batch, a partial batch and a
claim that wins one row and loses the other; where the property is about one row
alone (`webhook`) one is enough, and time, faults and revivals get the
room.  MAX = 2 separates the first, a middle and the last attempt; larger values
repeat the middle one.  LEASE = RUN is the tightest run that fits its lease, where
an off-by-one shows; in the overrun runs one tick is about 300 s, so LEASE = 1,
RUN = 2 stands for 25 posts of 15 s against 300 s, and STUCK = 2 for a limit that
a pass reaches but does not pass.  `FAULTS` bounds crashes, database errors and
lost answers, `REVIVALS` the retries by hand; they exist only for TLC
(the theorems hold for every value).  `handover_apart` has one reference because
two handovers must clash over it; four rows because each kind of deal needs two, of which one
exists, and two deals of one customer are the smallest set with a clash, one of each pair
linked to an account; no TMS project, which none of its properties is about.
`email_ceilings` has one attempt a mail (MAX = 1): what settles after a retry with
back-off is checked for the webhook queue, whose retry is the same, and the
safety of retries in `email_overrun`.  That run has no retry by hand, which would
double it: `email_ceilings` has one, and the theorems hold with any number.
`lead` needs three open stages so that a lead can
be put back too far or not far enough (`Fallback` is one of them), two tasks so that one is
raised by the creation and one by a stage, two owners so that the task of a stage is
raised for one, then for the other, and the second lead for merges;
`rfq` has four steps because two that follow each other, one that may be
skipped between them and a last one are the cases of `next_step()`, and its times
let a step end early, on time and late, with a hold before or in it; one step
stands for costing, approval and submission, so it closes by three events.
`HORIZON` bounds time, `Slot` the rows; one slot for each step is all that one
request at a time can fill.  `quote_apart` has three rows because two revisions, or a revision and an
unrelated quotation, need three.  `quote_overlap` has three workers although
two serve in production: one wins while a second one edits and a third revises.
Both have one price and no tax, which none of their properties is about, and fewer people;
`quote_authority` has prices 1 and 3 and a tax of 0 or 1, with 3 and 4 beyond the limit.
Symmetry is used in safety runs only (`webhook_overrun`, `email_overrun`,
`handover_overlap`, `handover_apart`,
`quote_apart`).  Deadlock is checked except in the two handover runs,
where every handover may end cancelled.

The properties of `handover_apart`, `quote_apart`, `lead` and `rfq` fail when two requests
meet on one row, deal, reference, lead or chain: section 8 says how.  The first two
runs have two workers that keep apart (`ApartSpec`).  `lead` and `rfq` have one worker, which
is always apart from itself: the chain is a single RFQ, which two requests that keep
apart handle in turn as one worker does, and two workers on two leads take TLC five
minutes; the properties of `lead` were checked so once (2.2 million states, no error), and
the theorems have any number of workers.  That requests keep apart is an assumption,
which the code does nothing to ensure, and not a bound.

**Fairness.**
- `LeaseFairness`: time passes; a timer starts the job again and a worker that is
  alive does what it can do (WF); `Take` strongly fair, since a runner that is
  refused tries again every two minutes and other jobs do not compete for the
  row for ever.  Nothing obliges anyone to renew or to crash.
- Webhook and email `FairSpec`: time (and midnight) pass, and each worker
  goes on with its pass (`WF_vars(Proceed(w))`), as the two systemd timers
  (`OnUnitActiveSec=2min`) justify.  Queueing, cancelling, reviving, configuring,
  switching and crashing are never fair.  `EveryMailSettles` is conditional on
  the kill switch staying off from some time on; mail settles in no other case.
- Quote `Fairness`: a live worker finishes a win it has committed (WF of `File` and
  `Tell`).  Nobody has to make another request, and nothing in the code
  repeats a win that was cut short.

## 5. What is proved

For every number of workers, rows, events and prices, every lease and every
limit, TLAPS proves:

| Module | Theorem | Assumes | Argument |
|---|---|---|---|
| `JobLease_proofs` | `LeaseTypeCorrect` | - | the type invariant is inductive |
| | `OneRunnerAtATime` | RUN <= LEASE | two workers inside are both the holder: `InsideHoldsTheLease` is inductive because it also says what is left of the lease: LEASE less the time since the worker read its clock, which RUN <= LEASE keeps from running out |
| | `LeaseEndsWithItsHolder` | - | action by action |
| `WebhookOutbox_proofs` | `TypeCorrect`, `OneDelivererAlways`, `DeliveredMeansTakenAlways` | RUN <= STUCK | `IInv` below |
| | `QueueRunsUnderTheLease` | - | every step is a step of `JobLease` or leaves the lease alone |
| | `BackoffRespectedAlways` | RUN <= STUCK, RUN <= LEASE | `SelectedHaveWaited`: the rows a pass has selected and not yet claimed are past their back-off; only a pass fails a row, and `OneRunner` keeps it from doing so in between |
| | `DeadForAReasonAlways` | RUN <= STUCK, address configured | `PostInv`: the attempts a pass loaded are still the row's when it writes; an unconfigured queue kills an event before its last attempt |
| | `QueueKeepsThePromise` | RUN <= STUCK | each step maps to a step of `OwedEvents` or a stutter, under `IInv` |
| `EmailOutbox_proofs` | `MailTypeCorrect`, `MailInvAlways`, `OneSenderAlways`, `FinalStaysFinalAlways`, `CopiesAccountedForAlways` | RUN <= STUCK | the same scheme |
| | `HeldCostsNothingAlways` | RUN <= STUCK | `Charged`: an answer not yet written is worth one attempt more than is counted |
| | `OutboxKeepsThePromise` | RUN <= STUCK | each step maps to a step of `OwedMail` or a stutter; `CopiesAccountedFor` says that what is marked sent has left |
| | `MailRunsUnderTheLease` | - | as for the webhook queue |
| | `StampedRateAlways` | RUN <= STUCK, RUN <= LEASE | `RateInv` below |
| | `DayWithBatches`, `StampedDayAlways` | RUN <= STUCK, RUN <= LEASE; messages of at most G rows, which are under the cap together or not at all; for the second of one row | `DayInv` below |
| `Handover_proofs` | `HandoverTypeCorrect`, `PoBeforeProjectAlways`, `PoIsKeptAlways` | - | `GateInv` below |
| | `CancelledStaysWhenRowsApart` | rows apart | `RowsInv`: the row a request handles is not cancelled |
| | `OneHandoverPerDealWhenDealsApart` | deals apart | `DealInv`: a request that makes a row is still the first of its deal |
| | `OnePoOneHandoverWhenRefsApart` | rows and references apart, customers stay while one is brought | `RefsInv`: a request knows the status and references of its row as they are, and no other handover takes the reference it checked |
| | `ApartIsEach`, `OneWorkerIsApart` | -; one worker | the three specifications allow what `ApartSpec` allows, and that allows all that one worker does |
| `QuoteLifecycle_proofs` | `QuoteTypeCorrect`, `SentWasApprovedAlways` | - | `SignedInv` below |
| | `OneVersionCountsWhenApart`, `DistinctRevisionsWhenApart`, `FinalStaysFinalWhenApart` | deciding requests apart | `ApartInv` below |
| | `WinsAreInHandAlways` | - | `WinInv`: until something fails, a won quote without handover or event has a request that is filing or telling it |
| | `AuthorityOverLines` | margin rule on; approvals and edits (with `price-line`) apart | `LinesInv` below: the rule as coded, over the lines |
| | `AuthorityEnforcedWhenPriced` | the same; no cost sheet, no tax | `PricedInv` below: the rule as documented, over the price asked |
| `LeadLifecycle_proofs` | `LeadTypeCorrect` | - | every handler is made of a few pieces (`Sets`, `Logs`, `KeepsTasks`, `Done`, ...), each with a lemma |
| | `SomebodySurvivesWhenMergesApart` | merges apart | `MergeInv` below |
| | `NoWorkOnAClosedLeadWhenApart`, `OneTaskPerOwnerWhenApart`, `ReopensWhereItWasWhenApart` | leads apart | `ApartInv` below |
| `RfqChain_proofs` | `RfqTypeCorrect` | - | with `HoldsBegan`: no hold that is stored or was seen begins in the future, so what reactivation adds is never negative |
| | `OneLiveStepWhenApart`, `HoldsCostNobodyWhenApart` | one request at the RFQ at a time | `ApartInv` below |

"Apart" names the specifications with a promise about overlap; each proofs module also
has `OneWorkerIsApart`: for one worker they are `Spec`.  For `Handover` TLC shows that
no promise can be dropped: without rows apart `CancelledStays` fails, without deals
apart `OneHandoverPerDeal`, without references apart or customers that stay
`OnePoOneHandover`.

Beyond those, the proofs assume only the named assumptions of the constants,
which TLC evaluates on every instance.

- *Outboxes.*  `OneDeliverer` is not inductive: that two passes hold no row in common
  follows from each row they hold being `sending`, claimed in their own name,
  and claimed no longer ago than the pass has run (`PassInv`, `ClaimFits`).  The
  age is needed for `Unstick`: it takes a row back after `STUCK`, and RUN <= STUCK is
  exactly what keeps it from taking one of a live pass.  The claim is by status
  in the UPDATE, which is what makes it exclusive - not the lease: these theorems do
  not assume RUN <= LEASE.  `PostInv` says that a reply belongs to an event in hand
  and that "ok" means the TMS has it; `AttemptsLeft` that an open row has an attempt
  left.  For emails `ChargeLeft` plays that part.
- *Handover.*  `PoBeforeProject` needs what a request remembers: `Remembered(c)` says that
  the row the request loaded still exists and still has the reference it saw,
  which holds because no step takes a reference away; `Making(c)` that a request
  which creates a row is the only one that knows of it.
- *Quotes, any number of workers.*  `SignedInv` adds (`Signed`) that an approver a request saw
  is still there, that a request to send saw one and that a request to approve
  has one; no step removes a signature.
- *Ceilings.*  The rows of the last minute cannot be bounded alone: `RateInv` adds, for
  the pass that is inside, that what it may still take (before it selects) or still
  carries (after) fits into what is left of the minute.  Only `MarkSent` adds to the
  minute, and a second pass inside would count the same room again, hence RUN <= LEASE.
  A count that fails lets the pass take RATE more than was left, so the bound is RATE,
  once more for each of those: RATE * (1 + `missed`).  A daily cap is looked at
  once a message and in rows: `DayInv` says that what is recorded for the day and the
  message on the wire are within the cap, the rest of a message of G rows and
  G * `missed` together, so a day exceeds its cap by less than one message where no count
  failed.  The business cap needs (`Batched`) that the rows of a message are business mail
  or are not: it is asked for the first row alone.  The counting is by the library's facts
  on finite sets.
- *Quotes apart.*  `Chains` says that versions are grouped under their
  first (`Rooted`), that a version still in play has the highest number of its
  quotation (`Newest`), and with it `OneVersionCounts` and `DistinctRevisions`;
  `Holds(c)` says that the status the request tested is still the stored one, which is
  what an overlap destroys.
- *Authority.*  `LinesInv`: an edit or an approval has in memory what is stored, and whoever
  approves may approve the lines as they are; hence the rule holds of the lines, whatever
  cost sheets and taxes do.  `PricedInv` adds that the price asked is what the lines say
  (`TotalIsLines`), hence it holds of the price.  That needs four promises, and none can
  be dropped: TLC finds `ApprovedWithinAuthority` violated by a cost sheet (section 7), by
  a tax, and by an edit or a `price-line` in the middle of an approval (section 8).  They are
  what these four actions need, not a claim about parts the model leaves out.
- *Leads apart.*  `Fresh` says that what a request loaded is still stored, but for tasks
  people ticked off.  `HistInv` ties the history to what happened: a lead in play
  is at the stage it was last held at, and one whose closing was told has that
  stage as its `mark`.  `TaskInv` adds to the task properties that `swept` leads are
  over and have no task; `MergeInv`, which asks only that merges keep apart, that
  the pair a merge is about is unmerged.
  Twenty-odd actions are reduced to a few shapes (`Writes`, `Quiet`, `Reads`) by the
  `*Shape` lemmas, and the invariant is proved once a shape.
- *Chains, one request at a time.*  `SeenIsCurrent`, `OneRowPerStep` (no step is opened twice),
  `InOrder` (nothing beyond an open step
  has been opened), `NoStall` (a chain without an open step is over, or was ticked off), and `ClocksOK`, which
  says for every row what start, paused time and hold have to do with `worked`.  That a next
  step exists unless the last is closed needs the least element of a set of
  numbers, from the library's well-founded order.

**Model-checked only**: all liveness (`JobKeepsRunning`, `EveryEventSettles`,
`EveryMailSettles`, `WonIsFiled`, `WonIsOwed`), since fairness and ENABLED are
out of the prover's reach; `WinsAreInHandAlways` is the part of the last two that is not
liveness.  Every invariant and every action property of the passing runs is a theorem.

## 6. Assumptions about the environment

SQLite serialises writers and a commit is atomic.  Processes share one clock
(one host).  The TMS deduplicates by event id, as its contract in the webhook
docstring asks.  A pass ends, by itself or killed, within RUN; a web worker
makes one request at a time.  The theorems about the outboxes ask RUN <= STUCK
(900 s for the webhook queue, 25 posts of 15 s being 375 s).  Those about back-off and
ceilings ask RUN <= LEASE too, which a slow pass can break (section 8); those named
"Apart" ask that requests keep off each other's rows, which the code leaves to chance.

## 7. A disagreement that a run shows

- **`quote_authority`** - `margin_policy.check()` compares the stored subtotal, which is
  that of the lines, with the limit (`:161`); `cost_sheet.save()`
  sets `total_amount`, the price that is asked, and touches neither line nor subtotal.  Draft
  at 1, submit, the cost sheet asks 3 (beyond the head's limit), the head
  approves.  `cost_sheet.py:17` says that the rule is "enforced at
  approval, not only drawn on the screen".

## 8. Disagreements the models reach outside the listed runs

Each was seen as a counterexample of TLC with the constants named, unless it says otherwise.

- **Messages per minute** (`EmailOutbox`, `MessagesPerMinute`; ticks of 30 s, a lease of
  10).  `_mark_sent()` (`outbox.py:441`) stamps a message with the time the *pass* read when
  it started, and `sent_in_last_minute()` counts by that stamp.  A pass that starts at 0
  and sends at 60 s leaves a stamp of 0; the next pass starts right after, finds the
  minute empty and sends at once: two messages within a minute under a ceiling of one.
  `outbox.py:50` says "Messages per minute, across all workers".
- **A ceiling that cannot be counted** (`EmailOutbox`, FAULTS = 1, `StampedRate` with RATE
  alone).  One mail goes out; the next pass's count fails, is taken for 0
  (`outbox.py:357`), and a second one goes within the minute.  The same for a day
  (`outbox.py:305`).  `outbox.py:57-61` says of the cap that the queue "waits".  The
  properties of the runs and the theorems allow exactly that much.
- **A pass longer than its lease** (`JobLease`, RUN > LEASE).  25 posts of up to 15 s
  are 375 s against a lease of 300 s, and nobody calls `renew()`.  The lease lapses,
  a second worker takes it and two are inside; `leases.py:2` promises "One
  runner at a time".  The queues survive it (`webhook_overrun`, `email_overrun`).
- **No webhook address** (`WebhookOutbox`, StartsConfigured = FALSE).  Queue an
  event, run a pass: `NoUrl` marks it `dead` with its attempts unspent.
  `webhook_worker.py:62` says of such events "They are not lost; they will go once it is
  configured"; only a person's retry brings them back.
- **The customer's name** (`Handover`, Linked = {}, one clerk).  Capture reference p for a
  handover of customer a1 and for one of a2, then PATCH the `account_name` of the second to
  a1: two live handovers of a1 hold p, and `routes.py:223` checked nothing.
- **Two accounts merged** (`Handover`, Linked = Row, one clerk).  Capture reference p for a
  handover of account a1 and for one of a2, then merge a2 into a1
  (`account_duplicates.py:349`): two live handovers of a1 hold p.  `po.py:16-22` and
  `data_quality/service.py:296` ("The rule is enforced on entry, so anything here predates it
  or was written straight to the database") say otherwise.  `OnePoOneHandover` says
  that these two doors are the only ones.
- **A quotation by hand**, read from the code alone.  `api_create()` looks for another
  handover of the opportunity only (`handover/routes.py:162`); posted with a quotation and
  no opportunity it is inserted beside the handover of that quotation, or twice.
- **Two workers, one reference** (`Handover`, two clerks).  Both pass the duplicate check
  (`po.py:102`), both commit.
- **Two workers, a cancellation** (`Handover`, two clerks).  A PATCH or a capture loads the row,
  a second worker cancels it, the first commits a new status over the cancellation.
- **Two workers, one deal** (`Handover`, two clerks).  The win and a
  manual creation both find no handover (`quote/routes.py:1116`), both insert.
  `routes.py:1076` says that re-firing the hook is safe; it is, in sequence.
- **Two workers, two versions** (`QuoteLifecycle`, two clerks).  A submit loads a draft; a
  revision commits (the draft superseded, a new draft); the submit commits
  `awaiting`: two live versions.  With a win in place of the revision, a won
  quote returns to `awaiting`.
- **Tax** (`QuoteLifecycle`, one clerk, no cost sheet).  Lines of 1 within the head's
  limit, and a PATCH with a tax that makes the total 2, beyond it: the head approves, since the
  rule reads the subtotal.  Whether a limit on the value of a quote means it with tax
  is for the office to say; `cost_sheet.py:17` does not.
- **Two workers, one price** (`QuoteLifecycle`, two clerks, neither cost sheet nor tax).  The
  head starts to approve lines of p1; an edit or a `price-line` commits p2, beyond the head's
  limit; the approval commits.  The edit is refused by no status in which an approval
  can be, and the approval reads no price again.
- **A win cut short** (`QuoteLifecycle`, FAULTS = 1).  The status is committed at
  `routes.py:1011`; the handover and the event follow in later transactions
  whose errors are swallowed.  A failure there leaves a won deal with no handover, or
  no event, and nothing looks for it.  `integration.py` says that the
  event is "written to webhook_outbox inside the caller's transaction".
- **Two workers, one lead** (`LeadLifecycle`, two clerks).  Two hooks that reach one
  state both find no task and both raise it (`task_engine.py:177`), so that one owner has it
  twice.  A hook that looked
  before a close-lost closed the tasks raises them again after it.  Two merges, A into B
  and B into A, both pass `blockers()`: both leads are merged away.  A form saved while
  a mail is about to reopen the lead decides where it goes.
- **Where a lead goes back to** (`LeadLifecycle`, `ReopensWhereItWas` without `told`).  After an
  unrecorded close (close-lost, bulk change, PO), the newest row of the history
  is the last recorded move: read as "from before to", it gives the stage one too far back.
  `mail_ingest.py:253` says "Back where it was, not to a nominated stage".
- **A task of two owners** (`LeadLifecycle`, one open task by definition and lead).  A lead
  given to somebody else between two entries into a stage has the task of that stage
  open twice, for its old owner and for its new one: the engine looks for an open task of
  the same owner (`task_engine.py:172-176`), as its docstring says (`:29-32`), and a
  reassignment closes none.  When the stage's task is completed both are.
- **Tasks of closed leads** (`LeadLifecycle`, `NoWorkOnAClosedLead` without `swept`).  A lead
  closed by the strip, a bulk change, the workbench, a PO, the capability check, the
  assistant, a merge, a block or a purge keeps its open tasks.  `task_autoclose.py:24-29`
  says that close and tasks "land together or not at all"; on the screens that do
  close them it is a second transaction, which a crash loses.  The bin looks for tasks of
  a `'lead'` (`junk_delete.py:615`), and those of leads say `'Lead'`: it closes none.
- **Two workers, one chain** (`RfqChain`, two clerks).  Two registrations that overlap both
  close step 2 and both open the next: nothing keeps `open_step()` from doing it twice,
  and `OneLiveStep` and `HoldsCostNobody` fail.  A close that overlaps a hold opens a step that is not
  held on an RFQ that is.
- **The Done button** (`RfqChain`, `OneLiveStep` without `ticked`).  It closes any step,
  held or not, with no event and no result, and opens no next one: the chain has no open
  step and no way on.  `rfq_chain.py:98-100` says "Everything else waits for its event",
  and `tests/test_rfq_chain.py:426` is called
  `test_there_is_no_button_that_closes_an_event_step`.
- **Leads, read from the code alone**: a mail finds archived, binned and merged leads and
  reopens them (`lead_intake_db.py:43-134`), while `lead_thread.py:117` says that a
  reply "must not resurrect a lead somebody archived"; `junk_delete.py:694` says "exactly as it was",
  but a lead binned at an earlier stage comes back at New Opportunity; `app.py:2811` says that the record
  of a blocked client "stays closed", but advance, decision, the strip, bulk changes, the
  assistant and mails reopen it; bulk changes, the assistant and a PO pass the value
  gate by; a lead that is merged into a closed one leaves its history
  with it.
- **Chains, read from the code alone**: an approval or a quotation in time to be early, or
  late, carries no reason, so `close_step()` refuses it and the step stays
  open for good with the quotation out (`quote/routes.py:739`); a PO is refused
  while step 11 is not open (`journey/routes.py:310-321`), which blocks a win on it;
  `api_register()` may change priority and optional steps in mid-chain by anyone
  and moves no due date, while `set_priority()` asks for a head and does.
- **Quotes, read from the code alone**: `cost_sheet.save()` has no status guard
  (`routes.py:877-894`), nor has `price-line` (`ff/routes.py:609-629`), so they change the
  price of a won or superseded quote that `routes.py:583` calls immutable; closing a restricted client's quotes also turns
  superseded ones into lost ones; `ff_handover.mark_won` wins a
  quote with neither handover nor event.

## 9. What is not modelled, and why

`PROJECT.json` lists every component with its status.  In short:

- next in the plan (section 2): bulk undo, escalation;
- of modelled components: what section 3 lists as left out;
- forms and screens over the same records (`app/leads`, accounts, workbench,
  review), whose state changes that matter enter the modelled modules: wins,
  handovers, queued events and mails;
- parsing and heuristics (email ingest, imports, name matching, copilot), where
  what could be wrong is text, not state;
- queries and rendering (reports, digests, packs, help);
- SMTP, HTTP and the TMS itself: their answers are inputs of the queues;
- SQLite's locks: a statement that fails is `Raise`;
- migrations and backfills, run by hand with the service stopped.
