---------------------------- MODULE WebhookOutbox ----------------------------
(***************************************************************************)
(* app/services/webhooks.py and scripts/webhook_worker.py: the queue of    *)
(* events owed to the TMS and the passes that deliver it.  A pass is one   *)
(* process: it takes the lease (JobLease), returns abandoned rows to the   *)
(* queue, selects what is due, claims it with a conditional UPDATE, reads  *)
(* back what it got and posts the events one by one, committing after each.*)
(* Every database statement is a step of its own, so passes interleave.    *)
(***************************************************************************)
EXTENDS JobLease, FiniteSets

CONSTANTS
    Event,       \* webhook_outbox rows, one per event_id
    NoEvent,
    MAX,         \* max_attempts
    Backoff,     \* BACKOFF_MINUTES in ticks, by attempt number
    RetryAfter,  \* waits a 429 may ask for, in ticks
    STUCK,       \* STUCK_MINUTES in ticks
    LIMIT,       \* CLAIM_LIMIT
    FAULTS,      \* bound: crashes and database errors considered
    REVIVALS,    \* bound: times a person puts a dead event back
    StartsConfigured  \* whether TMS_WEBHOOK_URL is set from the start

ASSUME OutboxAssumption ==
    /\ NoEvent \notin Event
    /\ MAX \in Nat \ {0}
    /\ Backoff \in [1..MAX -> Nat]
    /\ RetryAfter \subseteq Nat \ {0}
    /\ STUCK \in Nat
    /\ LIMIT \in Nat \ {0}
    /\ FAULTS \in Nat
    /\ REVIVALS \in Nat
    /\ StartsConfigured \in BOOLEAN

VARIABLES
    status, attempts,  \* columns of the row
    wait,       \* next_attempt_at - now
    owner,      \* claimed_by
    claimed,    \* now - claimed_at, while the row is being sent
    addressed,  \* whether `destination` was filled in when it was queued
    configured, \* TMS_WEBHOOK_URL is set
    step,       \* where each pass is inside _work()
    mine,       \* its ids, then the rows it read back
    current,    \* the event it has on the wire
    seen,       \* attempts as loaded before the post
    reply,      \* how the post went
    tms,        \* events the TMS has processed (it deduplicates by event_id)
    rejected,   \* history: events the TMS answered with a final 4xx
    faults, revivals

rowVars == <<status, attempts, wait, owner, claimed, addressed>>
passVars == <<step, mine, current, seen, reply>>
worldVars == <<configured, tms, rejected, faults, revivals>>
vars == <<leaseVars, rowVars, passVars, worldVars>>

Status == {"absent", "queued", "sending", "failed", "delivered", "dead"}
Step == {"idle", "unstick", "select", "claim", "fetch", "deliver", "posted"}
Reply == {"none", "ok", "transient", "lost", "refused"}

Waiting(e) == status[e] \in {"queued", "failed"}
Open(e) == status[e] \in {"queued", "failed", "sending"}

-----------------------------------------------------------------------------
Init ==
    /\ LeaseInit
    /\ status = [e \in Event |-> "absent"]
    /\ attempts = [e \in Event |-> 0]
    /\ wait = [e \in Event |-> -RUN]
    /\ owner = [e \in Event |-> NoWorker]
    /\ claimed = [e \in Event |-> 0]
    /\ addressed = [e \in Event |-> FALSE]
    /\ configured = StartsConfigured
    /\ step = [w \in Worker |-> "idle"]
    /\ mine = [w \in Worker |-> {}]
    /\ current = [w \in Worker |-> NoEvent]
    /\ seen = [w \in Worker |-> 0]
    /\ reply = [w \in Worker |-> "none"]
    /\ tms = {}
    /\ rejected = {}
    /\ faults = 0
    /\ revivals = 0

\* enqueue(): the unique index on event_id makes a second call a no-op.
Enqueue(e) ==
    /\ status[e] = "absent"
    /\ status' = [status EXCEPT ![e] = "queued"]
    /\ wait' = [wait EXCEPT ![e] = 0]
    /\ addressed' = [addressed EXCEPT ![e] = configured]
    /\ UNCHANGED <<leaseVars, attempts, owner, claimed, passVars, worldVars>>

\* retry(): WHERE status = 'dead'.
Revive(e) ==
    /\ status[e] = "dead"
    /\ revivals < REVIVALS
    /\ revivals' = revivals + 1
    /\ status' = [status EXCEPT ![e] = "queued"]
    /\ attempts' = [attempts EXCEPT ![e] = 0]
    /\ wait' = [wait EXCEPT ![e] = 0]
    /\ rejected' = rejected \ {e}
    /\ UNCHANGED <<leaseVars, owner, claimed, addressed, passVars, configured,
                   tms, faults>>

\* Somebody sets TMS_WEBHOOK_URL.
Configure ==
    /\ ~configured
    /\ configured' = TRUE
    /\ UNCHANGED <<leaseVars, rowVars, passVars, tms, rejected, faults,
                   revivals>>

-----------------------------------------------------------------------------
(* A pass *)

At(w, s) == phase[w] = "in" /\ step[w] = s

Go(w, s) == step' = [step EXCEPT ![w] = s]

\* run_once() reads `now` and asks for the lease.
Start(w) == Ask(w) /\ UNCHANGED <<rowVars, passVars, worldVars>>

Begin(w) ==
    /\ Take(w)
    /\ Go(w, "unstick")
    /\ UNCHANGED <<rowVars, mine, current, seen, reply, worldVars>>

Skip(w) == Refuse(w) /\ UNCHANGED <<rowVars, passVars, worldVars>>

\* Without _unstick().
StuckNever(w, e) == FALSE

\* A row left in `sending` since before now - STUCK_MINUTES, by the clock the
\* pass read when it started.
Stuck(w, e) == status[e] = "sending" /\ claimed[e] - age[w] > STUCK

\* _unstick()
Unstick(w) ==
    /\ At(w, "unstick")
    /\ Go(w, "select")
    /\ status' = [e \in Event |-> IF Stuck(w, e) THEN "queued" ELSE status[e]]
    /\ owner' = [e \in Event |-> IF Stuck(w, e) THEN NoWorker ELSE owner[e]]
    /\ claimed' = [e \in Event |-> IF Stuck(w, e) THEN 0 ELSE claimed[e]]
    /\ UNCHANGED <<leaseVars, attempts, wait, addressed, mine, current, seen,
                   reply, worldVars>>

\* Without the test on next_attempt_at.
DueAtAnyTime(w) == {e \in Event : Waiting(e)}

Due(w) == {e \in Event : Waiting(e) /\ wait[e] <= -age[w]}

\* The earliest rows first, at most LIMIT of them.
Batches(w) ==
    {S \in SUBSET Due(w) :
        /\ Cardinality(S) <= LIMIT
        /\ S # Due(w) => Cardinality(S) = LIMIT
        /\ \A e \in S, f \in Due(w) \ S : wait[e] <= wait[f]}

\* claim(): the SELECT.
Select(w) ==
    /\ At(w, "select")
    /\ \E S \in Batches(w) : mine' = [mine EXCEPT ![w] = S]
    /\ Go(w, IF Due(w) = {} THEN "deliver" ELSE "claim")
    /\ UNCHANGED <<leaseVars, rowVars, current, seen, reply, worldVars>>

\* An UPDATE by id alone.
ClaimableById(w) == mine[w]

\* The rows its conditional UPDATE matches.
Claimable(w) == {e \in mine[w] : Waiting(e)}

\* claim(): the UPDATE, stamped with the pass's own now.
Claim(w) ==
    /\ At(w, "claim")
    /\ Go(w, "fetch")
    /\ status' = [e \in Event |->
                     IF e \in Claimable(w) THEN "sending" ELSE status[e]]
    /\ owner' = [e \in Event |-> IF e \in Claimable(w) THEN w ELSE owner[e]]
    /\ claimed' = [e \in Event |->
                      IF e \in Claimable(w) THEN age[w] ELSE claimed[e]]
    /\ UNCHANGED <<leaseVars, attempts, wait, addressed, mine, current, seen,
                   reply, worldVars>>

\* claim(): the second SELECT returns the rows this pass owns.
Fetch(w) ==
    /\ At(w, "fetch")
    /\ Go(w, "deliver")
    /\ mine' = [mine EXCEPT ![w] =
                   {e \in @ : status[e] = "sending" /\ owner[e] = w}]
    /\ UNCHANGED <<leaseVars, rowVars, current, seen, reply, worldVars>>

\* deliver(): the row is loaded and posted; its status is not looked at.  A
\* lost answer may or may not mean that the TMS took the event in.
Post(w, e, r) ==
    /\ At(w, "deliver")
    /\ e \in mine[w]
    /\ addressed[e] \/ configured
    /\ Go(w, "posted")
    /\ current' = [current EXCEPT ![w] = e]
    /\ seen' = [seen EXCEPT ![w] = attempts[e]]
    /\ reply' = [reply EXCEPT ![w] = r]
    /\ \/ r = "ok" /\ tms' = tms \cup {e} /\ UNCHANGED rejected
       \/ r = "lost" /\ tms' \in {tms, tms \cup {e}} /\ UNCHANGED rejected
       \/ r = "refused" /\ rejected' = rejected \cup {e} /\ UNCHANGED tms
       \/ r = "transient" /\ UNCHANGED <<tms, rejected>>
    /\ UNCHANGED <<leaseVars, rowVars, mine, configured, faults, revivals>>

\* What deliver(), _retry() and _dead() write, in one commit.
Write(e, s, n, delay) ==
    /\ status' = [status EXCEPT ![e] = s]
    /\ attempts' = [attempts EXCEPT ![e] = n]
    /\ owner' = [owner EXCEPT ![e] = NoWorker]
    /\ claimed' = [claimed EXCEPT ![e] = 0]
    /\ wait' = [wait EXCEPT ![e] = delay]
    /\ UNCHANGED addressed

\* deliver() with neither a destination nor TMS_WEBHOOK_URL: dead at once.
NoUrl(w, e) ==
    /\ At(w, "deliver")
    /\ e \in mine[w]
    /\ ~addressed[e] /\ ~configured
    /\ Write(e, "dead", attempts[e] + 1, wait[e])
    /\ mine' = [mine EXCEPT ![w] = @ \ {e}]
    /\ UNCHANGED <<leaseVars, step, current, seen, reply, worldVars>>

\* The end of one delivery.
EndDelivery(w) ==
    /\ Go(w, "deliver")
    /\ mine' = [mine EXCEPT ![w] = @ \ {current[w]}]
    /\ current' = [current EXCEPT ![w] = NoEvent]
    /\ seen' = [seen EXCEPT ![w] = 0]
    /\ reply' = [reply EXCEPT ![w] = "none"]
    /\ UNCHANGED <<leaseVars, worldVars>>

\* Without the test on the status code.
DeliveredOnAnyAnswer(w) ==
    /\ At(w, "posted")
    /\ reply[w] \in {"ok", "transient"}
    /\ Write(current[w], "delivered", seen[w] + 1, wait[current[w]])
    /\ EndDelivery(w)

Delivered(w) ==
    /\ At(w, "posted")
    /\ reply[w] = "ok"
    /\ Write(current[w], "delivered", seen[w] + 1, wait[current[w]])
    /\ EndDelivery(w)

\* Treats a 5xx like a 4xx.
RefusedOrBroken(w) ==
    /\ At(w, "posted")
    /\ reply[w] \in {"refused", "transient"}
    /\ Write(current[w], "dead", seen[w] + 1, wait[current[w]])
    /\ EndDelivery(w)

Refused(w) ==
    /\ At(w, "posted")
    /\ reply[w] = "refused"
    /\ Write(current[w], "dead", seen[w] + 1, wait[current[w]])
    /\ EndDelivery(w)

\* `>` for `>=` in the ceiling test.
RetryOnceTooOften(w) ==
    /\ At(w, "posted")
    /\ reply[w] \in {"transient", "lost"}
    /\ seen[w] < MAX
    /\ Write(current[w], "failed", seen[w] + 1, Backoff[seen[w] + 1] - age[w])
    /\ EndDelivery(w)

\* _retry(): attempts left, so wait the back-off (or what a 429 asked for),
\* counted from the pass's now.
RetryLater(w) ==
    /\ At(w, "posted")
    /\ reply[w] \in {"transient", "lost"}
    /\ seen[w] + 1 < MAX
    /\ \E delay \in {Backoff[seen[w] + 1]} \cup
                    (IF reply[w] = "transient" THEN RetryAfter ELSE {}) :
          Write(current[w], "failed", seen[w] + 1, delay - age[w])
    /\ EndDelivery(w)

\* _retry(): the attempt ceiling.
Exhausted(w) ==
    /\ At(w, "posted")
    /\ reply[w] \in {"transient", "lost"}
    /\ seen[w] + 1 >= MAX
    /\ Write(current[w], "dead", seen[w] + 1, wait[current[w]])
    /\ EndDelivery(w)

\* What the pass had in memory is gone.
Forget(w) ==
    /\ Go(w, "idle")
    /\ mine' = [mine EXCEPT ![w] = {}]
    /\ current' = [current EXCEPT ![w] = NoEvent]
    /\ seen' = [seen EXCEPT ![w] = 0]
    /\ reply' = [reply EXCEPT ![w] = "none"]

\* The loop ran out of rows; hold() releases the lease.
Finish(w) ==
    /\ At(w, "deliver")
    /\ mine[w] = {}
    /\ Release(w)
    /\ Forget(w)
    /\ UNCHANGED <<rowVars, worldVars>>

\* A database error leaves _work(): nothing of the current step is written,
\* hold() still releases, and the rows it claimed stay `sending`.
Raise(w) ==
    /\ faults < FAULTS
    /\ faults' = faults + 1
    /\ Release(w)
    /\ Forget(w)
    /\ UNCHANGED <<rowVars, configured, tms, rejected, revivals>>

\* The process is killed.
Crash(w) ==
    /\ faults < FAULTS
    /\ faults' = faults + 1
    /\ Abandon(w)
    /\ Forget(w)
    /\ UNCHANGED <<rowVars, configured, tms, rejected, revivals>>

Tick ==
    /\ LeaseTick
    /\ wait' = [e \in Event |-> Atleast(wait[e] - 1, -RUN)]
    /\ claimed' = [e \in Event |->
                      IF status[e] = "sending" /\ claimed[e] <= STUCK + RUN
                      THEN claimed[e] + 1 ELSE claimed[e]]
    /\ UNCHANGED <<status, attempts, owner, addressed, passVars, worldVars>>

\* What a live pass does next, if nothing goes wrong.
Proceed(w) ==
    \/ Start(w) \/ Begin(w) \/ Skip(w)
    \/ Unstick(w) \/ Select(w) \/ Claim(w) \/ Fetch(w)
    \/ \E e \in Event : \/ \E r \in Reply \ {"none"} : Post(w, e, r)
                        \/ NoUrl(w, e)
    \/ Delivered(w) \/ Refused(w) \/ RetryLater(w) \/ Exhausted(w)
    \/ Finish(w)

Next ==
    \/ \E e \in Event : Enqueue(e) \/ Revive(e)
    \/ Configure
    \/ \E w \in Worker : Proceed(w) \/ Raise(w) \/ Crash(w)
    \/ Tick

Spec == Init /\ [][Next]_vars

\* Timers start passes and a pass that is alive goes on; nothing is assumed of
\* callers, of people or of crashes, which FAULTS bounds.
FairSpec ==
    /\ Spec
    /\ WF_vars(Tick)
    /\ \A w \in Worker : WF_vars(Proceed(w))

-----------------------------------------------------------------------------
TypeOK ==
    /\ LeaseTypeOK
    /\ status \in [Event -> Status]
    /\ attempts \in [Event -> 0..MAX]
    /\ wait \in [Event -> Int]
    /\ owner \in [Event -> Worker \cup {NoWorker}]
    /\ claimed \in [Event -> 0..(STUCK + RUN + 1)]
    /\ addressed \in [Event -> BOOLEAN]
    /\ configured \in BOOLEAN
    /\ step \in [Worker -> Step]
    /\ mine \in [Worker -> SUBSET Event]
    /\ current \in [Worker -> Event \cup {NoEvent}]
    /\ seen \in [Worker -> 0..MAX]
    /\ reply \in [Worker -> Reply]
    /\ tms \subseteq Event
    /\ rejected \subseteq Event
    /\ faults \in 0..FAULTS
    /\ revivals \in 0..REVIVALS

Delivering(w) == step[w] \in {"deliver", "posted"}

\* "hold means two overlapping runs cannot both claim the same event"
\* (webhook_worker.py).  The lease alone does not give it - a pass may outlast
\* it - but the conditional UPDATE and the read-back do, as long as no pass is
\* still alive when its rows count as abandoned (RUN <= STUCK).
OneDeliverer ==
    \A v, w \in Worker : v # w /\ Delivering(v) /\ Delivering(w)
                            => mine[v] \cap mine[w] = {}

\* A row is marked delivered only when the TMS has the event, whatever was
\* retried, abandoned and taken over in between.
DeliveredMeansTaken == \A e \in Event : status[e] = "delivered" => e \in tms

\* What keeps two passes off one row (the inductive invariant): a pass's rows are
\* in `sending` under its name with the pass's own age as the age of the claim,
\* so no other pass finds them waiting, and none finds them stuck.
PassFits(w) ==
    /\ phase[w] = "in" <=> step[w] # "idle"
    /\ step[w] \in {"idle", "unstick", "select"} => mine[w] = {}
    /\ step[w] = "claim" =>
          \A e \in mine[w] : status[e] = "sending" => owner[e] # w
    /\ step[w] = "fetch" =>
          \A e \in mine[w] : status[e] = "sending" /\ owner[e] = w
                               => claimed[e] = age[w]
    /\ Delivering(w) =>
          \A e \in mine[w] : /\ status[e] = "sending" /\ owner[e] = w
                             /\ claimed[e] = age[w]

PassInv == \A w \in Worker : PassFits(w)

\* What a pass on the wire knows of the event it posted.
PostInv ==
    \A w \in Worker : step[w] = "posted" =>
        /\ current[w] \in mine[w]
        /\ reply[w] # "none"
        /\ seen[w] < MAX
        /\ reply[w] = "ok" => current[w] \in tms
        /\ reply[w] = "refused" => current[w] \in rejected

\* An event not yet settled has an attempt left.
AttemptsLeft ==
    \A e \in Event : status[e] \notin {"delivered", "dead"} => attempts[e] < MAX

\* models/integration.py: `dead` is a 4xx that will not become a 2xx, or the
\* attempt ceiling.
DeadForAReason ==
    \A e \in Event : status[e] = "dead" => e \in rejected \/ attempts[e] = MAX

\* A failed event is not sent again before its back-off is over, although the
\* UPDATE that claims it does not look at next_attempt_at: it relies on nobody
\* having failed the row since the SELECT.
BackoffRespected ==
    [][\A e \in Event : status[e] = "failed" /\ status'[e] = "sending"
                           => wait[e] <= 0]_vars

\* Every event that was queued is delivered or put before a person, through
\* crashes, abandoned claims and leases nobody released.
EveryEventSettles ==
    \A e \in Event : Open(e) ~> status[e] \in {"delivered", "dead"}

\* The queue keeps the promise of OwedEvents, whose debt is read off the rows.
DebtOf(s) ==
    CASE s = "absent" -> "none"
      [] s \in {"queued", "failed", "sending"} -> "owed"
      [] s = "delivered" -> "settled"
      [] s = "dead" -> "givenup"

Debts == [e \in Event |-> DebtOf(status[e])]

Owed == INSTANCE OwedEvents WITH debt <- Debts

OwedPromise == Owed!OwedSpec
=============================================================================
