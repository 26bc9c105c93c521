----------------------------- MODULE EmailOutbox -----------------------------
(***************************************************************************)
(* app/services/outbox.py and scripts/outbox_worker.py: the queue of       *)
(* emails and the passes that send it.  A pass asks the kill switch, takes *)
(* the lease (JobLease), frees abandoned rows, reads how much of the       *)
(* minute's ceiling is left, selects, claims, reads back, and sends group  *)
(* by group.  Rows with one batch key and one recipient are one message.   *)
(***************************************************************************)
EXTENDS JobLease, FiniteSets

CONSTANTS
    Mail,        \* email_outbox rows, one per dedupe_key
    Batch,       \* the (to_addr, batch_key) of each row; its own if it has none
    MAX,         \* max_attempts
    Backoff,     \* BACKOFF_MINUTES in ticks, by attempt number
    STUCK,       \* STUCK_MINUTES in ticks
    CLAIM,       \* CLAIM_LIMIT
    RATE,        \* messages per minute; 0 is no limit
    MINUTE,      \* a minute, in ticks
    CAP,         \* recipients per day; 0 is no limit
    Business,    \* the rows is_bd() counts as business development
    BDCAP,       \* recipients of those per day; 0 is no limit
    NOTIFY,      \* NOTIFY_ENABLED
    FAULTS,      \* bound: crashes, database errors and lost answers considered
    REVIVALS     \* bound: times a person puts a failed mail back

ASSUME MailAssumption ==
    /\ IsFiniteSet(Mail)
    /\ DOMAIN Batch = Mail
    /\ MAX \in Nat \ {0}
    /\ Backoff \in [1..MAX -> Nat \ {0}]
    /\ STUCK \in Nat
    /\ RATE \in Nat
    /\ MINUTE \in Nat
    /\ CAP \in Nat
    /\ Business \subseteq Mail
    /\ BDCAP \in Nat
    /\ NOTIFY \in BOOLEAN
    /\ FAULTS \in Nat
    /\ REVIVALS \in Nat
    /\ CLAIM \in Nat \ {0}

VARIABLES
    status, attempts,  \* columns of the row
    wait,      \* not_before - now
    tomorrow,  \* rows whose not_before is the coming midnight
    owner,     \* claimed_by
    claimed,   \* now - claimed_at, while the row is being sent
    stamp,     \* now - sent_at, once it is sent
    days,      \* midnights since sent_at
    stopped,   \* EMAIL_KILL_SWITCH, as the ten-second cache of flags.py has it
    step,      \* where each pass is inside _work()
    take,      \* how many rows it may claim
    mine,      \* its ids, then the rows it read back
    current,   \* the group it has handed to the transport
    reply,     \* how that went
    eve,       \* midnights since the pass read its now
    asked,     \* history: times the mail server was really asked, since queued
    copies,    \* history: copies the mail server accepted
    excused,   \* history: copies accepted that nobody could record
    gone,      \* history: time since the last copy left
    missed,    \* history: times a ceiling was passed because its count failed
    faults, revivals

rowVars == <<status, attempts, wait, tomorrow, owner, claimed, stamp, days>>
passVars == <<step, take, mine, current, reply, eve>>
historyVars == <<asked, copies, excused, gone, missed>>
boundVars == <<faults, revivals>>
vars == <<leaseVars, rowVars, stopped, passVars, historyVars, boundVars>>

Status == {"absent", "queued", "sending", "sent", "failed", "cancelled"}
Step == {"idle", "unstick", "room", "select", "claim", "fetch", "deliver",
         "posted"}
Reply == {"none", "ok", "held", "transient", "lost", "refused"}

Open(e) == status[e] \in {"queued", "sending"}

\* A minute is over for good this long after the fact.
Horizon == IF RATE = 0 THEN 0 ELSE RUN + MINUTE + 1

AtMost(n, ceiling) == IF n > ceiling THEN ceiling ELSE n

-----------------------------------------------------------------------------
Init ==
    /\ LeaseInit
    /\ status = [e \in Mail |-> "absent"]
    /\ attempts = [e \in Mail |-> 0]
    /\ wait = [e \in Mail |-> -RUN]
    /\ tomorrow = {}
    /\ owner = [e \in Mail |-> NoWorker]
    /\ claimed = [e \in Mail |-> 0]
    /\ stamp = [e \in Mail |-> Horizon]
    /\ days = [e \in Mail |-> 0]
    /\ stopped = FALSE
    /\ step = [w \in Worker |-> "idle"]
    /\ take = [w \in Worker |-> 0]
    /\ mine = [w \in Worker |-> {}]
    /\ current = [w \in Worker |-> {}]
    /\ reply = [w \in Worker |-> "none"]
    /\ eve = [w \in Worker |-> 0]
    /\ asked = [e \in Mail |-> 0]
    /\ copies = [e \in Mail |-> 0]
    /\ excused = [e \in Mail |-> 0]
    /\ gone = [e \in Mail |-> Horizon]
    /\ missed = 0
    /\ faults = 0
    /\ revivals = 0

\* enqueue(): the unique index on dedupe_key refuses a second row.
Enqueue(e) ==
    /\ status[e] = "absent"
    /\ status' = [status EXCEPT ![e] = "queued"]
    /\ wait' = [wait EXCEPT ![e] = 0]
    /\ UNCHANGED <<leaseVars, attempts, tomorrow, owner, claimed, stamp, days,
                   stopped, passVars, historyVars, boundVars>>

\* cancel(): WHERE status IN (queued, failed).
Cancel(e) ==
    /\ status[e] \in {"queued", "failed"}
    /\ status' = [status EXCEPT ![e] = "cancelled"]
    /\ tomorrow' = tomorrow \ {e}
    /\ UNCHANGED <<leaseVars, attempts, wait, owner, claimed, stamp, days,
                   stopped, passVars, historyVars, boundVars>>

\* retry(): WHERE status = 'failed'.
Revive(e) ==
    /\ status[e] = "failed"
    /\ revivals < REVIVALS
    /\ revivals' = revivals + 1
    /\ status' = [status EXCEPT ![e] = "queued"]
    /\ attempts' = [attempts EXCEPT ![e] = 0]
    /\ wait' = [wait EXCEPT ![e] = 0]
    /\ asked' = [asked EXCEPT ![e] = 0]
    /\ UNCHANGED <<leaseVars, tomorrow, owner, claimed, stamp, days, stopped,
                   passVars, copies, excused, gone, missed, faults>>

\* An administrator turns the kill switch on or off.
Switch ==
    /\ stopped' = ~stopped
    /\ UNCHANGED <<leaseVars, rowVars, passVars, historyVars, boundVars>>

-----------------------------------------------------------------------------
(* A pass *)

At(w, s) == phase[w] = "in" /\ step[w] = s

Go(w, s) == step' = [step EXCEPT ![w] = s]

\* n more things go wrong.
Fail(n) == faults + n <= FAULTS /\ faults' = faults + n

\* The pass reads its now.
Asks(w) ==
    /\ Ask(w)
    /\ eve' = [eve EXCEPT ![w] = 0]
    /\ UNCHANGED <<rowVars, stopped, step, take, mine, current, reply,
                   historyVars, revivals>>

\* run_once(): nothing starts while the switch is on...
Start(w) == ~stopped /\ Asks(w) /\ UNCHANGED faults

\* ... unless it cannot be read: _stored() then knows of no switch.
Misread(w) == stopped /\ Asks(w) /\ Fail(1)

Begin(w) ==
    /\ Take(w)
    /\ Go(w, "unstick")
    /\ UNCHANGED <<rowVars, stopped, take, mine, current, reply, eve,
                   historyVars, boundVars>>

Skip(w) ==
    /\ Refuse(w)
    /\ eve' = [eve EXCEPT ![w] = 0]
    /\ UNCHANGED <<rowVars, stopped, step, take, mine, current, reply,
                   historyVars, boundVars>>

\* Without _unstick().
StuckNever(w, e) == FALSE

Stuck(w, e) == status[e] = "sending" /\ claimed[e] - age[w] > STUCK

\* _unstick()
Unstick(w) ==
    /\ At(w, "unstick")
    /\ Go(w, "room")
    /\ status' = [e \in Mail |-> IF Stuck(w, e) THEN "queued" ELSE status[e]]
    /\ owner' = [e \in Mail |-> IF Stuck(w, e) THEN NoWorker ELSE owner[e]]
    /\ claimed' = [e \in Mail |-> IF Stuck(w, e) THEN 0 ELSE claimed[e]]
    /\ UNCHANGED <<leaseVars, attempts, wait, tomorrow, stamp, days, stopped,
                   take, mine, current, reply, eve, historyVars, boundVars>>

\* A minute counted from the wrong end.
SentLatelyBackwards(w) ==
    {e \in Mail : status[e] = "sent" /\ stamp[e] + MINUTE <= age[w]}

\* sent_in_last_minute(): sent_at >= :now - 1 minute, both as the passes
\* stamped them.
SentLately(w) ==
    {e \in Mail : status[e] = "sent" /\ stamp[e] <= age[w] + MINUTE}

\* What is left of the minute; none left ends the pass.
Admit(w, room) ==
    IF RATE # 0 /\ room <= 0
    THEN Go(w, "deliver") /\ UNCHANGED take
    ELSE /\ Go(w, "select")
         /\ take' = [take EXCEPT
                ![w] = IF RATE = 0 THEN CLAIM ELSE AtMost(CLAIM, room)]

\* throttle_room(): a count that fails is taken for 0.
Room(w) ==
    /\ At(w, "room")
    /\ \/ /\ Admit(w, RATE - Cardinality(SentLately(w)))
          /\ UNCHANGED <<missed, faults>>
       \/ /\ RATE # 0 /\ SentLately(w) # {}
          /\ Admit(w, RATE)
          /\ missed' = missed + 1
          /\ Fail(1)
    /\ UNCHANGED <<leaseVars, rowVars, stopped, mine, current, reply, eve,
                   asked, copies, excused, gone, revivals>>

Due(w) ==
    {e \in Mail : /\ status[e] = "queued"
                  /\ e \notin tomorrow
                  /\ wait[e] <= -age[w]}

\* The earliest rows first, at most take[w] of them.
Batches(w) ==
    {S \in SUBSET Due(w) :
        /\ Cardinality(S) <= take[w]
        /\ S # Due(w) => Cardinality(S) = take[w]
        /\ \A e \in S, f \in Due(w) \ S : wait[e] <= wait[f]}

\* claim(): the SELECT.
Select(w) ==
    /\ At(w, "select")
    /\ \E S \in Batches(w) : mine' = [mine EXCEPT ![w] = S]
    /\ Go(w, IF Due(w) = {} THEN "deliver" ELSE "claim")
    /\ UNCHANGED <<leaseVars, rowVars, stopped, take, current, reply, eve,
                   historyVars, boundVars>>

\* An UPDATE by id alone.
ClaimableById(w) == mine[w]

Claimable(w) == {e \in mine[w] : status[e] = "queued"}

\* claim(): the UPDATE, stamped with the pass's own now.
Claim(w) ==
    /\ At(w, "claim")
    /\ Go(w, "fetch")
    /\ status' = [e \in Mail |->
                     IF e \in Claimable(w) THEN "sending" ELSE status[e]]
    /\ owner' = [e \in Mail |-> IF e \in Claimable(w) THEN w ELSE owner[e]]
    /\ claimed' = [e \in Mail |->
                      IF e \in Claimable(w) THEN age[w] ELSE claimed[e]]
    /\ UNCHANGED <<leaseVars, attempts, wait, tomorrow, stamp, days, stopped,
                   take, mine, current, reply, eve, historyVars, boundVars>>

\* claim(): the second SELECT returns the rows this pass owns.
Fetch(w) ==
    /\ At(w, "fetch")
    /\ Go(w, "deliver")
    /\ mine' = [mine EXCEPT ![w] =
                   {e \in @ : status[e] = "sending" /\ owner[e] = w}]
    /\ UNCHANGED <<leaseVars, rowVars, stopped, take, current, reply, eve,
                   historyVars, boundVars>>

\* _group()
Groups(w) == {{f \in mine[w] : Batch[f] = Batch[e]} : e \in mine[w]}

\* `>` for `>=` against midnight, and no midnight at all.
SentTodayStale(w) == {e \in Mail : status[e] = "sent" /\ days[e] < eve[w]}
SentEver(w) == {e \in Mail : status[e] = "sent"}

\* recipients_today(): one per row, since the midnight before the pass's now.
SentToday(w) == {e \in Mail : status[e] = "sent" /\ days[e] <= eve[w]}

\* The daily caps: on everything, and on business development.
Caps == {[of |-> Mail, limit |-> CAP], [of |-> Business, limit |-> BDCAP]}

Full(w, cap) ==
    cap.limit # 0 /\ Cardinality(SentToday(w) \cap cap.of) >= cap.limit

\* may_send(): asked for the first row of a group, whichever that is.
Capped(w, first) == \E cap \in Caps : first \in cap.of /\ Full(w, cap)

\* The rows of a group leave the pass; `column` of each becomes `value`.
Put(column, group, value) ==
    [e \in Mail |-> IF e \in group THEN value ELSE column[e]]

\* Over a daily cap: _requeue() until the midnight after the pass's now.
HoldForCap(w, group) ==
    /\ At(w, "deliver")
    /\ group \in Groups(w)
    /\ \E first \in group : Capped(w, first)
    /\ status' = Put(status, group, "queued")
    /\ owner' = Put(owner, group, NoWorker)
    /\ claimed' = Put(claimed, group, 0)
    /\ wait' = Put(wait, group, 0)
    /\ tomorrow' = IF eve[w] = 0 THEN tomorrow \cup group ELSE tomorrow
    /\ mine' = [mine EXCEPT ![w] = @ \ group]
    /\ UNCHANGED <<leaseVars, attempts, stamp, days, stopped, step, take,
                   current, reply, eve, historyVars, boundVars>>

\* What fails when a group goes out with this reply: the counts of may_send(),
\* which are then taken for 0; the transport's reading of the kill switch; the
\* answer of the server.
Passed(w, first) == IF Capped(w, first) THEN 1 ELSE 0
Unread(r) == IF stopped /\ r # "held" THEN 1 ELSE 0
Unheard(r) == IF r = "lost" THEN 1 ELSE 0

\* send_group() up to the transport's answer.  The transport asks
\* NOTIFY_ENABLED and the kill switch itself.  A lost answer may or may not
\* mean a copy went out.
Send(w, group, r) ==
    /\ At(w, "deliver")
    /\ group \in Groups(w)
    /\ IF NOTIFY THEN r = "held" => stopped ELSE r = "held"
    /\ \E first \in group :
          /\ missed' = missed + Passed(w, first)
          /\ Fail(Passed(w, first) + Unread(r) + Unheard(r))
    /\ Go(w, "posted")
    /\ current' = [current EXCEPT ![w] = group]
    /\ reply' = [reply EXCEPT ![w] = r]
    /\ asked' = [e \in Mail |->
                    IF e \in group /\ r # "held" THEN asked[e] + 1 ELSE asked[e]]
    /\ \/ /\ r \in {"ok", "lost"}
          /\ copies' = [e \in Mail |->
                           IF e \in group THEN copies[e] + 1 ELSE copies[e]]
          /\ excused' = [e \in Mail |-> IF r = "lost" /\ e \in group
                             THEN excused[e] + 1 ELSE excused[e]]
          /\ gone' = Put(gone, group, AtMost(0, Horizon))
       \/ r # "ok" /\ UNCHANGED <<copies, excused, gone>>
    /\ UNCHANGED <<leaseVars, rowVars, stopped, take, mine, eve, revivals>>

\* The end of one group.
EndGroup(w) ==
    /\ Go(w, "deliver")
    /\ mine' = [mine EXCEPT ![w] = @ \ current[w]]
    /\ current' = [current EXCEPT ![w] = {}]
    /\ reply' = [reply EXCEPT ![w] = "none"]
    /\ UNCHANGED <<leaseVars, stopped, take, eve, historyVars, boundVars>>

\* Counts an attempt for every row of the group.
Spent(group) ==
    [e \in Mail |-> IF e \in group THEN attempts[e] + 1 ELSE attempts[e]]

\* _mark_sent(): whatever the row says by now, stamped with the pass's now.
MarkSent(w) ==
    /\ At(w, "posted")
    /\ reply[w] = "ok"
    /\ status' = Put(status, current[w], "sent")
    /\ attempts' = Spent(current[w])
    /\ owner' = Put(owner, current[w], NoWorker)
    /\ claimed' = Put(claimed, current[w], 0)
    /\ stamp' = Put(stamp, current[w], AtMost(age[w], Horizon))
    /\ days' = Put(days, current[w], eve[w])
    /\ EndGroup(w)
    /\ UNCHANGED <<wait, tomorrow>>

\* `>` for `>=` in the ceiling test.
OverLate(w, e) == reply[w] = "refused" \/ attempts[e] + 1 > MAX

Over(w, e) == reply[w] = "refused" \/ attempts[e] + 1 >= MAX

\* _mark_failed(): a row with attempts left goes back to wait, one without -
\* or any row the server refuses for good - waits for a person.
MarkFailed(w) ==
    /\ At(w, "posted")
    /\ reply[w] \in {"transient", "lost", "refused"}
    /\ status' = [e \in Mail |->
                     IF e \notin current[w] THEN status[e]
                     ELSE IF Over(w, e) THEN "failed" ELSE "queued"]
    /\ wait' = [e \in Mail |->
                   IF e \in current[w] /\ ~Over(w, e)
                   THEN Backoff[attempts[e] + 1] - age[w] ELSE wait[e]]
    /\ attempts' = Spent(current[w])
    /\ owner' = Put(owner, current[w], NoWorker)
    /\ claimed' = Put(claimed, current[w], 0)
    /\ EndGroup(w)
    /\ UNCHANGED <<tomorrow, stamp, days>>

\* A held message counted as a refused one.
HeldIsRefused(w) ==
    /\ At(w, "posted")
    /\ reply[w] = "held"
    /\ status' = Put(status, current[w], "queued")
    /\ attempts' = Spent(current[w])
    /\ owner' = Put(owner, current[w], NoWorker)
    /\ claimed' = Put(claimed, current[w], 0)
    /\ wait' = Put(wait, current[w], 1 - age[w])
    /\ EndGroup(w)
    /\ UNCHANGED <<tomorrow, stamp, days>>

\* The transport held the message back: _requeue() for two minutes (a tick).
Held(w) ==
    /\ At(w, "posted")
    /\ reply[w] = "held"
    /\ status' = Put(status, current[w], "queued")
    /\ owner' = Put(owner, current[w], NoWorker)
    /\ claimed' = Put(claimed, current[w], 0)
    /\ wait' = Put(wait, current[w], 1 - age[w])
    /\ EndGroup(w)
    /\ UNCHANGED <<attempts, tomorrow, stamp, days>>

\* What the pass had in memory is gone.
Forget(w) ==
    /\ Go(w, "idle")
    /\ take' = [take EXCEPT ![w] = 0]
    /\ mine' = [mine EXCEPT ![w] = {}]
    /\ current' = [current EXCEPT ![w] = {}]
    /\ reply' = [reply EXCEPT ![w] = "none"]
    /\ eve' = [eve EXCEPT ![w] = 0]
    /\ UNCHANGED <<rowVars, stopped, asked, copies, gone, missed, revivals>>

\* Copies that went out and that the pass can no longer record.
Excuse(w) ==
    excused' = [e \in Mail |->
                   IF reply[w] = "ok" /\ e \in current[w]
                   THEN excused[e] + 1 ELSE excused[e]]

\* Out of groups: hold() releases the lease.
Finish(w) ==
    /\ At(w, "deliver")
    /\ mine[w] = {}
    /\ Release(w)
    /\ Forget(w)
    /\ UNCHANGED <<excused, faults>>

\* A database error leaves _work(), anywhere but in the counts; hold() still
\* releases.
Raise(w) ==
    /\ Fail(1)
    /\ Release(w)
    /\ Forget(w)
    /\ Excuse(w)

\* The process is killed.
Crash(w) ==
    /\ Fail(1)
    /\ Abandon(w)
    /\ Forget(w)
    /\ Excuse(w)

Tick ==
    /\ LeaseTick
    /\ wait' = [e \in Mail |-> Atleast(wait[e] - 1, -RUN)]
    /\ claimed' = [e \in Mail |->
                      IF status[e] = "sending" /\ claimed[e] <= STUCK + RUN
                      THEN claimed[e] + 1 ELSE claimed[e]]
    /\ stamp' = [e \in Mail |-> AtMost(stamp[e] + 1, Horizon)]
    /\ gone' = [e \in Mail |-> AtMost(gone[e] + 1, Horizon)]
    /\ UNCHANGED <<status, attempts, tomorrow, owner, days, stopped, passVars,
                   asked, copies, excused, missed, boundVars>>

\* Midnight UTC.  No pass lives through two of them, and a day further back
\* than yesterday is all the same.
Midnight ==
    /\ CAP + BDCAP > 0
    /\ \A w \in Worker : eve[w] = 0
    /\ eve' = [w \in Worker |-> IF phase[w] = "out" THEN 0 ELSE 1]
    /\ days' = [e \in Mail |-> IF status[e] = "sent" THEN AtMost(days[e] + 1, 2)
                                                     ELSE days[e]]
    /\ wait' = Put(wait, tomorrow, 0)
    /\ tomorrow' = {}
    /\ UNCHANGED <<leaseVars, status, attempts, owner, claimed, stamp, stopped,
                   step, take, mine, current, reply, historyVars, boundVars>>

\* What a live pass does next, if nothing goes wrong.
Proceed(w) ==
    \/ Start(w) \/ Begin(w) \/ Skip(w)
    \/ Unstick(w) \/ Room(w) \/ Select(w) \/ Claim(w) \/ Fetch(w)
    \/ \E group \in Groups(w) : \/ HoldForCap(w, group)
                                \/ \E r \in Reply \ {"none"} : Send(w, group, r)
    \/ MarkSent(w) \/ MarkFailed(w) \/ Held(w)
    \/ Finish(w)

Next ==
    \/ \E e \in Mail : Enqueue(e) \/ Cancel(e) \/ Revive(e)
    \/ Switch
    \/ \E w \in Worker : Proceed(w) \/ Misread(w) \/ Raise(w) \/ Crash(w)
    \/ Tick
    \/ Midnight

Spec == Init /\ [][Next]_vars

\* The timer starts passes, a pass that is alive goes on, and days go by.
FairSpec ==
    /\ Spec
    /\ WF_vars(Tick)
    /\ WF_vars(Midnight)
    /\ \A w \in Worker : WF_vars(Proceed(w))

-----------------------------------------------------------------------------
MailTypeOK ==
    /\ LeaseTypeOK
    /\ status \in [Mail -> Status]
    /\ attempts \in [Mail -> 0..MAX]
    /\ wait \in [Mail -> Int]
    /\ tomorrow \subseteq Mail
    /\ owner \in [Mail -> Worker \cup {NoWorker}]
    /\ claimed \in [Mail -> 0..(STUCK + RUN + 1)]
    /\ stamp \in [Mail -> 0..Horizon]
    /\ days \in [Mail -> 0..2]
    /\ stopped \in BOOLEAN
    /\ step \in [Worker -> Step]
    /\ take \in [Worker -> 0..CLAIM]
    /\ mine \in [Worker -> SUBSET Mail]
    /\ current \in [Worker -> SUBSET Mail]
    /\ reply \in [Worker -> Reply]
    /\ eve \in [Worker -> 0..1]
    /\ asked \in [Mail -> Nat]
    /\ copies \in [Mail -> Nat]
    /\ excused \in [Mail -> Nat]
    /\ gone \in [Mail -> 0..Horizon]
    /\ missed \in Nat
    /\ faults \in 0..FAULTS
    /\ revivals \in 0..REVIVALS

Sending(w) == step[w] \in {"deliver", "posted"}

\* outbox_worker.py: "two overlapping runs cannot both claim the same row".
\* Passes may outlast the lease; the conditional UPDATE and the read-back keep
\* them apart as long as none is alive when its rows count as abandoned.
OneSender ==
    \A v, w \in Worker : v # w /\ Sending(v) /\ Sending(w)
                            => mine[v] \cap mine[w] = {}

\* A pass's rows are `sending` under its name, claimed when it read its now.
ClaimFits(w) ==
    /\ phase[w] = "in" <=> step[w] # "idle"
    /\ step[w] \in {"idle", "unstick", "room", "select"} => mine[w] = {}
    /\ step[w] = "claim" =>
          \A e \in mine[w] : status[e] = "sending" => owner[e] # w
    /\ step[w] = "fetch" =>
          \A e \in mine[w] : status[e] = "sending" /\ owner[e] = w
                               => claimed[e] = age[w]
    /\ Sending(w) =>
          \A e \in mine[w] : /\ status[e] = "sending" /\ owner[e] = w
                             /\ claimed[e] = age[w]

\* What it handed to the transport is one group of them.
ReplyFits(w) ==
    /\ step[w] = "posted" <=> reply[w] # "none"
    /\ IF step[w] = "posted" THEN current[w] \in Groups(w) ELSE current[w] = {}

\* The inductive invariant.
MailInv == \A w \in Worker : ClaimFits(w) /\ ReplyFits(w)

OnTheWire(e) == \E w \in Worker : reply[w] = "ok" /\ e \in current[w]

\* "the person would get the email twice" (leases.py): every copy the server
\* accepted is the one on record or one that nobody could record - the answer
\* was lost, or the process died before the commit.  So a mail that is still
\* waiting, failed or cancelled never left, those excepted.
CopiesAccountedFor ==
    \A e \in Mail :
        copies[e] = excused[e] + (IF status[e] = "sent" \/ OnTheWire(e) THEN 1
                                                                     ELSE 0)

\* "with nothing counted against them": whatever the kill switch, the ceilings
\* and the crashes held back, a mail is charged only for real answers.
HeldCostsNothing == \A e \in Mail : attempts[e] <= asked[e]

\* A mail that is sent or cancelled stays so, although cancel() comes from a
\* web request in the middle of a pass.
FinalStaysFinal ==
    [][\A e \in Mail : status[e] \in {"sent", "cancelled"}
                          => status'[e] = status[e]]_vars

\* The ceilings as the code counts them, by the now of the pass that sent.  No
\* trailing minute has more than its share, and one more for each count that
\* failed; no day has more than its caps allow, and one more for each of those.
StampedRate ==
    RATE # 0 => Cardinality({e \in Mail : status[e] = "sent"
                                             /\ stamp[e] <= MINUTE})
                   <= RATE * (1 + missed)

StampedDay ==
    \A cap \in Caps : cap.limit # 0 => \A d \in 0..1 :
        Cardinality({e \in cap.of : status[e] = "sent" /\ days[e] = d})
           <= cap.limit + missed

\* outbox.py: "Messages per minute, across all workers" - by the time the
\* messages left.
MessagesPerMinute ==
    RATE # 0 => Cardinality({Batch[e] : e \in {f \in Mail : gone[f] < MINUTE}})
                   <= RATE

\* "Turning the switch off releases the whole queue": with the kill switch off
\* for good, every mail is sent, failed or cancelled in the end.
EveryMailSettles ==
    <>[](~stopped) => \A e \in Mail : Open(e) ~> ~Open(e)

\* The outbox keeps the promise of OwedMail, whose debt is read off the rows and
\* whose departures are the copies the mail server accepted.
Owing == [absent |-> "none", queued |-> "owed", sending |-> "owed",
          sent |-> "settled", failed |-> "givenup", cancelled |-> "withdrawn"]

DebtOf(s) == Owing[s]

Debts == [e \in Mail |-> DebtOf(status[e])]
Departed == {e \in Mail : copies[e] > 0}

Owed == INSTANCE OwedMail WITH debt <- Debts, left <- Departed

MailPromise == Owed!MailSpec
=============================================================================
