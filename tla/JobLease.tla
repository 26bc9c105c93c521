------------------------------ MODULE JobLease ------------------------------
(***************************************************************************)
(* app/services/leases.py: one row of job_leases, taken by a conditional   *)
(* UPDATE.  The clock is relative: `left` is expires_at minus the present, *)
(* `age[w]` is the time since worker w read its `now`, and Tick moves both *)
(* by one unit, so no variable grows without bound.                        *)
(***************************************************************************)
EXTENDS Integers

CONSTANTS
    Worker,     \* processes that run the job (host:pid in `holder`)
    NoWorker,   \* the value of `holder` while the row does not exist
    Renewing,   \* workers that call renew() during their run
    LEASE,      \* `seconds` of acquire(), in ticks
    RUN         \* longest a live worker goes without releasing or renewing

ASSUME LeaseAssumption ==
    /\ NoWorker \notin Worker
    /\ Renewing \subseteq Worker
    /\ LEASE \in Nat \ {0}
    /\ RUN \in Nat

VARIABLES
    holder,     \* job_leases.holder
    left,       \* job_leases.expires_at - now
    phase,      \* where each worker is in `with hold(...)`
    age         \* time since the worker captured its own `now`

leaseVars == <<holder, left, phase, age>>

Phase == {"out", "asking", "in"}

\* A lease this far past its expiry is free to every asker alive.
LongExpired == -(RUN + 1)

Atleast(n, floor) == IF n < floor THEN floor ELSE n

-----------------------------------------------------------------------------
LeaseInit ==
    /\ holder = NoWorker
    /\ left = LongExpired
    /\ phase = [w \in Worker |-> "out"]
    /\ age = [w \in Worker |-> 0]

\* The job starts and acquire() reads utcnow().
Ask(w) ==
    /\ phase[w] = "out"
    /\ phase' = [phase EXCEPT ![w] = "asking"]
    /\ age' = [age EXCEPT ![w] = 0]
    /\ UNCHANGED <<holder, left>>

\* (Variants of a definition that a bug could have produced stand before it
\* and are named after it: here an expiry compared with <=, and a row that
\* only its first insert can win.)
FreeOnTheDot(w) == holder = NoWorker \/ left <= -age[w]
FreeNeverLapses(w) == holder = NoWorker \/ left = -1

\* WHERE expires_at < :now with the asker's own, possibly old, now; a row
\* that does not exist is inserted instead.
Free(w) == holder = NoWorker \/ left < -age[w]

\* acquire() got the row: the expiry counts from the asker's now.
Take(w) ==
    /\ phase[w] = "asking"
    /\ Free(w)
    /\ holder' = w
    /\ left' = LEASE - age[w]
    /\ phase' = [phase EXCEPT ![w] = "in"]
    /\ UNCHANGED age

\* rowcount 0: hold() yields False and never releases.
Refuse(w) ==
    /\ phase[w] = "asking"
    /\ ~Free(w)
    /\ phase' = [phase EXCEPT ![w] = "out"]
    /\ age' = [age EXCEPT ![w] = 0]
    /\ UNCHANGED <<holder, left>>

\* A renewal added to the expiry instead of counted from now.
RenewAddsUp(w) ==
    /\ w \in Renewing
    /\ phase[w] = "in"
    /\ holder = w
    /\ left' = left + LEASE
    /\ age' = [age EXCEPT ![w] = 0]
    /\ UNCHANGED <<holder, phase>>

\* renew(): WHERE holder = me, whether or not the lease has lapsed.
Renew(w) ==
    /\ w \in Renewing
    /\ phase[w] = "in"
    /\ holder = w
    /\ left' = LEASE
    /\ age' = [age EXCEPT ![w] = 0]
    /\ UNCHANGED <<holder, phase>>

\* A release without WHERE holder = me.
ReleaseAnyHolder(w) ==
    /\ phase[w] = "in"
    /\ left' = -1
    /\ phase' = [phase EXCEPT ![w] = "out"]
    /\ age' = [age EXCEPT ![w] = 0]
    /\ UNCHANGED holder

\* The finally of hold(): only the holder's row is touched, and it expires a
\* second ago.
Release(w) ==
    /\ phase[w] = "in"
    /\ left' = IF holder = w THEN -1 ELSE left
    /\ phase' = [phase EXCEPT ![w] = "out"]
    /\ age' = [age EXCEPT ![w] = 0]
    /\ UNCHANGED holder

\* The process is killed, or release() itself fails and swallows the error:
\* the row keeps its expiry.
Abandon(w) ==
    /\ phase[w] # "out"
    /\ phase' = [phase EXCEPT ![w] = "out"]
    /\ age' = [age EXCEPT ![w] = 0]
    /\ UNCHANGED <<holder, left>>

\* Time passes.  RUN bounds how long a live worker has been going.
LeaseTick ==
    /\ \A w \in Worker : phase[w] # "out" => age[w] < RUN
    /\ left' = Atleast(left - 1, LongExpired)
    /\ age' = [w \in Worker |-> IF phase[w] = "out" THEN 0 ELSE age[w] + 1]
    /\ UNCHANGED <<holder, phase>>

LeaseNext ==
    \/ \E w \in Worker : \/ Ask(w) \/ Take(w) \/ Refuse(w) \/ Renew(w)
                         \/ Release(w) \/ Abandon(w)
    \/ LeaseTick

LeaseSpec == LeaseInit /\ [][LeaseNext]_leaseVars

\* systemd starts the job every two minutes and a run that is alive goes on:
\* the clock and every worker are weakly fair.  Crashes and renewals are not
\* fair; a process is not killed before its UPDATE every single time (SF).
LeaseFairness ==
    /\ WF_leaseVars(LeaseTick)
    /\ \A w \in Worker :
          /\ WF_leaseVars(Ask(w) \/ Take(w) \/ Refuse(w) \/ Release(w))
          /\ SF_leaseVars(Take(w))

FairLeaseSpec == LeaseSpec /\ LeaseFairness

-----------------------------------------------------------------------------
LeaseTypeOK ==
    /\ holder \in Worker \cup {NoWorker}
    /\ left \in LongExpired..LEASE
    /\ phase \in [Worker -> Phase]
    /\ age \in [Worker -> 0..RUN]

\* leases.py "Nothing here may run twice at once": two workers are never
\* inside hold() together.  True while no run outlasts its lease.
OneRunner ==
    \A v, w \in Worker : phase[v] = "in" /\ phase[w] = "in" => v = w

\* What makes it so: the worker inside is the holder, and its lease is as long
\* as it has been running short of LEASE.
InsideHoldsTheLease ==
    \A w \in Worker : phase[w] = "in" => holder = w /\ left = LEASE - age[w]

\* release() and acquire() are both conditional: a lease that has not run out
\* is cut short, or changes hands, only by the worker that holds it leaving -
\* never by a worker whose own lease was lost and that releases late.
OnlyItsHolderEndsALease ==
    [][left >= 0 /\ (holder' # holder \/ left' < left - 1)
         => phase[holder] = "in" /\ phase'[holder] = "out"]_leaseVars

\* "the lease lapses and the next run takes it, rather than the job stopping
\* forever": whoever was killed holding it, the job runs again and again.
JobKeepsRunning == []<>(\E w \in Worker : phase[w] = "in")
=============================================================================
