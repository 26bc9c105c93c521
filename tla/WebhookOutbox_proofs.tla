------------------------ MODULE WebhookOutbox_proofs ------------------------
(***************************************************************************)
(* Theorems about the webhook queue, for any set of passes and events, any *)
(* lease and any run no longer than STUCK_MINUTES.                         *)
(***************************************************************************)
EXTENDS WebhookOutbox, JobLease_proofs

IInv == TypeOK /\ PassInv /\ PostInv /\ AttemptsLeft

\* The lease inside the queue is the lease of JobLease: no step of a pass does
\* to it what leases.py does not.
LEMMA StepsOfTheLease == [Next]_vars => [LeaseNext]_leaseVars
BY DEF Next, vars, leaseVars, LeaseNext, Proceed, Enqueue, Revive, Configure,
       Start, Begin, Skip, Unstick, Select, Claim, Fetch, Post, NoUrl,
       Delivered, Refused, RetryLater, Exhausted, EndDelivery, Finish, Raise,
       Crash, Tick

LEMMA InitEstablishesIInv == Init => IInv
BY LeaseAssumption, OutboxAssumption
   DEF Init, LeaseInit, IInv, TypeOK, LeaseTypeOK, LongExpired, Phase, PassInv, PassFits,
       PostInv, AttemptsLeft, Delivering, Status, Step, Reply

-----------------------------------------------------------------------------
\* Types, one action after the other.
LEMMA TypesAreKept ==
  ASSUME IInv, [Next]_vars
  PROVE  TypeOK'
<1> USE LeaseAssumption, OutboxAssumption DEF Status, Step, Reply
<1>0. LeaseTypeOK'
  BY LeaseTypeInductive, StepsOfTheLease DEF IInv, TypeOK
<1>1. TypeOK /\ PassInv /\ PostInv /\ AttemptsLeft
  BY DEF IInv
<1>2. ASSUME NEW e \in Event, Enqueue(e)  PROVE TypeOK'
  BY <1>0, <1>1, <1>2 DEF TypeOK, Enqueue, passVars, worldVars
<1>15. ASSUME NEW e \in Event, Revive(e)  PROVE TypeOK'
  <2>1. revivals' \in 0..REVIVALS
    BY <1>1, <1>15 DEF TypeOK, Revive
  <2> QED
    BY <1>0, <1>1, <1>15, <2>1 DEF TypeOK, Revive, passVars
<1>3. CASE Configure
  BY <1>0, <1>1, <1>3 DEF TypeOK, Configure, passVars, rowVars
<1>4. ASSUME NEW w \in Worker, Start(w) \/ Skip(w) \/ Begin(w)  PROVE TypeOK'
  <2>1. /\ UNCHANGED <<rowVars, mine, current, seen, reply, worldVars>>
        /\ step' \in {step, [step EXCEPT ![w] = "unstick"]}
    BY <1>4 DEF Start, Skip, Begin, Go, passVars
  <2> QED
    BY <1>0, <1>1, <2>1 DEF TypeOK, rowVars, worldVars
<1>5. ASSUME NEW w \in Worker, Unstick(w)  PROVE TypeOK'
  BY <1>0, <1>1, <1>5 DEF TypeOK, Unstick, Go, worldVars
<1>6. ASSUME NEW w \in Worker, Select(w)  PROVE TypeOK'
  BY SMTT(30), <1>0, <1>1, <1>6 DEF TypeOK, Select, Batches, Due, Go, rowVars, worldVars
<1>7. ASSUME NEW w \in Worker, Claim(w)  PROVE TypeOK'
  <2>1. age[w] \in 0..RUN
    BY <1>1 DEF TypeOK, LeaseTypeOK
  <2> QED
    BY SMTT(30), <1>0, <1>1, <1>7, <2>1 DEF TypeOK, Claim, Go, worldVars
<1>8. ASSUME NEW w \in Worker, Fetch(w)  PROVE TypeOK'
  BY <1>0, <1>1, <1>8 DEF TypeOK, Fetch, Go, rowVars, worldVars
<1>9. ASSUME NEW w \in Worker, NEW e \in Event, NEW r \in Reply, Post(w, e, r)
      PROVE  TypeOK'
  BY <1>0, <1>1, <1>9 DEF TypeOK, Post, Go, rowVars
<1>10. ASSUME NEW w \in Worker, NEW e \in Event, NoUrl(w, e)  PROVE TypeOK'
  <2>1. status[e] = "sending"
    BY <1>1, <1>10 DEF PassInv, PassFits, NoUrl, At, Delivering
  <2>2. attempts[e] + 1 \in 0..MAX
    <3>1. attempts[e] \in 0..MAX
      BY <1>1 DEF TypeOK
    <3>2. attempts[e] < MAX
      BY <1>1, <2>1 DEF AttemptsLeft
    <3> QED
      BY <3>1, <3>2
  <2> QED
    BY <1>0, <1>1, <1>10, <2>2 DEF TypeOK, NoUrl, Write, worldVars
<1>11. ASSUME NEW w \in Worker,
              Delivered(w) \/ Refused(w) \/ RetryLater(w) \/ Exhausted(w)
       PROVE  TypeOK'
  <2>1. current[w] \in Event /\ seen[w] + 1 \in 0..MAX /\ age[w] \in Int
    <3>1. step[w] = "posted"
      BY <1>11 DEF At, Delivered, Refused, RetryLater, Exhausted
    <3>2. current[w] \in mine[w] /\ seen[w] < MAX
      BY <1>1, <3>1 DEF PostInv
    <3>3. mine[w] \subseteq Event /\ seen[w] \in 0..MAX /\ age[w] \in 0..RUN
      BY <1>1 DEF TypeOK, LeaseTypeOK
    <3> QED
      BY <3>2, <3>3
  <2>2. EndDelivery(w)
        /\ \E s \in Status, delay \in Int :
              Write(current[w], s, seen[w] + 1, delay)
    <3>1. wait[current[w]] \in Int
      BY <1>1, <2>1 DEF TypeOK
    <3>2. RetryLater(w) => \A d \in {Backoff[seen[w] + 1]} \cup
              (IF reply[w] = "transient" THEN RetryAfter ELSE {}) :
                 d - age[w] \in Int
      BY SMTT(30), <1>1, <2>1 DEF RetryLater, TypeOK
    <3> QED
      BY <1>11, <2>1, <3>1, <3>2 DEF Delivered, Refused, RetryLater, Exhausted
  <2>3. /\ status' \in [Event -> Status] /\ attempts' \in [Event -> 0..MAX]
        /\ owner' \in [Event -> Worker \cup {NoWorker}]
        /\ claimed' \in [Event -> 0..(STUCK + RUN + 1)]
        /\ wait' \in [Event -> Int] /\ addressed' \in [Event -> BOOLEAN]
    BY SMTT(30), <1>1, <2>1, <2>2 DEF TypeOK, Write
  <2>4. /\ step' \in [Worker -> Step] /\ mine' \in [Worker -> SUBSET Event]
        /\ current' \in [Worker -> Event \cup {NoEvent}]
        /\ seen' \in [Worker -> 0..MAX] /\ reply' \in [Worker -> Reply]
        /\ UNCHANGED worldVars
    BY <1>1, <2>2 DEF TypeOK, EndDelivery, Go
  <2> QED
    BY <1>0, <1>1, <2>3, <2>4 DEF TypeOK, worldVars
<1>12. ASSUME NEW w \in Worker, Finish(w) \/ Raise(w) \/ Crash(w)
       PROVE  TypeOK'
  <2>1. faults' \in 0..FAULTS
    BY <1>1, <1>12 DEF TypeOK, Finish, Raise, Crash, worldVars
  <2>2. Forget(w) /\ UNCHANGED <<rowVars, configured, tms, rejected, revivals>>
    BY <1>12 DEF Finish, Raise, Crash, worldVars
  <2> QED
    BY <1>0, <1>1, <2>1, <2>2 DEF TypeOK, Forget, Go, rowVars
<1>13. CASE Tick
  BY <1>0, <1>1, <1>13 DEF TypeOK, Tick, Atleast, passVars, worldVars
<1>14. CASE UNCHANGED vars
  BY <1>0, <1>1, <1>14 DEF TypeOK, vars, rowVars, passVars, worldVars
<1> QED
  BY <1>2, <1>3, <1>4, <1>5, <1>6, <1>7, <1>8, <1>9, <1>10, <1>11, <1>12,
     <1>13, <1>14, <1>15 DEF Next, Proceed

-----------------------------------------------------------------------------
\* A claim of a live pass is as old as the pass, so at most RUN <= STUCK: no
\* other pass takes it for abandoned, and while it is `sending` none claims it.
LEMMA ClaimsAreKept ==
  ASSUME RUN <= STUCK, IInv, TypeOK', [Next]_vars
  PROVE  PassInv'
<1> SUFFICES ASSUME NEW v \in Worker  PROVE PassFits(v)'
  BY DEF PassInv
<1> USE LeaseAssumption, OutboxAssumption DEF At, Go, Delivering
<1>1. TypeOK /\ PassFits(v)
  BY DEF IInv, PassInv
<1>2. \A w \in Worker : age[w] \in 0..RUN /\ phase[w] \in Phase
  BY <1>1 DEF TypeOK, LeaseTypeOK
<1>3. ASSUME NEW e \in Event, Enqueue(e)  PROVE PassFits(v)'
  BY <1>1, <1>3 DEF PassFits, TypeOK, Enqueue, leaseVars, passVars
<1>4. ASSUME NEW e \in Event, Revive(e)  PROVE PassFits(v)'
  BY <1>1, <1>4 DEF PassFits, TypeOK, Revive, leaseVars, passVars
<1>5. CASE Configure
  BY <1>1, <1>5 DEF PassFits, Configure, leaseVars, passVars, rowVars
<1>6. ASSUME NEW w \in Worker, Start(w) \/ Skip(w)  PROVE PassFits(v)'
  <2>1. /\ UNCHANGED <<rowVars, passVars>>
        /\ phase[w] # "in" /\ phase'[w] # "in"
        /\ v # w => phase'[v] = phase[v] /\ age'[v] = age[v]
    BY SMTT(30), <1>1, <1>6 DEF Start, Skip, Ask, Refuse, TypeOK, LeaseTypeOK
  <2> QED
    BY <1>1, <2>1 DEF PassFits, rowVars, passVars
<1>7. ASSUME NEW w \in Worker, Begin(w)  PROVE PassFits(v)'
  <2>1. /\ UNCHANGED <<rowVars, mine, age>>
        /\ phase[w] = "asking" /\ phase'[w] = "in" /\ step'[w] = "unstick"
        /\ v # w => phase'[v] = phase[v] /\ step'[v] = step[v]
    BY <1>1, <1>7 DEF Begin, Take, TypeOK, LeaseTypeOK
  <2>2. CASE v = w
    BY <1>1, <2>1, <2>2 DEF PassFits
  <2>3. CASE v # w
    BY <1>1, <2>1, <2>3 DEF PassFits, rowVars
  <2> QED
    BY <2>2, <2>3
<1>8. ASSUME NEW w \in Worker, Unstick(w)  PROVE PassFits(v)'
  <2>1. \A e \in Event : claimed[e] = age[v] => ~Stuck(w, e)
    BY <1>1, <1>2 DEF Stuck
  <2> QED
    BY <1>1, <1>8, <2>1 DEF PassFits, TypeOK, Unstick, leaseVars, Step
<1>9. ASSUME NEW w \in Worker, Select(w)  PROVE PassFits(v)'
  <2>1. PICK S \in Batches(w) : mine' = [mine EXCEPT ![w] = S]
    BY <1>9 DEF Select
  <2>2. \A e \in S : e \in Event /\ status[e] # "sending"
    BY <2>1 DEF Batches, Due, Waiting
  <2>3. Due(w) = {} => S = {}
    BY <2>1 DEF Batches
  <2>4. /\ UNCHANGED <<leaseVars, rowVars>> /\ step[w] = "select"
        /\ step' = [step EXCEPT ![w] =
                       IF Due(w) = {} THEN "deliver" ELSE "claim"]
    BY <1>9 DEF Select
  <2>5. CASE v = w
    BY <1>1, <2>1, <2>2, <2>3, <2>4, <2>5
       DEF PassFits, TypeOK, leaseVars, rowVars
  <2>6. CASE v # w
    BY <1>1, <2>1, <2>4, <2>6 DEF PassFits, TypeOK, leaseVars, rowVars
  <2> QED
    BY <2>5, <2>6
<1>10. ASSUME NEW w \in Worker, Claim(w)  PROVE PassFits(v)'
  BY SMTT(30), <1>1, <1>10
     DEF PassFits, TypeOK, Claim, Claimable, Waiting, leaseVars, Step
<1>11. ASSUME NEW w \in Worker, Fetch(w)  PROVE PassFits(v)'
  BY <1>1, <1>11 DEF PassFits, TypeOK, Fetch, leaseVars, rowVars, Step
<1>12. ASSUME NEW w \in Worker, NEW e \in Event, NEW r \in Reply, Post(w, e, r)
       PROVE  PassFits(v)'
  BY <1>1, <1>12 DEF PassFits, TypeOK, Post, leaseVars, rowVars, Step
<1>13. ASSUME NEW w \in Worker, NEW e \in Event, NoUrl(w, e)
       PROVE  PassFits(v)'
  <2>1. PassFits(w)
    BY DEF IInv, PassInv
  <2> QED
    BY SMTT(30), <1>1, <1>13, <2>1 DEF PassFits, TypeOK, NoUrl, Write, leaseVars, Step
<1>14. ASSUME NEW w \in Worker,
              Delivered(w) \/ Refused(w) \/ RetryLater(w) \/ Exhausted(w)
       PROVE  PassFits(v)'
  <2>1. /\ At(w, "posted") /\ EndDelivery(w)
        /\ \E s, n, delay : Write(current[w], s, n, delay)
    BY <1>14 DEF Delivered, Refused, RetryLater, Exhausted
  <2>2. /\ current[w] \in mine[w] /\ current[w] \in Event
        /\ owner[current[w]] = w
    BY <1>1, <2>1 DEF IInv, PassInv, PassFits, PostInv, TypeOK
  <2>3. /\ UNCHANGED leaseVars
        /\ \A e \in Event \ {current[w]} : /\ status'[e] = status[e]
                                           /\ owner'[e] = owner[e]
                                           /\ claimed'[e] = claimed[e]
        /\ owner'[current[w]] = NoWorker
    BY <1>1, <2>1, <2>2 DEF Write, EndDelivery, TypeOK
  <2>4. CASE v = w
    BY <1>1, <2>1, <2>2, <2>3, <2>4
       DEF PassFits, TypeOK, EndDelivery, leaseVars
  <2>5. CASE v # w
    <3>1. step'[v] = step[v] /\ mine'[v] = mine[v] /\ mine[v] \subseteq Event
      BY <1>1, <2>1, <2>5 DEF EndDelivery, TypeOK
    <3>2. Delivering(v) => current[w] \notin mine[v]
      BY <1>1, <2>2, <2>5 DEF PassFits
    <3> QED
      BY <1>1, <2>3, <3>1, <3>2 DEF PassFits, leaseVars
  <2> QED
    BY <2>4, <2>5
<1>15. ASSUME NEW w \in Worker, Finish(w) \/ Raise(w) \/ Crash(w)
       PROVE  PassFits(v)'
  <2>1. Forget(w) /\ UNCHANGED rowVars /\ (Release(w) \/ Abandon(w))
    BY <1>15 DEF Finish, Raise, Crash
  <2>2. /\ phase' = [phase EXCEPT ![w] = "out"]
        /\ age' = [age EXCEPT ![w] = 0]
    BY <2>1 DEF Release, Abandon
  <2> QED
    BY <1>1, <2>1, <2>2 DEF PassFits, TypeOK, LeaseTypeOK, Forget, rowVars, Step
<1>16. CASE Tick
  <2>1. UNCHANGED <<phase, status, owner, step, mine>>
    BY <1>16 DEF Tick, LeaseTick, passVars
  <2>2. phase[v] = "in" => age'[v] = age[v] + 1
    BY <1>16 DEF Tick, LeaseTick
  <2>3. \A e \in Event : status[e] = "sending" /\ claimed[e] <= RUN
                            => claimed'[e] = claimed[e] + 1
    <3> SUFFICES ASSUME NEW e \in Event, status[e] = "sending", claimed[e] <= RUN
                 PROVE  claimed'[e] = claimed[e] + 1
      OBVIOUS
    <3>1. claimed[e] \in Nat /\ claimed[e] <= STUCK + RUN
      BY SMTT(30), <1>1 DEF TypeOK
    <3> QED
      BY <1>16, <3>1 DEF Tick
  <2>4. mine[v] \subseteq Event /\ (step[v] # "idle" => phase[v] = "in")
    BY <1>1 DEF TypeOK, PassFits
  <2> QED
    BY <1>1, <1>2, <2>1, <2>2, <2>3, <2>4 DEF PassFits
<1>17. CASE UNCHANGED vars
  BY <1>1, <1>17 DEF PassFits, vars, leaseVars, rowVars, passVars
<1> QED
  BY <1>3, <1>4, <1>5, <1>6, <1>7, <1>8, <1>9, <1>10, <1>11, <1>12, <1>13,
     <1>14, <1>15, <1>16, <1>17 DEF Next, Proceed

-----------------------------------------------------------------------------
\* An event on the wire keeps its claim until its own pass writes the outcome,
\* so what the pass loaded before the post is still good after it.
LEMMA PostsAreKept ==
  ASSUME IInv, TypeOK', PassInv', [Next]_vars
  PROVE  PostInv' /\ AttemptsLeft'
<1> USE LeaseAssumption, OutboxAssumption DEF At, Go, Delivering
<1>1. TypeOK /\ PassInv /\ PostInv /\ AttemptsLeft
  BY DEF IInv
<1>2. ASSUME NEW e \in Event, Enqueue(e)  PROVE PostInv' /\ AttemptsLeft'
  BY <1>1, <1>2 DEF PostInv, AttemptsLeft, TypeOK, Enqueue, passVars, worldVars
<1>3. ASSUME NEW e \in Event, Revive(e)  PROVE PostInv' /\ AttemptsLeft'
  <2>1. \A w \in Worker : step[w] = "posted" => current[w] # e
    BY <1>1, <1>3 DEF PassInv, PassFits, PostInv, Revive
  <2> QED
    BY <1>1, <1>3, <2>1 DEF PostInv, AttemptsLeft, TypeOK, Revive, passVars
<1>4. CASE Configure
  BY <1>1, <1>4 DEF PostInv, AttemptsLeft, Configure, passVars, rowVars
<1>5. ASSUME NEW w \in Worker, Start(w) \/ Skip(w)
      PROVE  PostInv' /\ AttemptsLeft'
  BY <1>1, <1>5 DEF PostInv, AttemptsLeft, Start, Skip, passVars, rowVars,
                    worldVars
<1>6. ASSUME NEW w \in Worker, Begin(w)  PROVE PostInv' /\ AttemptsLeft'
  BY <1>1, <1>6 DEF PostInv, AttemptsLeft, TypeOK, Begin, rowVars,
                    worldVars
<1>7. ASSUME NEW w \in Worker, Unstick(w)  PROVE PostInv' /\ AttemptsLeft'
  <2>1. PostInv'
    BY <1>1, <1>7 DEF PostInv, TypeOK, Unstick, worldVars
  <2>2. AttemptsLeft'
    BY <1>1, <1>7 DEF AttemptsLeft, TypeOK, Unstick, Stuck
  <2> QED
    BY <2>1, <2>2
<1>8. ASSUME NEW w \in Worker, Select(w)  PROVE PostInv' /\ AttemptsLeft'
  <2>1. /\ UNCHANGED <<rowVars, current, seen, reply, worldVars>>
        /\ step[w] = "select" /\ step'[w] # "posted"
        /\ \A v \in Worker \ {w} : step'[v] = step[v] /\ mine'[v] = mine[v]
    BY <1>1, <1>8 DEF Select, TypeOK
  <2> QED
    BY <1>1, <2>1 DEF PostInv, AttemptsLeft, rowVars, worldVars
<1>9. ASSUME NEW w \in Worker, Claim(w)  PROVE PostInv' /\ AttemptsLeft'
  <2>1. PostInv'
    BY <1>1, <1>9 DEF PostInv, TypeOK, Claim, worldVars
  <2>2. AttemptsLeft'
    BY <1>1, <1>9
       DEF AttemptsLeft, TypeOK, Claim, Claimable, Waiting
  <2> QED
    BY <2>1, <2>2
<1>10. ASSUME NEW w \in Worker, Fetch(w)  PROVE PostInv' /\ AttemptsLeft'
  BY <1>1, <1>10 DEF PostInv, AttemptsLeft, TypeOK, Fetch, rowVars,
                     worldVars
<1>11. ASSUME NEW w \in Worker, NEW e \in Event, NEW r \in Reply \ {"none"},
              Post(w, e, r)
       PROVE  PostInv' /\ AttemptsLeft'
  <2>1. attempts[e] < MAX
    <3>1. PassFits(w) /\ step[w] = "deliver" /\ e \in mine[w]
      BY <1>1, <1>11 DEF PassInv, Post
    <3>2. status[e] = "sending"
      BY <3>1 DEF PassFits
    <3> QED
      BY <1>1, <3>2 DEF AttemptsLeft
  <2>2. tms \subseteq tms' /\ rejected \subseteq rejected'
    BY <1>11 DEF Post
  <2>3. (r = "ok" => e \in tms') /\ (r = "refused" => e \in rejected')
    BY <1>11 DEF Post
  <2> QED
    BY <1>1, <1>11, <2>1, <2>2, <2>3
       DEF PostInv, AttemptsLeft, TypeOK, Post, rowVars
<1>12. ASSUME NEW w \in Worker, NEW e \in Event, NoUrl(w, e)
       PROVE  PostInv' /\ AttemptsLeft'
  BY <1>1, <1>12 DEF PostInv, AttemptsLeft, TypeOK, NoUrl, Write,
                     worldVars
<1>13. ASSUME NEW w \in Worker,
              Delivered(w) \/ Refused(w) \/ RetryLater(w) \/ Exhausted(w)
       PROVE  PostInv' /\ AttemptsLeft'
  <2>1. EndDelivery(w) /\ step[w] = "posted" /\ current[w] \in Event
    BY <1>1, <1>13 DEF Delivered, Refused, RetryLater, Exhausted, PostInv,
                       TypeOK
  <2>2. \E s \in {"delivered", "dead", "failed"}, delay \in {wait'[current[w]]} :
           /\ Write(current[w], s, seen[w] + 1, delay)
           /\ s = "failed" => seen[w] + 1 < MAX
    <3>1. CASE Delivered(w)
      BY <1>1, <2>1, <3>1 DEF Delivered, Write, TypeOK
    <3>2. CASE Refused(w)
      BY <1>1, <2>1, <3>2 DEF Refused, Write, TypeOK
    <3>3. CASE RetryLater(w)
      BY <1>1, <2>1, <3>3 DEF RetryLater, Write, TypeOK
    <3>4. CASE Exhausted(w)
      BY <1>1, <2>1, <3>4 DEF Exhausted, Write, TypeOK
    <3> QED
      BY <1>13, <3>1, <3>2, <3>3, <3>4
  <2>3. PostInv'
    BY <1>1, <2>1 DEF PostInv, TypeOK, EndDelivery, worldVars
  <2>4. AttemptsLeft'
    BY SMTT(30), <1>1, <2>1, <2>2 DEF AttemptsLeft, TypeOK, Write
  <2> QED
    BY <2>3, <2>4
<1>14. ASSUME NEW w \in Worker, Finish(w) \/ Raise(w) \/ Crash(w)
       PROVE  PostInv' /\ AttemptsLeft'
  <2>1. Forget(w) /\ UNCHANGED <<rowVars, tms, rejected>>
    BY <1>14 DEF Finish, Raise, Crash, worldVars
  <2> QED
    BY <1>1, <2>1 DEF PostInv, AttemptsLeft, TypeOK, Forget, rowVars
<1>15. CASE Tick
  BY <1>1, <1>15 DEF PostInv, AttemptsLeft, Tick, passVars, worldVars
<1>16. CASE UNCHANGED vars
  BY <1>1, <1>16 DEF PostInv, AttemptsLeft, vars, rowVars, passVars,
                     worldVars
<1> QED
  BY <1>2, <1>3, <1>4, <1>5, <1>6, <1>7, <1>8, <1>9, <1>10, <1>11, <1>12,
     <1>13, <1>14, <1>15, <1>16 DEF Next, Proceed

-----------------------------------------------------------------------------
\* The inductive invariant, from which the rest follows.
LEMMA IInvAlways ==
  ASSUME RUN <= STUCK
  PROVE  Spec => []IInv
<1>1. Init => IInv
  BY InitEstablishesIInv
<1>2. IInv /\ [Next]_vars => IInv'
  <2> SUFFICES ASSUME IInv, [Next]_vars  PROVE IInv'
    OBVIOUS
  <2>1. TypeOK'
    BY TypesAreKept
  <2>2. PassInv'
    BY <2>1, ClaimsAreKept
  <2>3. PostInv' /\ AttemptsLeft'
    BY <2>1, <2>2, PostsAreKept
  <2> QED
    BY <2>1, <2>2, <2>3 DEF IInv
<1> QED
  BY <1>1, <1>2, PTL DEF Spec

\* Every column and every pass keeps its type: in particular no event is ever
\* charged more than MAX attempts.
THEOREM TypeCorrect ==
  ASSUME RUN <= STUCK
  PROVE  Spec => []TypeOK
<1>1. IInv => TypeOK
  BY DEF IInv
<1> QED
  BY <1>1, IInvAlways, PTL

\* "two overlapping runs cannot both claim the same event": true of every
\* number of passes, even when they overlap because a pass outlasted its lease,
\* provided it is over within STUCK_MINUTES.
THEOREM OneDelivererAlways ==
  ASSUME RUN <= STUCK
  PROVE  Spec => []OneDeliverer
<1>1. IInv => OneDeliverer
  BY DEF IInv, PassInv, PassFits, OneDeliverer
<1> QED
  BY <1>1, IInvAlways, PTL

-----------------------------------------------------------------------------
\* A row is marked delivered only when the TMS has the event: the outcome that
\* a pass writes is the one of its own post, and the TMS forgets nothing.
THEOREM DeliveredMeansTakenAlways ==
  ASSUME RUN <= STUCK
  PROVE  Spec => []DeliveredMeansTaken
<1> USE DEF DeliveredMeansTaken
<1>1. Init => DeliveredMeansTaken
  BY DEF Init
<1>2. ASSUME IInv, DeliveredMeansTaken, [Next]_vars
      PROVE  DeliveredMeansTaken'
  <2>1. TypeOK /\ PassInv /\ PostInv
    BY <1>2 DEF IInv
  <2>2. ASSUME NEW e \in Event, Enqueue(e) \/ Revive(e)
        PROVE  DeliveredMeansTaken'
    BY <1>2, <2>1, <2>2 DEF Enqueue, Revive, TypeOK, worldVars
  <2>3. ASSUME NEW w \in Worker,
               Start(w) \/ Skip(w) \/ Begin(w) \/ Select(w) \/ Fetch(w)
               \/ Finish(w) \/ Raise(w) \/ Crash(w)
        PROVE  DeliveredMeansTaken'
    BY <1>2, <2>3 DEF Start, Skip, Begin, Select, Fetch, Finish, Raise, Crash,
                      rowVars, worldVars
  <2>4. ASSUME NEW w \in Worker, Unstick(w) \/ Claim(w)
        PROVE  DeliveredMeansTaken'
    BY <1>2, <2>1, <2>4 DEF Unstick, Claim, TypeOK, worldVars
  <2>5. ASSUME NEW w \in Worker, NEW e \in Event, NEW r \in Reply, Post(w, e, r)
        PROVE  DeliveredMeansTaken'
    <3>1. tms \subseteq tms' /\ status' = status
      BY <2>5 DEF Post, rowVars
    <3> QED
      BY <1>2, <3>1
  <2>6. ASSUME NEW w \in Worker, NEW e \in Event, NoUrl(w, e)
        PROVE  DeliveredMeansTaken'
    BY <1>2, <2>1, <2>6 DEF NoUrl, Write, TypeOK, worldVars
  <2>7. ASSUME NEW w \in Worker,
               Delivered(w) \/ Refused(w) \/ RetryLater(w) \/ Exhausted(w)
        PROVE  DeliveredMeansTaken'
    <3>1. tms' = tms /\ step[w] = "posted" /\ current[w] \in Event
      BY <2>1, <2>7 DEF Delivered, Refused, RetryLater, Exhausted, At,
                        EndDelivery, PostInv, TypeOK, worldVars
    <3>2. \E s \in Status : /\ status' = [status EXCEPT ![current[w]] = s]
                            /\ s = "delivered" => reply[w] = "ok"
      BY <2>7 DEF Delivered, Refused, RetryLater, Exhausted, Write, Status
    <3>3. reply[w] = "ok" => current[w] \in tms
      BY <2>1, <3>1 DEF PostInv
    <3> QED
      BY <1>2, <2>1, <3>1, <3>2, <3>3 DEF TypeOK
  <2>8. ASSUME Configure \/ Tick \/ UNCHANGED vars
        PROVE  DeliveredMeansTaken'
    BY <1>2, <2>8 DEF Configure, Tick, vars, rowVars, worldVars
  <2> QED
    BY <1>2, <2>2, <2>3, <2>4, <2>5, <2>6, <2>7, <2>8 DEF Next, Proceed
<1>3. IInv /\ DeliveredMeansTaken /\ [Next]_vars => DeliveredMeansTaken'
  BY <1>2
<1> QED
  BY <1>1, <1>3, IInvAlways, PTL DEF Spec

-----------------------------------------------------------------------------
\* `dead` is a final 4xx or the attempt ceiling, wherever TMS_WEBHOOK_URL is set
\* from the start: the pass that writes it has read the attempts of this very
\* claim, and nobody charges or revives the row while it is on the wire.
THEOREM DeadForAReasonAlways ==
  ASSUME RUN <= STUCK, StartsConfigured
  PROVE  Spec => []DeadForAReason
<1> DEFINE Inv == configured /\ DeadForAReason
<1> USE OutboxAssumption DEF DeadForAReason
<1>1. Init => Inv
  BY DEF Init
<1>2. ASSUME IInv, Inv, [Next]_vars
      PROVE  Inv'
  <2>1. TypeOK /\ PassInv /\ PostInv /\ AttemptsLeft
    BY <1>2 DEF IInv
  <2>2. ASSUME NEW e \in Event, Enqueue(e) \/ Revive(e)
        PROVE  Inv'
    <3>1. UNCHANGED configured /\ status' = [status EXCEPT ![e] = "queued"]
      BY <2>2 DEF Enqueue, Revive, worldVars
    <3>2. \A f \in Event \ {e} : /\ attempts'[f] = attempts[f]
                                 /\ f \in rejected => f \in rejected'
      BY <2>1, <2>2 DEF Enqueue, Revive, TypeOK, worldVars
    <3>3. status'[e] = "queued" /\ \A f \in Event \ {e} : status'[f] = status[f]
      BY <2>1, <3>1 DEF TypeOK
    <3> QED
      BY <1>2, <3>1, <3>2, <3>3
  <2>3. ASSUME NEW w \in Worker,
               Start(w) \/ Skip(w) \/ Begin(w) \/ Select(w) \/ Fetch(w)
               \/ Finish(w) \/ Raise(w) \/ Crash(w)
        PROVE  Inv'
    BY <1>2, <2>3 DEF Start, Skip, Begin, Select, Fetch, Finish, Raise, Crash,
                      rowVars, worldVars
  <2>4. ASSUME NEW w \in Worker, Unstick(w) \/ Claim(w)
        PROVE  Inv'
    BY <1>2, <2>1, <2>4 DEF Unstick, Claim, TypeOK, worldVars
  <2>5. ASSUME NEW w \in Worker, NEW e \in Event, NEW r \in Reply, Post(w, e, r)
        PROVE  Inv'
    <3>1. rejected \subseteq rejected' /\ UNCHANGED <<rowVars, configured>>
      BY <2>5 DEF Post
    <3> QED
      BY <1>2, <3>1 DEF rowVars
  <2>6. ASSUME NEW w \in Worker, NEW e \in Event, NoUrl(w, e)
        PROVE  FALSE
    BY <1>2, <2>6 DEF NoUrl
  <2>7. ASSUME NEW w \in Worker,
               Delivered(w) \/ Refused(w) \/ RetryLater(w) \/ Exhausted(w)
        PROVE  Inv'
    <3>1. /\ UNCHANGED <<rejected, configured>>
          /\ step[w] = "posted" /\ current[w] \in Event
      BY <2>1, <2>7 DEF Delivered, Refused, RetryLater, Exhausted, At,
                        EndDelivery, PostInv, TypeOK, worldVars
    <3>2. seen[w] \in 0..MAX /\ seen[w] < MAX
      BY <2>1, <3>1 DEF PostInv, TypeOK
    <3>3. Refused(w) => current[w] \in rejected
      BY <2>1, <3>1 DEF Refused, PostInv
    <3>4. Exhausted(w) => seen[w] + 1 = MAX
      BY <3>2 DEF Exhausted
    <3>5. /\ status' = [status EXCEPT ![current[w]] = status'[current[w]]]
          /\ attempts' = [attempts EXCEPT ![current[w]] = seen[w] + 1]
          /\ status'[current[w]] = "dead" => Refused(w) \/ Exhausted(w)
      BY <2>1, <2>7, <3>1
         DEF Delivered, Refused, RetryLater, Exhausted, Write, TypeOK
    <3> QED
      BY <1>2, <2>1, <3>1, <3>3, <3>4, <3>5 DEF TypeOK
  <2>8. ASSUME Configure \/ Tick \/ UNCHANGED vars
        PROVE  Inv'
    BY <1>2, <2>8 DEF Configure, Tick, vars, rowVars, worldVars
  <2> QED
    BY <1>2, <2>2, <2>3, <2>4, <2>5, <2>6, <2>7, <2>8 DEF Next, Proceed
<1>3. IInv /\ Inv /\ [Next]_vars => Inv'
  BY <1>2
<1>4. Inv => DeadForAReason
  OBVIOUS
<1> QED
  BY <1>1, <1>3, <1>4, IInvAlways, PTL DEF Spec

-----------------------------------------------------------------------------
\* One row changes its status.
LEMMA DebtsFollow ==
  ASSUME TypeOK, NEW d \in Event, NEW s, status' = [status EXCEPT ![d] = s]
  PROVE  Debts' = [Debts EXCEPT ![d] = DebtOf(s)]
BY DEF Debts, TypeOK

\* Rows change, but only among those still owed.
LEMMA DebtsStay ==
  ASSUME \A e \in Event : status'[e] # status[e]
            => {status[e], status'[e]} \subseteq {"queued", "failed", "sending"}
  PROVE  Debts' = Debts
<1>1. \A e \in Event : DebtOf(status'[e]) = DebtOf(status[e])
  BY DEF DebtOf
<1> QED
  BY <1>1 DEF Debts

\* Every step of the queue is a step of the promise, or none.
LEMMA StepsOfThePromise ==
  ASSUME IInv, [Next]_vars
  PROVE  [Owed!OwedNext]_(Owed!owedVars)
<1> DEFINE Simulated == Owed!OwedNext \/ UNCHANGED Owed!owedVars
<1> SUFFICES Simulated
  OBVIOUS
<1> USE DEF Owed!OwedNext, Owed!owedVars, Owed!Owe, Owed!Process,
            Owed!SettleDebt, Owed!GiveUp, Owed!PutBack
<1>1. TypeOK /\ PassInv /\ PostInv
  BY DEF IInv
<1>2. \A e \in Event : Debts[e] = DebtOf(status[e])
  BY DEF Debts
<1>3. ASSUME NEW e \in Event, Enqueue(e)  PROVE Simulated
  <2>1. status[e] = "absent" /\ status' = [status EXCEPT ![e] = "queued"]
        /\ UNCHANGED tms
    BY <1>3 DEF Enqueue, worldVars
  <2>2. Debts' = [Debts EXCEPT ![e] = "owed"]
    BY <1>1, <2>1, DebtsFollow DEF DebtOf
  <2> QED
    BY <1>2, <2>1, <2>2 DEF DebtOf
<1>4. ASSUME NEW e \in Event, Revive(e)  PROVE Simulated
  <2>1. status[e] = "dead" /\ status' = [status EXCEPT ![e] = "queued"]
        /\ UNCHANGED tms
    BY <1>4 DEF Revive
  <2>2. Debts' = [Debts EXCEPT ![e] = "owed"]
    BY <1>1, <2>1, DebtsFollow DEF DebtOf
  <2> QED
    BY <1>2, <2>1, <2>2 DEF DebtOf
<1>5. ASSUME NEW w \in Worker, Unstick(w) \/ Claim(w)  PROVE Simulated
  <2>1. UNCHANGED tms
    BY <1>5 DEF Unstick, Claim, worldVars
  <2>2. \A e \in Event : status'[e] # status[e]
            => {status[e], status'[e]} \subseteq {"queued", "failed", "sending"}
    BY <1>1, <1>5 DEF Unstick, Stuck, Claim, Claimable, Waiting, TypeOK
  <2> QED
    BY <2>1, <2>2, DebtsStay
<1>6. ASSUME NEW w \in Worker, NEW e \in Event, NEW r \in Reply, Post(w, e, r)
      PROVE  Simulated
  <2>1. PassFits(w) /\ step[w] = "deliver" /\ e \in mine[w]
    BY <1>1, <1>6 DEF PassInv, Post, At
  <2>2. Debts[e] = "owed"
    BY <1>2, <2>1 DEF PassFits, Delivering, DebtOf
  <2>3. UNCHANGED Debts /\ tms' \in {tms, tms \cup {e}}
    BY <1>6 DEF Post, rowVars, Debts
  <2> QED
    BY <2>2, <2>3
<1>7. ASSUME NEW w \in Worker, NEW e \in Event, NoUrl(w, e)  PROVE Simulated
  <2>1. PassFits(w) /\ step[w] = "deliver" /\ e \in mine[w]
    BY <1>1, <1>7 DEF PassInv, NoUrl, At
  <2>2. Debts[e] = "owed"
    BY <1>2, <2>1 DEF PassFits, Delivering, DebtOf
  <2>3. Debts' = [Debts EXCEPT ![e] = "givenup"]
    <3>1. status' = [status EXCEPT ![e] = "dead"]
      BY <1>7 DEF NoUrl, Write
    <3> QED
      BY <1>1, <3>1, DebtsFollow DEF DebtOf
  <2> QED
    BY <1>7, <2>2, <2>3 DEF NoUrl, worldVars
<1>8. ASSUME NEW w \in Worker,
             Delivered(w) \/ Refused(w) \/ RetryLater(w) \/ Exhausted(w)
      PROVE  Simulated
  <2>1. step[w] = "posted" /\ UNCHANGED tms
    BY <1>8 DEF Delivered, Refused, RetryLater, Exhausted, At, EndDelivery,
                worldVars
  <2>2. current[w] \in mine[w] /\ (reply[w] = "ok" => current[w] \in tms)
    BY <1>1, <2>1 DEF PostInv
  <2>3. current[w] \in Event /\ status[current[w]] = "sending"
    BY <1>1, <2>1, <2>2 DEF TypeOK, PassInv, PassFits, Delivering
  <2>4. Debts[current[w]] = "owed"
    BY <1>2, <2>3 DEF DebtOf
  <2>5. CASE Delivered(w)
    <3>1. status' = [status EXCEPT ![current[w]] = "delivered"]
      BY <2>5 DEF Delivered, Write
    <3>2. Debts' = [Debts EXCEPT ![current[w]] = "settled"]
      BY <1>1, <2>3, <3>1, DebtsFollow DEF DebtOf
    <3> QED
      BY <2>1, <2>2, <2>3, <2>4, <2>5, <3>2 DEF Delivered
  <2>6. CASE Refused(w) \/ Exhausted(w)
    <3>1. status' = [status EXCEPT ![current[w]] = "dead"]
      BY <2>6 DEF Refused, Exhausted, Write
    <3>2. Debts' = [Debts EXCEPT ![current[w]] = "givenup"]
      BY <1>1, <2>3, <3>1, DebtsFollow DEF DebtOf
    <3> QED
      BY <2>1, <2>3, <2>4, <3>2
  <2>7. CASE RetryLater(w)
    <3>1. status' = [status EXCEPT ![current[w]] = "failed"]
      BY <2>7 DEF RetryLater, Write
    <3>2. Debts' = Debts
      BY <1>1, <2>3, <3>1, DebtsStay DEF TypeOK
    <3> QED
      BY <2>1, <3>2
  <2> QED
    BY <1>8, <2>5, <2>6, <2>7
<1>9. ASSUME NEW w \in Worker,
             Start(w) \/ Skip(w) \/ Begin(w) \/ Select(w) \/ Fetch(w)
             \/ Finish(w) \/ Raise(w) \/ Crash(w)
      PROVE  Simulated
  BY <1>9 DEF Start, Skip, Begin, Select, Fetch, Finish, Raise, Crash, rowVars,
              worldVars, Debts
<1>10. CASE Configure \/ Tick \/ UNCHANGED vars
  BY <1>10 DEF Configure, Tick, vars, rowVars, worldVars, Debts
<1> QED
  BY <1>3, <1>4, <1>5, <1>6, <1>7, <1>8, <1>9, <1>10 DEF Next, Proceed

\* The queue implements OwedEvents for any passes, leases and faults: what is
\* owed stays owed until the TMS has it or a person is asked, and what is
\* settled is settled for good.
THEOREM QueueKeepsThePromise ==
  ASSUME RUN <= STUCK
  PROVE  Spec => OwedPromise
<1>1. Init => Owed!OwedInit
  BY DEF Init, Debts, DebtOf, Owed!OwedInit
<1> QED
  BY <1>1, StepsOfThePromise, IInvAlways, PTL
     DEF Spec, OwedPromise, Owed!OwedSpec
-----------------------------------------------------------------------------
\* The queue runs under the lease of JobLease, step for step: what is proved of
\* the lease holds here.
THEOREM QueueRunsUnderTheLease == Spec => LeaseSpec
<1>1. Init => LeaseInit
  BY DEF Init
<1> QED
  BY <1>1, StepsOfTheLease, PTL DEF Spec, LeaseSpec

\* One pass at a time, while no pass outlasts its lease.
LEMMA OnePassAtATime ==
  ASSUME RUN <= LEASE
  PROVE  Spec => []OneRunner
BY QueueRunsUnderTheLease, OneRunnerAtATime, PTL

\* A row that a pass has selected and not yet claimed is past its back-off.
SelectedHaveWaited ==
    \A w \in Worker : step[w] = "claim" =>
        \A e \in mine[w] : status[e] = "failed" => wait[e] <= 0

\* Only a pass that is posting fails a row, and while one is about to claim no
\* other is inside.
LEMMA SelectedHaveWaitedIsInductive ==
  ASSUME IInv, OneRunner, SelectedHaveWaited, [Next]_vars
  PROVE  SelectedHaveWaited'
<1> SUFFICES ASSUME NEW v \in Worker, step'[v] = "claim",
                    NEW f \in mine'[v], status'[f] = "failed"
             PROVE  wait'[f] <= 0
  BY DEF SelectedHaveWaited
<1> USE LeaseAssumption, OutboxAssumption DEF At, Go
<1>1. TypeOK /\ PassInv /\ PostInv
  BY DEF IInv
<1>2. step[v] = "claim" => \A e \in mine[v] : status[e] = "failed" => wait[e] <= 0
  BY DEF SelectedHaveWaited
<1>3. \A w \in Worker : age[w] \in 0..RUN
  BY <1>1 DEF TypeOK, LeaseTypeOK
<1>4. ASSUME NEW e \in Event, Enqueue(e) \/ Revive(e)  PROVE wait'[f] <= 0
  <2>1. UNCHANGED <<step, mine>> /\ wait' = [wait EXCEPT ![e] = 0]
        /\ status' = [status EXCEPT ![e] = "queued"]
    BY <1>4 DEF Enqueue, Revive, passVars
  <2> QED
    BY <1>1, <1>2, <2>1 DEF TypeOK
<1>5. ASSUME NEW w \in Worker,
             \/ Start(w) \/ Skip(w) \/ Begin(w) \/ Fetch(w)
             \/ \E e \in Event, r \in Reply : Post(w, e, r)
             \/ Finish(w) \/ Raise(w) \/ Crash(w)
      PROVE  wait'[f] <= 0
  <2>1. UNCHANGED rowVars
    BY <1>5 DEF Start, Skip, Begin, Fetch, Post, Finish, Raise, Crash
  <2>2. step[v] = "claim" /\ f \in mine[v]
    BY SMTT(30), <1>1, <1>5 DEF Start, Skip, Begin, Fetch, Post, Finish, Raise,
                      Crash, Forget, passVars, TypeOK
  <2> QED
    BY <1>2, <2>1, <2>2 DEF rowVars
<1>6. ASSUME NEW w \in Worker, Unstick(w) \/ Claim(w)  PROVE wait'[f] <= 0
  <2>1. UNCHANGED <<mine, wait>> /\ step[v] = "claim"
    BY <1>1, <1>6 DEF Unstick, Claim, TypeOK
  <2>2. status[f] = "failed"
    BY <1>1, <1>6, <2>1 DEF Unstick, Claim, TypeOK
  <2> QED
    BY <1>2, <2>1, <2>2
<1>7. ASSUME NEW w \in Worker, Select(w)  PROVE wait'[f] <= 0
  <2>1. PICK S \in Batches(w) : mine' = [mine EXCEPT ![w] = S]
    BY <1>7 DEF Select
  <2>2. UNCHANGED rowVars /\ \E s : step' = [step EXCEPT ![w] = s]
    BY <1>7 DEF Select
  <2>3. CASE v = w
    <3>1. f \in Due(w)
      BY <1>1, <2>1, <2>3 DEF TypeOK, Batches
    <3>2. wait[f] <= -age[w] /\ wait[f] \in Int
      BY <1>1, <3>1 DEF Due, TypeOK
    <3> QED
      BY <1>3, <2>2, <3>2 DEF rowVars
  <2>4. CASE v # w
    BY <1>1, <1>2, <2>1, <2>2, <2>4 DEF TypeOK, rowVars
  <2> QED
    BY <2>3, <2>4
<1>8. ASSUME NEW w \in Worker, NEW e \in Event, NoUrl(w, e)
      PROVE  wait'[f] <= 0
  <2>1. step[v] = "claim" /\ f \in mine[v] /\ status[f] = "failed"
        /\ wait'[f] = wait[f]
    BY <1>1, <1>8 DEF NoUrl, Write, TypeOK
  <2> QED
    BY <1>2, <2>1
<1>9. ASSUME NEW w \in Worker,
             Delivered(w) \/ Refused(w) \/ RetryLater(w) \/ Exhausted(w)
      PROVE  wait'[f] <= 0
  <2>1. step[w] = "posted" /\ EndDelivery(w)
    BY <1>9 DEF Delivered, Refused, RetryLater, Exhausted
  <2>2. step[v] = "claim" /\ v # w /\ f \in mine[v]
    BY <1>1, <2>1 DEF EndDelivery, TypeOK
  <2>3. phase[v] = "in" /\ phase[w] = "in"
    BY <1>1, <2>1, <2>2 DEF PassInv, PassFits
  <2> QED
    BY <2>2, <2>3 DEF OneRunner
<1>10. CASE Tick
  <2>1. UNCHANGED <<status, step, mine>> /\ f \in Event
        /\ wait'[f] = Atleast(wait[f] - 1, -RUN)
    BY <1>1, <1>10 DEF Tick, passVars, TypeOK
  <2>2. wait[f] <= 0 /\ wait[f] \in Int
    BY <1>1, <1>2, <2>1 DEF TypeOK
  <2> QED
    BY <2>1, <2>2 DEF Atleast
<1>11. CASE Configure \/ UNCHANGED vars
  BY <1>2, <1>11 DEF Configure, vars, rowVars, passVars
<1> QED
  BY <1>4, <1>5, <1>6, <1>7, <1>8, <1>9, <1>10, <1>11 DEF Next, Proceed

\* The back-off is kept by the UPDATE that claims, although it looks only at
\* the status: the lease is what keeps the row from failing in between.
THEOREM BackoffRespectedAlways ==
  ASSUME RUN <= STUCK, RUN <= LEASE
  PROVE  Spec => BackoffRespected
<1>1. Init => SelectedHaveWaited
  BY DEF Init, SelectedHaveWaited
<1>2. IInv /\ OneRunner /\ SelectedHaveWaited /\ [Next]_vars
        => SelectedHaveWaited'
  BY SelectedHaveWaitedIsInductive
<1>3. ASSUME IInv, SelectedHaveWaited, [Next]_vars,
             NEW e \in Event, status[e] = "failed", status'[e] = "sending"
      PROVE  wait[e] <= 0
  <2>1. TypeOK
    BY <1>3 DEF IInv
  <2>2. ASSUME NEW w \in Worker, Claim(w)  PROVE wait[e] <= 0
    BY <1>3, <2>1, <2>2 DEF Claim, At, Claimable, SelectedHaveWaited, TypeOK
  <2>3. ASSUME NEW w \in Worker, Unstick(w)  PROVE FALSE
    BY <1>3, <2>1, <2>3 DEF Unstick, TypeOK
  <2>4. ASSUME NEW f \in Event, Enqueue(f) \/ Revive(f)  PROVE FALSE
    BY <1>3, <2>1, <2>4 DEF Enqueue, Revive, TypeOK
  <2>5. ASSUME NEW w \in Worker, NEW f \in Event, NoUrl(w, f)  PROVE FALSE
    BY <1>3, <2>1, <2>5 DEF NoUrl, Write, TypeOK
  <2>6. ASSUME NEW w \in Worker,
               Delivered(w) \/ Refused(w) \/ RetryLater(w) \/ Exhausted(w)
        PROVE  FALSE
    BY <1>3, <2>1, <2>6
       DEF Delivered, Refused, RetryLater, Exhausted, Write, TypeOK
  <2>7. ASSUME UNCHANGED status  PROVE FALSE
    BY <1>3, <2>7
  <2> QED
    BY <1>3, <2>2, <2>3, <2>4, <2>5, <2>6, <2>7
       DEF Next, Proceed, Start, Skip, Begin, Select, Fetch, Post, Finish,
           Raise, Crash, Configure, Tick, vars, rowVars
<1>4. IInv /\ SelectedHaveWaited /\ [Next]_vars
        => [\A e \in Event : status[e] = "failed" /\ status'[e] = "sending"
                               => wait[e] <= 0]_vars
  BY <1>3
<1> QED
  BY <1>1, <1>2, <1>4, IInvAlways, OnePassAtATime, PTL
     DEF Spec, BackoffRespected
=============================================================================
