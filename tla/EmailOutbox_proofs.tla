------------------------- MODULE EmailOutbox_proofs -------------------------
(***************************************************************************)
(* Theorems about the email queue, for any set of passes and mails, any    *)
(* batching, lease and ceilings, and any run no longer than STUCK_MINUTES. *)
(***************************************************************************)
EXTENDS EmailOutbox, JobLease_proofs, FiniteSetTheorems

\* A row that is queued or being sent has attempts left.
ChargeLeft == \A e \in Mail : Open(e) \/ status[e] = "absent" => attempts[e] < MAX

IInv == MailTypeOK /\ MailInv /\ ChargeLeft

\* No step of a pass does to the lease what leases.py does not.
LEMMA StepsOfTheLease == [Next]_vars => [LeaseNext]_leaseVars
BY DEF Next, vars, leaseVars, LeaseNext, Proceed, Enqueue, Cancel, Revive,
       Switch, Start, Misread, Asks, Begin, Skip, Unstick, Room, Admit, Select, Claim, Fetch,
       HoldForCap, Send, EndGroup, MarkSent, MarkFailed, Held, Finish, Raise,
       Crash, Fail, Tick, Midnight

\* A group is made of rows of the pass.
LEMMA GroupsAreMine ==
  ASSUME NEW w \in Worker, NEW group \in Groups(w)
  PROVE  group \subseteq mine[w]
BY DEF Groups

LEMMA InitEstablishesIInv == Init => IInv
<1> SUFFICES ASSUME Init  PROVE IInv
  OBVIOUS
<1> USE LeaseAssumption, MailAssumption
<1>1. LeaseTypeOK
  BY DEF Init, LeaseInit, LeaseTypeOK, LongExpired, Phase
<1>2. Horizon \in Nat
  BY DEF Horizon
<1>3. MailTypeOK
  <2>1. /\ status \in [Mail -> Status] /\ attempts \in [Mail -> 0..MAX]
        /\ wait \in [Mail -> Int] /\ tomorrow \subseteq Mail
        /\ owner \in [Mail -> Worker \cup {NoWorker}]
        /\ claimed \in [Mail -> 0..(STUCK + RUN + 1)]
        /\ days \in [Mail -> 0..2]
    BY DEF Init, Status
  <2>2. stamp \in [Mail -> 0..Horizon] /\ gone \in [Mail -> 0..Horizon]
    BY <1>2 DEF Init
  <2>3. /\ step \in [Worker -> Step] /\ take \in [Worker -> 0..CLAIM]
        /\ mine \in [Worker -> SUBSET Mail] /\ reply \in [Worker -> Reply]
        /\ current \in [Worker -> SUBSET Mail] /\ eve \in [Worker -> 0..1]
    BY DEF Init, Step, Reply
  <2>4. /\ asked \in [Mail -> Nat] /\ copies \in [Mail -> Nat]
        /\ excused \in [Mail -> Nat] /\ missed \in Nat
        /\ faults \in 0..FAULTS /\ revivals \in 0..REVIVALS
    BY DEF Init
  <2>5. stopped \in BOOLEAN
    BY Zenon DEF Init
  <2> QED
    BY <1>1, <2>1, <2>2, <2>3, <2>4, <2>5 DEF MailTypeOK
<1>4. ASSUME NEW w \in Worker  PROVE ClaimFits(w) /\ ReplyFits(w)
  <2>1. /\ phase[w] = "out" /\ step[w] = "idle" /\ mine[w] = {}
        /\ reply[w] = "none" /\ current[w] = {}
    BY DEF Init, LeaseInit
  <2> QED
    BY <2>1 DEF ClaimFits, ReplyFits, Sending
<1>5. ChargeLeft
  BY DEF Init, ChargeLeft
<1> QED
  BY <1>3, <1>4, <1>5 DEF IInv, MailInv

-----------------------------------------------------------------------------
\* What Put and Spent return.
LEMMA PutType ==
  ASSUME MailTypeOK, NEW group
  PROVE  /\ \A x \in Status : Put(status, group, x) \in [Mail -> Status]
         /\ \A x \in Int : Put(wait, group, x) \in [Mail -> Int]
         /\ Put(owner, group, NoWorker) \in [Mail -> Worker \cup {NoWorker}]
         /\ Put(claimed, group, 0) \in [Mail -> 0..(STUCK + RUN + 1)]
         /\ \A x \in 0..Horizon : Put(stamp, group, x) \in [Mail -> 0..Horizon]
         /\ \A x \in 0..Horizon : Put(gone, group, x) \in [Mail -> 0..Horizon]
         /\ \A x \in 0..1 : Put(days, group, x) \in [Mail -> 0..2]
<1>1. ASSUME NEW S, NEW column \in [Mail -> S], NEW x \in S
      PROVE  Put(column, group, x) \in [Mail -> S]
  BY DEF Put
<1>2. 0 \in 0..(STUCK + RUN + 1)
  BY LeaseAssumption, MailAssumption
<1>3. /\ status \in [Mail -> Status] /\ wait \in [Mail -> Int]
      /\ owner \in [Mail -> Worker \cup {NoWorker}]
      /\ claimed \in [Mail -> 0..(STUCK + RUN + 1)]
      /\ stamp \in [Mail -> 0..Horizon] /\ gone \in [Mail -> 0..Horizon]
      /\ days \in [Mail -> 0..2]
  BY DEF MailTypeOK
<1>4. \A x \in Status : Put(status, group, x) \in [Mail -> Status]
  BY <1>1, <1>3
<1>5. \A x \in Int : Put(wait, group, x) \in [Mail -> Int]
  BY <1>1, <1>3
<1>6. Put(owner, group, NoWorker) \in [Mail -> Worker \cup {NoWorker}]
  BY <1>1, <1>3
<1>7. Put(claimed, group, 0) \in [Mail -> 0..(STUCK + RUN + 1)]
  BY <1>1, <1>2, <1>3
<1>8. \A x \in 0..Horizon : /\ Put(stamp, group, x) \in [Mail -> 0..Horizon]
                            /\ Put(gone, group, x) \in [Mail -> 0..Horizon]
  BY <1>1, <1>3
<1>9. \A x \in 0..1 : Put(days, group, x) \in [Mail -> 0..2]
  <2>1. \A x \in 0..1 : x \in 0..2
    OBVIOUS
  <2> QED
    BY <1>1, <1>3, <2>1
<1> QED
  BY <1>4, <1>5, <1>6, <1>7, <1>8, <1>9

LEMMA SpentType ==
  ASSUME IInv, NEW w \in Worker, At(w, "posted")
  PROVE  Spent(current[w]) \in [Mail -> 0..MAX]
<1>1. current[w] \subseteq mine[w]
  BY GroupsAreMine DEF IInv, MailInv, ReplyFits, At
<1>2. \A e \in current[w] : status[e] = "sending"
  BY <1>1 DEF IInv, MailInv, ClaimFits, At, Sending
<1>3. \A e \in Mail : e \in current[w] => attempts[e] + 1 \in 0..MAX
  <2>1. \A e \in Mail : attempts[e] \in 0..MAX /\ (Open(e) => attempts[e] < MAX)
    BY DEF IInv, MailTypeOK, ChargeLeft
  <2> QED
    BY <1>2, <2>1, MailAssumption DEF Open
<1> QED
  BY SMTT(30), <1>3 DEF Spent, IInv, MailTypeOK

\* Types, one action after the other.
LEMMA TypesAreKept ==
  ASSUME IInv, [Next]_vars
  PROVE  MailTypeOK'
<1> USE LeaseAssumption, MailAssumption DEF Status, Step, Reply
<1>0. LeaseTypeOK'
  BY LeaseTypeInductive, StepsOfTheLease DEF IInv, MailTypeOK
<1>1. MailTypeOK /\ MailInv /\ ChargeLeft
  BY DEF IInv
<1>2. Horizon \in Nat /\ Horizon' = Horizon
  BY DEF Horizon
<1>3. \A w \in Worker : age[w] \in 0..RUN /\ AtMost(age[w], Horizon) \in 0..Horizon
  BY <1>1, <1>2 DEF MailTypeOK, LeaseTypeOK, AtMost
<1>4. ASSUME NEW e \in Mail, Enqueue(e) \/ Cancel(e)  PROVE MailTypeOK'
  <2>0. /\ status \in [Mail -> Status] /\ wait \in [Mail -> Int]
        /\ tomorrow \subseteq Mail
    BY <1>1 DEF MailTypeOK
  <2>1. status' \in [Mail -> Status] /\ wait' \in [Mail -> Int]
        /\ tomorrow' \subseteq Mail
    <3>1. CASE Enqueue(e)
      BY <2>0, <3>1 DEF Enqueue
    <3>2. CASE Cancel(e)
      BY <2>0, <3>2 DEF Cancel
    <3> QED
      BY <1>4, <3>1, <3>2
  <2>2. UNCHANGED <<attempts, owner, claimed, stamp, days, stopped, passVars,
                    historyVars, boundVars>>
    BY <1>4 DEF Enqueue, Cancel
  <2> QED
    BY <1>0, <1>1, <1>2, <2>1, <2>2 DEF MailTypeOK, passVars, historyVars,
                                        boundVars
<1>5. ASSUME NEW e \in Mail, Revive(e)  PROVE MailTypeOK'
  <2>1. revivals' \in 0..REVIVALS
    BY <1>1, <1>5 DEF MailTypeOK, Revive
  <2> QED
    BY SMTT(30), <1>0, <1>1, <1>2, <1>5, <2>1 DEF MailTypeOK, Revive, passVars
<1>6. CASE Switch
  <2>1. stopped' \in BOOLEAN
    BY <1>6, Zenon DEF Switch
  <2> QED
    BY <1>0, <1>1, <1>2, <1>6, <2>1 DEF MailTypeOK, Switch, rowVars, passVars,
                                        historyVars, boundVars
<1>7. ASSUME NEW w \in Worker, Start(w) \/ Misread(w) \/ Skip(w)  PROVE MailTypeOK'
  <2>1. /\ UNCHANGED <<rowVars, stopped, step, take, mine, current, reply,
                       historyVars, revivals>>
        /\ eve' = [eve EXCEPT ![w] = 0]
        /\ faults' = faults \/ Fail(1)
    BY <1>7 DEF Start, Misread, Asks, Skip, boundVars
  <2>2. faults' \in 0..FAULTS
    BY <1>1, <2>1 DEF Fail, MailTypeOK
  <2> QED
    BY <1>0, <1>1, <1>2, <2>1, <2>2 DEF MailTypeOK, rowVars, historyVars
<1>8. ASSUME NEW w \in Worker, Begin(w)  PROVE MailTypeOK'
  BY <1>0, <1>1, <1>2, <1>8 DEF MailTypeOK, Begin, Go, rowVars, historyVars,
                                boundVars
<1>9. ASSUME NEW w \in Worker, Unstick(w)  PROVE MailTypeOK'
  BY SMTT(30), <1>0, <1>1, <1>2, <1>9 DEF MailTypeOK, Unstick, Go, historyVars,
                                         boundVars
<1>10. ASSUME NEW w \in Worker, Room(w)  PROVE MailTypeOK'
  <2>1. ASSUME NEW n \in Int, Admit(w, n)
        PROVE  take' \in [Worker -> 0..CLAIM] /\ step' \in [Worker -> Step]
    <3>1. take \in [Worker -> 0..CLAIM] /\ step \in [Worker -> Step]
      BY <1>1 DEF MailTypeOK
    <3>2. RATE # 0 /\ ~(n <= 0) => AtMost(CLAIM, n) \in 0..CLAIM
      BY DEF AtMost
    <3>3. step' \in [Worker -> Step]
      BY <2>1, <3>1 DEF Admit, Go
    <3>4. take' \in [Worker -> 0..CLAIM]
      <4>1. CASE RATE # 0 /\ n <= 0
        BY <2>1, <3>1, <4>1 DEF Admit
      <4>2. CASE ~(RATE # 0 /\ n <= 0)
        <5>1. PICK x \in 0..CLAIM : take' = [take EXCEPT ![w] = x]
          BY <2>1, <3>2, <4>2 DEF Admit
        <5> QED
          BY <3>1, <5>1
      <4> QED
        BY <4>1, <4>2
    <3> QED
      BY <3>3, <3>4
  <2>2. PICK n \in Int : Admit(w, n)
    <3>1. IsFiniteSet(SentLately(w))
      BY FS_Subset DEF SentLately
    <3>2. Cardinality(SentLately(w)) \in Nat
      BY <3>1, FS_CardinalityType
    <3>3. RATE \in Int /\ RATE - Cardinality(SentLately(w)) \in Int
      BY <3>2
    <3> QED
      BY <1>10, <3>3 DEF Room
  <2>3. /\ missed' \in Nat /\ faults' \in 0..FAULTS
        /\ UNCHANGED <<rowVars, stopped, mine, current, reply, eve, asked, copies,
                       excused, gone, revivals>>
    BY <1>1, <1>10 DEF Room, Fail, MailTypeOK
  <2> QED
    BY <1>0, <1>1, <1>2, <2>1, <2>2, <2>3 DEF MailTypeOK, rowVars
<1>11. ASSUME NEW w \in Worker, Select(w)  PROVE MailTypeOK'
  <2>1. PICK S \in Batches(w) : mine' = [mine EXCEPT ![w] = S]
    BY <1>11 DEF Select
  <2>2. S \in SUBSET Mail
    BY <2>1 DEF Batches, Due
  <2> QED
    BY <1>0, <1>1, <1>2, <1>11, <2>1, <2>2
       DEF MailTypeOK, Select, Go, rowVars, historyVars, boundVars
<1>12. ASSUME NEW w \in Worker, Claim(w)  PROVE MailTypeOK'
  <2>1. /\ status' \in [Mail -> Status]
        /\ owner' \in [Mail -> Worker \cup {NoWorker}]
        /\ claimed' \in [Mail -> 0..(STUCK + RUN + 1)]
        /\ step' \in [Worker -> Step]
    BY SMTT(30), <1>1, <1>3, <1>12 DEF MailTypeOK, Claim, Go
  <2> QED
    BY <1>0, <1>1, <1>2, <1>12, <2>1
       DEF MailTypeOK, Claim, historyVars, boundVars
<1>13. ASSUME NEW w \in Worker, Fetch(w)  PROVE MailTypeOK'
  BY <1>0, <1>1, <1>2, <1>13 DEF MailTypeOK, Fetch, Go, rowVars, historyVars,
                                 boundVars
<1>14. ASSUME NEW w \in Worker, NEW group \in Groups(w), HoldForCap(w, group)
       PROVE  MailTypeOK'
  <2>1. group \subseteq Mail
    BY <1>1, GroupsAreMine DEF MailTypeOK
  <2>2. /\ status' \in [Mail -> Status] /\ wait' \in [Mail -> Int]
        /\ owner' \in [Mail -> Worker \cup {NoWorker}]
        /\ claimed' \in [Mail -> 0..(STUCK + RUN + 1)]
    BY <1>1, <1>14 DEF HoldForCap, Put, MailTypeOK
  <2>3. tomorrow' \subseteq Mail /\ mine' \in [Worker -> SUBSET Mail]
    BY <1>1, <1>14, <2>1 DEF HoldForCap, MailTypeOK
  <2> QED
    BY <1>0, <1>1, <1>2, <1>14, <2>2, <2>3
       DEF MailTypeOK, HoldForCap, historyVars, boundVars
<1>15. ASSUME NEW w \in Worker, NEW group \in Groups(w), NEW r \in Reply,
              Send(w, group, r)
       PROVE  MailTypeOK'
  <2>1. group \subseteq Mail
    BY <1>1, GroupsAreMine DEF MailTypeOK
  <2>2. AtMost(0, Horizon) \in 0..Horizon
    BY <1>2 DEF AtMost
  <2>3. gone' \in [Mail -> 0..Horizon]
    <3>1. gone' \in {gone, Put(gone, group, AtMost(0, Horizon))}
      BY <1>15 DEF Send
    <3>2. gone \in [Mail -> 0..Horizon]
      BY <1>1 DEF MailTypeOK
    <3>3. Put(gone, group, AtMost(0, Horizon)) \in [Mail -> 0..Horizon]
      BY <1>1, <2>2, PutType
    <3> QED
      BY <3>1, <3>2, <3>3
  <2>4. /\ asked' \in [Mail -> Nat] /\ copies' \in [Mail -> Nat]
        /\ excused' \in [Mail -> Nat] /\ faults' \in 0..FAULTS
        /\ missed' \in Nat
    <3> DEFINE more(h) == [e \in Mail |-> IF e \in group THEN h[e] + 1 ELSE h[e]]
    <3>1. asked' \in [Mail -> Nat]
      <4>1. asked \in [Mail -> Nat]
        BY <1>1 DEF MailTypeOK
      <4>2. asked' = [e \in Mail |-> IF e \in group /\ r # "held"
                                    THEN asked[e] + 1 ELSE asked[e]]
        BY <1>15 DEF Send
      <4> QED
        BY <4>1, <4>2
    <3>2. copies' \in {copies, more(copies)} /\ excused' \in {excused, more(excused)}
      <4>0. copies \in [Mail -> Nat] /\ excused \in [Mail -> Nat]
        BY <1>1 DEF MailTypeOK
      <4>1. CASE UNCHANGED <<copies, excused, gone>>
        BY <4>1
      <4>2. CASE r = "lost" /\ ~UNCHANGED <<copies, excused, gone>>
        BY <1>15, <4>2 DEF Send
      <4>3. CASE r = "ok"
        <5>1. excused' = [e \in Mail |-> excused[e]]
          BY <1>15, <4>3 DEF Send
        <5> QED
          BY <1>15, <4>0, <4>3, <5>1 DEF Send
      <4> QED
        BY <1>15, <4>1, <4>2, <4>3 DEF Send
    <3>3. faults' \in 0..FAULTS /\ missed' \in Nat
      <4>1. PICK first \in group : /\ missed' = missed + Passed(w, first)
                                  /\ Fail(Passed(w, first) + Unread(r) + Unheard(r))
        BY <1>15 DEF Send
      <4>2. Passed(w, first) \in 0..1 /\ Unread(r) \in 0..1 /\ Unheard(r) \in 0..1
        BY DEF Passed, Unread, Unheard
      <4> QED
        BY SMTT(60), <1>1, <4>1, <4>2 DEF MailTypeOK, Fail
    <3>4. more(copies) \in [Mail -> Nat] /\ more(excused) \in [Mail -> Nat]
      <4>1. copies \in [Mail -> Nat] /\ excused \in [Mail -> Nat]
        BY <1>1 DEF MailTypeOK
      <4> QED
        BY <4>1
    <3> HIDE DEF more
    <3> QED
      BY <1>1, <3>1, <3>2, <3>3, <3>4 DEF MailTypeOK
  <2>5. /\ step' \in [Worker -> Step] /\ current' \in [Worker -> SUBSET Mail]
        /\ reply' \in [Worker -> Reply]
        /\ UNCHANGED <<rowVars, stopped, take, mine, eve, revivals>>
    BY <1>1, <1>15, <2>1 DEF Send, Go, MailTypeOK
  <2> QED
    BY <1>0, <1>1, <1>2, <2>3, <2>4, <2>5 DEF MailTypeOK, rowVars
<1>16. ASSUME NEW w \in Worker, MarkSent(w) \/ MarkFailed(w) \/ Held(w)
       PROVE  MailTypeOK'
  <2>1. At(w, "posted") /\ EndGroup(w)
    BY <1>16 DEF MarkSent, MarkFailed, Held
  <2>2. Spent(current[w]) \in [Mail -> 0..MAX]
    BY <2>1, SpentType
  <2>3. status' \in [Mail -> Status]
    <3>1. \A c \in Status : Put(status, current[w], c) \in [Mail -> Status]
      BY <1>1, PutType
    <3>2. MarkFailed(w) => status' \in [Mail -> Status]
      BY <1>1 DEF MarkFailed, MailTypeOK
    <3> QED
      BY <1>16, <3>1, <3>2 DEF MarkSent, Held
  <2>4. /\ attempts' \in {attempts, Spent(current[w])}
        /\ owner' = Put(owner, current[w], NoWorker)
        /\ claimed' = Put(claimed, current[w], 0)
        /\ tomorrow' = tomorrow
    BY <1>16 DEF MarkSent, MarkFailed, Held
  <2>5. stamp' \in [Mail -> 0..Horizon] /\ days' \in [Mail -> 0..2]
    <3>1. /\ stamp' \in {stamp, Put(stamp, current[w], AtMost(age[w], Horizon))}
          /\ days' \in {days, Put(days, current[w], eve[w])}
      BY <1>16 DEF MarkSent, MarkFailed, Held
    <3>2. /\ eve[w] \in 0..1 /\ stamp \in [Mail -> 0..Horizon]
          /\ days \in [Mail -> 0..2]
      BY <1>1 DEF MailTypeOK
    <3>3. /\ Put(stamp, current[w], AtMost(age[w], Horizon)) \in [Mail -> 0..Horizon]
          /\ Put(days, current[w], eve[w]) \in [Mail -> 0..2]
      BY <1>1, <1>3, <3>2, PutType
    <3> QED
      BY <3>1, <3>2, <3>3
  <2>6. wait' \in [Mail -> Int]
    <3>1. MarkSent(w) => wait' = wait
      BY DEF MarkSent
    <3>2. Held(w) => wait' \in [Mail -> Int]
      <4>1. 1 - age[w] \in Int
        BY <1>3
      <4> QED
        BY <1>1, <4>1, PutType DEF Held
    <3>3. ASSUME MarkFailed(w)  PROVE wait' \in [Mail -> Int]
      <4>1. ASSUME NEW e \in Mail, ~Over(w, e)
            PROVE  Backoff[attempts[e] + 1] - age[w] \in Int
        <5>1. attempts[e] \in 0..MAX /\ ~(attempts[e] + 1 >= MAX)
          BY <1>1, <4>1 DEF Over, MailTypeOK
        <5>2. attempts[e] + 1 \in 1..MAX
          BY <5>1
        <5>3. Backoff[attempts[e] + 1] \in Nat
          BY <5>2
        <5> QED
          BY <1>3, <5>3
      <4> QED
        BY <1>1, <3>3, <4>1 DEF MarkFailed, MailTypeOK
    <3> QED
      BY <1>1, <1>16, <3>1, <3>2, <3>3 DEF MailTypeOK
  <2>7. /\ owner' \in [Mail -> Worker \cup {NoWorker}]
        /\ claimed' \in [Mail -> 0..(STUCK + RUN + 1)]
    BY <1>1, <2>4, PutType
  <2>8. /\ step' \in [Worker -> Step] /\ mine' \in [Worker -> SUBSET Mail]
        /\ current' \in [Worker -> SUBSET Mail] /\ reply' \in [Worker -> Reply]
        /\ UNCHANGED <<stopped, take, eve, historyVars, boundVars>>
    BY <1>1, <2>1 DEF EndGroup, Go, MailTypeOK
  <2> QED
    BY <1>0, <1>1, <1>2, <2>2, <2>3, <2>4, <2>5, <2>6, <2>7, <2>8
       DEF MailTypeOK, historyVars, boundVars
<1>17. ASSUME NEW w \in Worker, Finish(w) \/ Raise(w) \/ Crash(w)
       PROVE  MailTypeOK'
  <2>1. Forget(w)
    BY <1>17 DEF Finish, Raise, Crash
  <2>2. excused' \in [Mail -> Nat] /\ faults' \in 0..FAULTS
    <3>1. CASE Finish(w)
      BY <1>1, <3>1 DEF Finish, MailTypeOK
    <3>2. ASSUME Excuse(w)  PROVE excused' \in [Mail -> Nat]
      BY <1>1, <3>2 DEF Excuse, MailTypeOK
    <3>3. CASE Raise(w) \/ Crash(w)
      <4>1. Excuse(w) /\ Fail(1)
        BY <3>3 DEF Raise, Crash
      <4>2. faults' \in 0..FAULTS
        BY <1>1, <4>1 DEF MailTypeOK, Fail
      <4> QED
        BY <3>2, <4>1, <4>2
    <3> QED
      BY <1>17, <3>1, <3>3
  <2>3. /\ step' \in [Worker -> Step] /\ mine' \in [Worker -> SUBSET Mail]
        /\ current' \in [Worker -> SUBSET Mail] /\ reply' \in [Worker -> Reply]
        /\ take' \in [Worker -> 0..CLAIM] /\ eve' \in [Worker -> 0..1]
    BY <1>1, <2>1 DEF Forget, Go, MailTypeOK
  <2>4. UNCHANGED <<rowVars, stopped, asked, copies, gone, missed, revivals>>
    BY <2>1 DEF Forget
  <2> QED
    BY <1>0, <1>1, <1>2, <2>2, <2>3, <2>4 DEF MailTypeOK, rowVars
<1>18. CASE Tick
  <2>1. wait' \in [Mail -> Int] /\ claimed' \in [Mail -> 0..(STUCK + RUN + 1)]
    <3>1. \A e \in Mail : Atleast(wait[e] - 1, -RUN) \in Int
      BY <1>1 DEF Atleast, MailTypeOK
    <3>2. \A e \in Mail : claimed[e] <= STUCK + RUN
             => claimed[e] + 1 \in 0..(STUCK + RUN + 1)
      BY SMTT(60), <1>1 DEF MailTypeOK
    <3>3. \A e \in Mail : claimed[e] \in 0..(STUCK + RUN + 1)
      BY <1>1 DEF MailTypeOK
    <3>4. wait' \in [Mail -> Int]
      BY <1>18, <3>1 DEF Tick
    <3>5. claimed' \in [Mail -> 0..(STUCK + RUN + 1)]
      BY <1>18, <3>2, <3>3 DEF Tick
    <3> QED
      BY <3>4, <3>5
  <2>2. stamp' \in [Mail -> 0..Horizon] /\ gone' \in [Mail -> 0..Horizon]
    <3>1. \A n \in 0..Horizon : AtMost(n + 1, Horizon) \in 0..Horizon
      BY <1>2 DEF AtMost
    <3>2. \A e \in Mail : stamp[e] \in 0..Horizon /\ gone[e] \in 0..Horizon
      BY <1>1 DEF MailTypeOK
    <3> QED
      BY <1>2, <1>18, <3>1, <3>2 DEF Tick
  <2> QED
    BY <1>0, <1>1, <1>2, <1>18, <2>1, <2>2
       DEF MailTypeOK, Tick, passVars, boundVars
<1>19. CASE Midnight
  <2>1. days' \in [Mail -> 0..2] /\ eve' \in [Worker -> 0..1]
    <3>1. \A n \in 0..2 : AtMost(n + 1, 2) \in 0..2
      BY DEF AtMost
    <3>2. \A e \in Mail : days[e] \in 0..2
      BY <1>1 DEF MailTypeOK
    <3>4. days' \in [Mail -> 0..2]
      BY <1>19, <3>1, <3>2 DEF Midnight
    <3>3. eve' \in [Worker -> 0..1]
      BY <1>19 DEF Midnight
    <3> QED
      BY <3>3, <3>4
  <2>2. wait' \in [Mail -> Int] /\ tomorrow' = {}
    BY <1>1, <1>19 DEF Midnight, Put, MailTypeOK
  <2> QED
    BY <1>0, <1>1, <1>2, <1>19, <2>1, <2>2
       DEF MailTypeOK, Midnight, historyVars, boundVars
<1>20. CASE UNCHANGED vars
  BY <1>0, <1>1, <1>2, <1>20
     DEF MailTypeOK, vars, rowVars, passVars, historyVars, boundVars
<1> QED
  BY <1>4, <1>5, <1>6, <1>7, <1>8, <1>9, <1>10, <1>11, <1>12, <1>13, <1>14,
     <1>15, <1>16, <1>17, <1>18, <1>19, <1>20 DEF Next, Proceed
-----------------------------------------------------------------------------
\* A claim of a live pass is as old as the pass, so at most RUN <= STUCK: no
\* other pass takes it for abandoned, and while it is `sending` none claims it.
LEMMA ClaimsAreKept ==
  ASSUME RUN <= STUCK, IInv, MailTypeOK', [Next]_vars, NEW v \in Worker
  PROVE  ClaimFits(v)'
<1> USE LeaseAssumption, MailAssumption DEF At, Go, Sending
<1>1. MailTypeOK /\ ClaimFits(v) /\ mine[v] \subseteq Mail
  BY DEF IInv, MailInv, MailTypeOK
<1>2. \A w \in Worker : age[w] \in 0..RUN /\ phase[w] \in Phase
  BY <1>1 DEF MailTypeOK, LeaseTypeOK
<1>0. /\ status \in [Mail -> Status] /\ owner \in [Mail -> Worker \cup {NoWorker}]
      /\ claimed \in [Mail -> 0..(STUCK + RUN + 1)]
      /\ step \in [Worker -> Step] /\ mine \in [Worker -> SUBSET Mail]
      /\ phase \in [Worker -> Phase]
  BY <1>1 DEF MailTypeOK, LeaseTypeOK
<1>3. ASSUME NEW e \in Mail, Enqueue(e) \/ Cancel(e) \/ Revive(e)
      PROVE  ClaimFits(v)'
  <2>1. /\ UNCHANGED <<leaseVars, owner, claimed, step, mine>>
        /\ status[e] # "sending"
        /\ \E s \in {"queued", "cancelled"} : status' = [status EXCEPT ![e] = s]
    BY <1>3 DEF Enqueue, Cancel, Revive, passVars
  <2> QED
    BY <1>0, <1>1, <2>1 DEF ClaimFits, leaseVars
<1>4. CASE Switch
  BY <1>1, <1>4 DEF ClaimFits, Switch, leaseVars, passVars, rowVars
<1>5. ASSUME NEW w \in Worker, Start(w) \/ Misread(w) \/ Skip(w)  PROVE ClaimFits(v)'
  <2>1. /\ UNCHANGED <<rowVars, step, mine>>
        /\ phase[w] # "in" /\ phase'[w] # "in"
        /\ v # w => phase'[v] = phase[v] /\ age'[v] = age[v]
    BY SMTT(30), <1>1, <1>5 DEF Start, Misread, Asks, Skip, Ask, Refuse, MailTypeOK, LeaseTypeOK
  <2> QED
    BY <1>1, <2>1 DEF ClaimFits, rowVars
<1>6. ASSUME NEW w \in Worker, Begin(w)  PROVE ClaimFits(v)'
  <2>1. /\ UNCHANGED <<rowVars, mine, age>>
        /\ phase[w] = "asking" /\ phase'[w] = "in" /\ step'[w] = "unstick"
        /\ v # w => phase'[v] = phase[v] /\ step'[v] = step[v]
    BY <1>0, <1>6 DEF Begin, Take
  <2>2. CASE v = w
    BY <1>1, <2>1, <2>2 DEF ClaimFits
  <2>3. CASE v # w
    BY <1>1, <2>1, <2>3 DEF ClaimFits, rowVars
  <2> QED
    BY <2>2, <2>3
<1>7. ASSUME NEW w \in Worker, Unstick(w)  PROVE ClaimFits(v)'
  <2>1. \A e \in Mail : claimed[e] = age[v] => ~Stuck(w, e)
    BY <1>1, <1>2 DEF Stuck
  <2> QED
    BY <1>0, <1>1, <1>7, <2>1 DEF ClaimFits, Unstick, leaseVars, Step
<1>8. ASSUME NEW w \in Worker, Room(w)  PROVE ClaimFits(v)'
  <2>1. /\ UNCHANGED <<leaseVars, rowVars, mine>> /\ step[w] = "room"
        /\ \E s \in {"deliver", "select"} : step' = [step EXCEPT ![w] = s]
    BY <1>8 DEF Room, Admit
  <2> QED
    BY <1>0, <1>1, <2>1 DEF ClaimFits, leaseVars, rowVars, Step
<1>9. ASSUME NEW w \in Worker, Select(w)  PROVE ClaimFits(v)'
  <2>1. PICK S \in Batches(w) : mine' = [mine EXCEPT ![w] = S]
    BY <1>9 DEF Select
  <2>2. \A e \in S : e \in Mail /\ status[e] # "sending"
    BY <2>1 DEF Batches, Due
  <2>3. Due(w) = {} => S = {}
    BY <2>1 DEF Batches
  <2>4. /\ UNCHANGED <<leaseVars, rowVars>> /\ step[w] = "select"
        /\ step' = [step EXCEPT ![w] =
                       IF Due(w) = {} THEN "deliver" ELSE "claim"]
    BY <1>9 DEF Select
  <2>5. CASE v = w
    BY <1>0, <1>1, <2>1, <2>2, <2>3, <2>4, <2>5 DEF ClaimFits, leaseVars, rowVars
  <2>6. CASE v # w
    BY <1>0, <1>1, <2>1, <2>4, <2>6 DEF ClaimFits, leaseVars, rowVars
  <2> QED
    BY <2>5, <2>6
<1>10. ASSUME NEW w \in Worker, Claim(w)  PROVE ClaimFits(v)'
  BY SMTT(30), <1>0, <1>1, <1>10 DEF ClaimFits, Claim, Claimable, leaseVars, Step
<1>11. ASSUME NEW w \in Worker, Fetch(w)  PROVE ClaimFits(v)'
  BY <1>0, <1>1, <1>11 DEF ClaimFits, Fetch, leaseVars, rowVars, Step
<1>12. ASSUME NEW w \in Worker, NEW group \in Groups(w), NEW r \in Reply,
              Send(w, group, r)
       PROVE  ClaimFits(v)'
  <2>1. /\ UNCHANGED <<leaseVars, rowVars, mine>> /\ step[w] = "deliver"
        /\ step' = [step EXCEPT ![w] = "posted"]
    BY <1>12 DEF Send
  <2> QED
    BY <1>0, <1>1, <2>1 DEF ClaimFits, leaseVars, rowVars, Step
<1>13. ASSUME NEW w \in Worker, NEW group \in SUBSET mine[w],
              UNCHANGED leaseVars, Sending(w),
              step' = [step EXCEPT ![w] = "deliver"],
              mine' = [mine EXCEPT ![w] = @ \ group],
              owner' = Put(owner, group, NoWorker),
              \A e \in Mail \ group : /\ status'[e] = status[e]
                                      /\ claimed'[e] = claimed[e]
       PROVE  ClaimFits(v)'
  <2>1. \A e \in group : e \in Mail /\ owner[e] = w /\ status[e] = "sending"
    BY <1>0, <1>13 DEF IInv, MailInv, ClaimFits
  <2>2. \A e \in Mail \ group : owner'[e] = owner[e]
    BY <1>13 DEF Put
  <2>3. \A e \in group : owner'[e] = NoWorker
    BY <1>13, <2>1 DEF Put
  <2>4. CASE v = w
    BY <1>0, <1>1, <1>13, <2>1, <2>2, <2>4 DEF ClaimFits, leaseVars
  <2>5. CASE v # w
    <3>1. step'[v] = step[v] /\ mine'[v] = mine[v]
      BY <1>0, <1>13, <2>5
    <3>2. Sending(v) => mine[v] \cap group = {}
      BY <1>1, <2>1, <2>5 DEF ClaimFits
    <3>3. \A e \in mine[v] :
             IF e \in group
             THEN owner'[e] # v /\ ~Sending(v)
             ELSE /\ status'[e] = status[e] /\ owner'[e] = owner[e]
                  /\ claimed'[e] = claimed[e]
      BY <1>1, <1>13, <2>2, <2>3, <3>2
    <3>4. phase'[v] = phase[v] /\ age'[v] = age[v]
      BY <1>13 DEF leaseVars
    <3> QED
      BY <1>1, <3>1, <3>3, <3>4 DEF ClaimFits
  <2> QED
    BY <2>4, <2>5
<1>14. ASSUME NEW w \in Worker, NEW group \in Groups(w), HoldForCap(w, group)
       PROVE  ClaimFits(v)'
  <2>1. group \subseteq mine[w] /\ step[w] = "deliver"
    BY <1>14, GroupsAreMine DEF HoldForCap
  <2>2. step' = [step EXCEPT ![w] = "deliver"]
    BY <1>0, <1>14, <2>1 DEF HoldForCap
  <2>3. \A e \in Mail \ group : status'[e] = status[e] /\ claimed'[e] = claimed[e]
    BY <1>14 DEF HoldForCap, Put
  <2> QED
    BY <1>13, <1>14, <2>1, <2>2, <2>3 DEF HoldForCap
<1>15. ASSUME NEW w \in Worker, MarkSent(w) \/ MarkFailed(w) \/ Held(w)
       PROVE  ClaimFits(v)'
  <2>1. current[w] \subseteq mine[w] /\ step[w] = "posted"
    BY <1>15, GroupsAreMine DEF MarkSent, MarkFailed, Held, IInv, MailInv, ReplyFits
  <2>2. EndGroup(w) /\ owner' = Put(owner, current[w], NoWorker)
    BY <1>15 DEF MarkSent, MarkFailed, Held
  <2>3. \A e \in Mail \ current[w] : status'[e] = status[e] /\ claimed'[e] = claimed[e]
    BY <1>15 DEF MarkSent, MarkFailed, Held, Put
  <2> QED
    BY <1>13, <2>1, <2>2, <2>3 DEF EndGroup
<1>16. ASSUME NEW w \in Worker, Finish(w) \/ Raise(w) \/ Crash(w)
       PROVE  ClaimFits(v)'
  <2>1. Forget(w) /\ (Release(w) \/ Abandon(w))
    BY <1>16 DEF Finish, Raise, Crash
  <2>2. /\ phase' = [phase EXCEPT ![w] = "out"]
        /\ age' = [age EXCEPT ![w] = 0]
    BY <2>1 DEF Release, Abandon
  <2> QED
    BY <1>1, <2>1, <2>2 DEF ClaimFits, MailTypeOK, LeaseTypeOK, Forget, rowVars, Step
<1>17. CASE Tick
  <2>1. UNCHANGED <<phase, status, owner, step, mine>>
    BY <1>17 DEF Tick, LeaseTick, passVars
  <2>2. phase[v] = "in" => age'[v] = age[v] + 1
    BY <1>17 DEF Tick, LeaseTick
  <2>3. \A e \in Mail : status[e] = "sending" /\ claimed[e] <= RUN
                            => claimed'[e] = claimed[e] + 1
    <3> SUFFICES ASSUME NEW e \in Mail, status[e] = "sending", claimed[e] <= RUN
                 PROVE  claimed'[e] = claimed[e] + 1
      OBVIOUS
    <3>1. claimed[e] \in Nat /\ claimed[e] <= STUCK + RUN
      BY SMTT(30), <1>0
    <3> QED
      BY <1>17, <3>1 DEF Tick
  <2>4. step[v] # "idle" => phase[v] = "in"
    BY <1>1 DEF ClaimFits
  <2> QED
    BY <1>1, <1>2, <2>1, <2>2, <2>3, <2>4 DEF ClaimFits
<1>18. CASE Midnight \/ UNCHANGED vars
  BY <1>1, <1>18 DEF ClaimFits, Midnight, vars, leaseVars, rowVars, passVars
<1> QED
  BY <1>3, <1>4, <1>5, <1>6, <1>7, <1>8, <1>9, <1>10, <1>11, <1>12, <1>14,
     <1>15, <1>16, <1>17, <1>18 DEF Next, Proceed

\* A pass on the wire holds one group of its own rows until it writes the
\* outcome, and no row is queued or sent with its last attempt spent.
LEMMA GroupsStay ==
  ASSUME NEW v \in Worker, mine'[v] = mine[v]
  PROVE  Groups(v)' = Groups(v)
BY DEF Groups

LEMMA RepliesAreKept ==
  ASSUME IInv, MailTypeOK', [Next]_vars, NEW v \in Worker
  PROVE  ReplyFits(v)'
<1> USE DEF At, Go
<1>1. MailTypeOK /\ ReplyFits(v)
  BY DEF IInv, MailInv
<1>0. /\ step \in [Worker -> Step] /\ mine \in [Worker -> SUBSET Mail]
      /\ current \in [Worker -> SUBSET Mail] /\ reply \in [Worker -> Reply]
  BY <1>1 DEF MailTypeOK
<1>2. ASSUME UNCHANGED <<current, reply>>, step[v] # "posted", step'[v] # "posted"
      PROVE  ReplyFits(v)'
  BY <1>1, <1>2 DEF ReplyFits
<1>3. ASSUME UNCHANGED <<current, reply>>, step'[v] = step[v], mine'[v] = mine[v]
      PROVE  ReplyFits(v)'
  BY <1>1, <1>3, GroupsStay DEF ReplyFits
<1>4. ASSUME NEW e \in Mail, Enqueue(e) \/ Cancel(e) \/ Revive(e)
      PROVE  ReplyFits(v)'
  BY <1>3, <1>4 DEF Enqueue, Cancel, Revive, passVars
<1>5. ASSUME NEW w \in Worker, Start(w) \/ Misread(w) \/ Skip(w)  PROVE ReplyFits(v)'
  BY <1>3, <1>5 DEF Start, Misread, Asks, Skip
<1>6. ASSUME NEW w \in Worker,
             Unstick(w) \/ Room(w) \/ Select(w) \/ Claim(w) \/ Fetch(w)
      PROVE  ReplyFits(v)'
  <2>1. /\ UNCHANGED <<current, reply>> /\ step[w] # "posted"
        /\ step'[w] # "posted"
    BY <1>0, <1>6 DEF Unstick, Room, Admit, Select, Claim, Fetch
  <2>2. v # w => step'[v] = step[v] /\ mine'[v] = mine[v]
    BY <1>0, <1>6 DEF Unstick, Room, Admit, Select, Claim, Fetch
  <2> QED
    BY <1>2, <1>3, <2>1, <2>2
<1>7. ASSUME NEW w \in Worker, Begin(w)  PROVE ReplyFits(v)'
  <2>1. /\ UNCHANGED <<current, reply, mine>> /\ step'[w] = "unstick"
        /\ phase[w] = "asking"
    BY <1>0, <1>7 DEF Begin, Take
  <2>2. step[w] = "idle"
    BY <2>1 DEF IInv, MailInv, ClaimFits
  <2>3. v # w => step'[v] = step[v]
    BY <1>0, <1>7 DEF Begin
  <2> QED
    BY <1>2, <1>3, <2>1, <2>2, <2>3
<1>8. ASSUME NEW w \in Worker, NEW group \in Groups(w), HoldForCap(w, group)
      PROVE  ReplyFits(v)'
  <2>1. /\ UNCHANGED <<current, reply, step>> /\ step[w] = "deliver"
        /\ v # w => mine'[v] = mine[v]
    BY <1>0, <1>8 DEF HoldForCap
  <2> QED
    BY <1>2, <1>3, <2>1
<1>9. ASSUME NEW w \in Worker, NEW group \in Groups(w),
             NEW r \in Reply \ {"none"}, Send(w, group, r)
      PROVE  ReplyFits(v)'
  <2>1. /\ UNCHANGED mine /\ step' = [step EXCEPT ![w] = "posted"]
        /\ current' = [current EXCEPT ![w] = group]
        /\ reply' = [reply EXCEPT ![w] = r]
    BY <1>9 DEF Send
  <2>2. Groups(v)' = Groups(v)
    BY <2>1, GroupsStay
  <2> QED
    BY <1>0, <1>1, <2>1, <2>2 DEF ReplyFits
<1>10. ASSUME NEW w \in Worker,
              MarkSent(w) \/ MarkFailed(w) \/ Held(w)
              \/ Finish(w) \/ Raise(w) \/ Crash(w)
       PROVE  ReplyFits(v)'
  <2>1. /\ \E s \in {"deliver", "idle"} : step' = [step EXCEPT ![w] = s]
        /\ current' = [current EXCEPT ![w] = {}]
        /\ reply' = [reply EXCEPT ![w] = "none"]
        /\ v # w => mine'[v] = mine[v]
    BY <1>0, <1>10 DEF MarkSent, MarkFailed, Held, EndGroup, Finish, Raise, Crash,
                       Forget
  <2>2. CASE v = w
    BY <1>0, <2>1, <2>2 DEF ReplyFits
  <2>3. CASE v # w
    BY <1>0, <1>1, <2>1, <2>3, GroupsStay DEF ReplyFits
  <2> QED
    BY <2>2, <2>3
<1>11. CASE Switch \/ Tick \/ Midnight \/ UNCHANGED vars
  BY <1>3, <1>11 DEF Switch, Tick, Midnight, vars, passVars
<1> QED
  BY <1>4, <1>5, <1>6, <1>7, <1>8, <1>9, <1>10, <1>11 DEF Next, Proceed

LEMMA ChargesAreLeft ==
  ASSUME IInv, MailTypeOK', [Next]_vars
  PROVE  ChargeLeft'
<1> USE LeaseAssumption, MailAssumption DEF At, Go
<1>1. MailTypeOK /\ MailInv /\ ChargeLeft
  BY DEF IInv
<1>0. status \in [Mail -> Status] /\ attempts \in [Mail -> 0..MAX]
  BY <1>1 DEF MailTypeOK
<1>2. ASSUME UNCHANGED attempts,
             \A e \in Mail : \/ status'[e] = status[e]
                             \/ Open(e) \/ status[e] = "absent"
                             \/ status'[e] = "cancelled"
      PROVE  ChargeLeft'
  BY <1>1, <1>2 DEF ChargeLeft, Open
<1>3. ASSUME NEW e \in Mail, Enqueue(e) \/ Cancel(e)  PROVE ChargeLeft'
  BY <1>0, <1>2, <1>3 DEF Enqueue, Cancel
<1>4. ASSUME NEW e \in Mail, Revive(e)  PROVE ChargeLeft'
  BY <1>0, <1>1, <1>4 DEF Revive, ChargeLeft, Open
<1>5. ASSUME NEW w \in Worker,
             Start(w) \/ Misread(w) \/ Begin(w) \/ Skip(w) \/ Room(w) \/ Select(w)
             \/ Fetch(w) \/ Finish(w) \/ Raise(w) \/ Crash(w)
      PROVE  ChargeLeft'
  BY <1>2, <1>5 DEF Start, Misread, Asks, Begin, Skip, Room, Admit, Select, Fetch, Finish, Raise,
                    Crash, Forget, rowVars
<1>6. ASSUME NEW w \in Worker, Unstick(w) \/ Claim(w)  PROVE ChargeLeft'
  BY <1>2, <1>6 DEF Unstick, Stuck, Claim, Claimable, Open
<1>7. ASSUME NEW w \in Worker, NEW group \in Groups(w), NEW r \in Reply,
             Send(w, group, r)
      PROVE  ChargeLeft'
  BY <1>2, <1>7 DEF Send, rowVars
<1>8. ASSUME NEW w \in Worker, NEW group \in SUBSET mine[w],
             step[w] \in {"deliver", "posted"}
      PROVE  \A e \in group : Open(e)
  BY <1>1, <1>8 DEF MailInv, ClaimFits, Sending, Open
<1>9. ASSUME NEW w \in Worker, NEW group \in Groups(w), HoldForCap(w, group)
      PROVE  ChargeLeft'
  <2>1. group \subseteq mine[w] /\ step[w] = "deliver"
    BY <1>9, GroupsAreMine DEF HoldForCap
  <2>2. \A e \in Mail : e \notin group => status'[e] = status[e]
    BY <1>9 DEF HoldForCap, Put
  <2>3. UNCHANGED attempts
    BY <1>9 DEF HoldForCap
  <2> QED
    BY <1>2, <1>8, <2>1, <2>2, <2>3
<1>10. ASSUME NEW w \in Worker, MarkSent(w) \/ MarkFailed(w) \/ Held(w)
       PROVE  ChargeLeft'
  <2>1. current[w] \subseteq mine[w] /\ step[w] = "posted"
    BY <1>1, <1>10, GroupsAreMine DEF MarkSent, MarkFailed, Held, MailInv, ReplyFits
  <2>2. CASE Held(w)
    <3>1. \A e \in Mail : e \notin current[w] => status'[e] = status[e]
      BY <2>2 DEF Held, Put
    <3> QED
      BY <1>2, <1>8, <2>1, <2>2, <3>1 DEF Held
  <2>3. CASE MarkSent(w)
    <3>1. \A e \in Mail : IF e \in current[w]
                          THEN status'[e] = "sent"
                          ELSE status'[e] = status[e] /\ attempts'[e] = attempts[e]
      BY <2>3 DEF MarkSent, Put, Spent
    <3> QED
      BY <1>1, <3>1 DEF ChargeLeft, Open
  <2>4. CASE MarkFailed(w)
    <3>1. ASSUME NEW e \in Mail, e \in current[w], status'[e] # "failed"
          PROVE  attempts'[e] < MAX
      <4>1. ~Over(w, e) /\ attempts'[e] = attempts[e] + 1
        BY <2>4, <3>1 DEF MarkFailed, Spent
      <4>2. attempts[e] \in Nat /\ ~(attempts[e] + 1 >= MAX)
        BY <1>0, <4>1 DEF Over
      <4> QED
        BY <4>1, <4>2
    <3>2. \A e \in Mail : e \notin current[w] => /\ status'[e] = status[e]
                                                 /\ attempts'[e] = attempts[e]
      BY <2>4 DEF MarkFailed, Spent
    <3> QED
      BY <1>1, <3>1, <3>2 DEF ChargeLeft, Open
  <2> QED
    BY <1>10, <2>2, <2>3, <2>4
<1>11. CASE Switch \/ Tick \/ Midnight \/ UNCHANGED vars
  BY <1>2, <1>11 DEF Switch, Tick, Midnight, vars, rowVars
<1> QED
  BY <1>3, <1>4, <1>5, <1>6, <1>7, <1>9, <1>10, <1>11 DEF Next, Proceed

-----------------------------------------------------------------------------
LEMMA IInvAlways ==
  ASSUME RUN <= STUCK
  PROVE  Spec => []IInv
<1>1. Init => IInv
  BY InitEstablishesIInv
<1>2. IInv /\ [Next]_vars => IInv'
  <2> SUFFICES ASSUME IInv, [Next]_vars  PROVE IInv'
    OBVIOUS
  <2>1. MailTypeOK'
    BY TypesAreKept
  <2>2. MailInv'
    BY <2>1, ClaimsAreKept, RepliesAreKept DEF MailInv
  <2>3. ChargeLeft'
    BY <2>1, ChargesAreLeft
  <2> QED
    BY <2>1, <2>2, <2>3 DEF IInv
<1> QED
  BY <1>1, <1>2, PTL DEF Spec

\* Every column and every pass keeps its type: no mail is charged more than
\* max_attempts, and no pass claims more than CLAIM_LIMIT rows.
THEOREM MailTypeCorrect ==
  ASSUME RUN <= STUCK
  PROVE  Spec => []MailTypeOK
<1>1. IInv => MailTypeOK
  BY DEF IInv
<1> QED
  BY <1>1, IInvAlways, PTL

\* What each pass knows of its rows is true until it writes their outcome.
THEOREM MailInvAlways ==
  ASSUME RUN <= STUCK
  PROVE  Spec => []MailInv
<1>1. IInv => MailInv
  BY DEF IInv
<1> QED
  BY <1>1, IInvAlways, PTL

\* "two overlapping runs cannot both claim the same row", for any number of
\* passes, even when they overlap because one outlasted its lease, provided it
\* is over within STUCK_MINUTES.
THEOREM OneSenderAlways ==
  ASSUME RUN <= STUCK
  PROVE  Spec => []OneSender
<1>1. IInv => OneSender
  BY DEF IInv, MailInv, ClaimFits, OneSender
<1> QED
  BY <1>1, IInvAlways, PTL

\* A mail that is sent or cancelled stays so: a pass writes only to rows that
\* are still `sending` under its name.
THEOREM FinalStaysFinalAlways ==
  ASSUME RUN <= STUCK
  PROVE  Spec => FinalStaysFinal
<1> DEFINE Step1 == \A e \in Mail : status[e] \in {"sent", "cancelled"}
                                      => status'[e] = status[e]
<1>1. IInv /\ [Next]_vars => [Step1]_vars
  <2> SUFFICES ASSUME IInv, [Next]_vars  PROVE Step1
    OBVIOUS
  <2> USE DEF At, Go
  <2>0. MailTypeOK /\ MailInv
    BY DEF IInv
  <2>1. ASSUME NEW w \in Worker, NEW e \in mine[w], step[w] \in {"deliver", "posted"}
        PROVE  status[e] = "sending"
    BY <2>0, <2>1 DEF MailInv, ClaimFits, Sending
  <2>2. ASSUME NEW e \in Mail, Enqueue(e) \/ Cancel(e) \/ Revive(e)  PROVE Step1
    BY <2>0, <2>2 DEF Enqueue, Cancel, Revive, MailTypeOK
  <2>3. ASSUME NEW w \in Worker, Unstick(w) \/ Claim(w)  PROVE Step1
    BY <2>0, <2>3 DEF Unstick, Stuck, Claim, Claimable, MailTypeOK
  <2>4. ASSUME NEW w \in Worker, NEW group \in Groups(w), HoldForCap(w, group)
        PROVE  Step1
    <3>1. \A e \in group : status[e] = "sending"
      BY <2>1, <2>4, GroupsAreMine DEF HoldForCap
    <3> QED
      BY <2>4, <3>1 DEF HoldForCap, Put
  <2>5. ASSUME NEW w \in Worker, MarkSent(w) \/ MarkFailed(w) \/ Held(w)
        PROVE  Step1
    <3>1. \A e \in current[w] : status[e] = "sending"
      BY <2>0, <2>1, <2>5, GroupsAreMine DEF MarkSent, MarkFailed, Held, MailInv,
                                             ReplyFits
    <3> QED
      BY <2>5, <3>1 DEF MarkSent, MarkFailed, Held, Put
  <2>6. ASSUME NEW w \in Worker,
               \/ Start(w) \/ Misread(w) \/ Begin(w) \/ Skip(w) \/ Room(w) \/ Select(w)
               \/ Fetch(w) \/ Finish(w) \/ Raise(w) \/ Crash(w)
               \/ \E group \in Groups(w), r \in Reply : Send(w, group, r)
        PROVE  Step1
    BY <2>6 DEF Start, Misread, Asks, Begin, Skip, Room, Admit, Select, Fetch, Finish, Raise, Crash,
                Forget, Send, rowVars
  <2>7. CASE Switch \/ Tick \/ Midnight \/ UNCHANGED vars
    BY <2>7 DEF Switch, Tick, Midnight, vars, rowVars
  <2> QED
    BY <2>2, <2>3, <2>4, <2>5, <2>6, <2>7 DEF Next, Proceed
<1> QED
  BY <1>1, IInvAlways, PTL DEF Spec, FinalStaysFinal
-----------------------------------------------------------------------------
\* One mail's account, the copies on one side and what explains them on the
\* other.
Accounted(e) ==
    copies[e] = excused[e] + (IF status[e] = "sent" \/ OnTheWire(e) THEN 1 ELSE 0)

\* Every copy the mail server accepted is the one on record, the one whose
\* record is being written, or one that a fault kept anyone from recording.
THEOREM CopiesAccountedForAlways ==
  ASSUME RUN <= STUCK
  PROVE  Spec => []CopiesAccountedFor
<1>1. Init => CopiesAccountedFor
  BY DEF Init, CopiesAccountedFor, OnTheWire
<1>2. ASSUME IInv, CopiesAccountedFor, [Next]_vars
      PROVE  CopiesAccountedFor'
  <2> SUFFICES ASSUME NEW e \in Mail  PROVE Accounted(e)'
    BY DEF CopiesAccountedFor, Accounted
  <2> USE DEF At, Go
  <2>0. /\ MailTypeOK /\ MailInv /\ Accounted(e)
    BY <1>2 DEF IInv, CopiesAccountedFor, Accounted
  <2>1. /\ status \in [Mail -> Status] /\ reply \in [Worker -> Reply]
        /\ current \in [Worker -> SUBSET Mail]
        /\ copies \in [Mail -> Nat] /\ excused \in [Mail -> Nat]
    BY <2>0 DEF MailTypeOK
  <2>2. \A w \in Worker : reply[w] # "none" =>
           /\ step[w] = "posted" /\ current[w] \subseteq mine[w]
           /\ \A f \in mine[w] : status[f] = "sending" /\ owner[f] = w
    BY <2>0, GroupsAreMine DEF MailInv, ReplyFits, ClaimFits, Sending
  <2>3. ASSUME UNCHANGED <<copies, excused>>, OnTheWire(e)' <=> OnTheWire(e),
               status'[e] = "sent" <=> status[e] = "sent"
        PROVE  Accounted(e)'
    BY <2>0, <2>3 DEF Accounted
  <2>4. ASSUME NEW f \in Mail, Enqueue(f) \/ Cancel(f) \/ Revive(f)
        PROVE  Accounted(e)'
    <3>1. UNCHANGED <<copies, excused, current, reply>>
      BY <2>4 DEF Enqueue, Cancel, Revive, passVars, historyVars
    <3>2. status'[e] = "sent" <=> status[e] = "sent"
      BY <2>1, <2>4 DEF Enqueue, Cancel, Revive
    <3> QED
      BY <2>3, <3>1, <3>2 DEF OnTheWire
  <2>5. ASSUME NEW w \in Worker,
               \/ Start(w) \/ Misread(w) \/ Begin(w) \/ Skip(w) \/ Room(w) \/ Select(w)
               \/ Fetch(w)
        PROVE  Accounted(e)'
    <3>1. UNCHANGED <<copies, excused, current, reply, status>>
      BY <2>5 DEF Start, Misread, Asks, Begin, Skip, Room, Admit, Select, Fetch, rowVars, historyVars
    <3> QED
      BY <2>3, <3>1 DEF OnTheWire
  <2>6. ASSUME NEW w \in Worker, Unstick(w) \/ Claim(w)  PROVE Accounted(e)'
    <3>1. UNCHANGED <<copies, excused, current, reply>>
      BY <2>6 DEF Unstick, Claim, historyVars
    <3>2. status'[e] = "sent" <=> status[e] = "sent"
      BY <2>6 DEF Unstick, Stuck, Claim, Claimable
    <3> QED
      BY <2>3, <3>1, <3>2 DEF OnTheWire
  <2>7. ASSUME NEW w \in Worker, NEW group \in Groups(w), HoldForCap(w, group)
        PROVE  Accounted(e)'
    <3>1. UNCHANGED <<copies, excused, current, reply>> /\ step[w] = "deliver"
      BY <2>7 DEF HoldForCap, historyVars
    <3>2. \A f \in group : status[f] = "sending"
      BY <2>0, <3>1, GroupsAreMine DEF MailInv, ClaimFits, Sending
    <3>3. status'[e] = "sent" <=> status[e] = "sent"
      BY <2>7, <3>2 DEF HoldForCap, Put
    <3> QED
      BY <2>3, <3>1, <3>3 DEF OnTheWire
  <2>8. ASSUME NEW w \in Worker, NEW group \in Groups(w), NEW r \in Reply,
               Send(w, group, r)
        PROVE  Accounted(e)'
    <3>1. /\ step[w] = "deliver" /\ status' = status
          /\ current' = [current EXCEPT ![w] = group]
          /\ reply' = [reply EXCEPT ![w] = r]
      BY <2>8 DEF Send, rowVars
    <3>2. /\ reply[w] = "none"
          /\ \A f \in group : status[f] = "sending" /\ owner[f] = w
      BY <2>0, <2>2, <3>1, GroupsAreMine DEF MailInv, ClaimFits, Sending
    <3>3. OnTheWire(e)' <=> OnTheWire(e) \/ (r = "ok" /\ e \in group)
      BY <2>1, <3>1, <3>2 DEF OnTheWire
    <3>4. e \in group => ~OnTheWire(e)
      BY <2>2, <3>2 DEF OnTheWire
    <3>5. CASE r = "ok" /\ e \in group
      <4>1. copies'[e] = copies[e] + 1 /\ excused'[e] = excused[e]
        BY <2>8, <3>5 DEF Send
      <4> QED
        BY <2>0, <2>1, <3>1, <3>2, <3>3, <3>4, <3>5, <4>1 DEF Accounted
    <3>6. CASE ~(r = "ok" /\ e \in group)
      <4>1. \/ copies'[e] = copies[e] /\ excused'[e] = excused[e]
            \/ copies'[e] = copies[e] + 1 /\ excused'[e] = excused[e] + 1
        BY <2>1, <2>8, <3>6 DEF Send
      <4> QED
        BY <2>0, <2>1, <3>1, <3>3, <3>6, <4>1 DEF Accounted
    <3> QED
      BY <3>5, <3>6
  <2>9. ASSUME NEW w \in Worker, NEW g, reply' = [reply EXCEPT ![w] = "none"],
               current' = [current EXCEPT ![w] = g]
        PROVE  /\ reply[w] = "ok" /\ e \in current[w]
                     => OnTheWire(e) /\ ~OnTheWire(e)'
               /\ ~(reply[w] = "ok" /\ e \in current[w])
                     => (OnTheWire(e)' <=> OnTheWire(e))
    <3>1. \A v \in Worker : v # w => reply'[v] = reply[v] /\ current'[v] = current[v]
      BY <2>1, <2>9
    <3>2. reply'[w] = "none"
      BY <2>1, <2>9
    <3>3. ASSUME NEW v \in Worker, v # w, reply[v] = "ok", e \in current[v],
                 reply[w] = "ok", e \in current[w]
          PROVE  FALSE
      BY <2>2, <3>3
    <3> QED
      BY <3>1, <3>2, <3>3 DEF OnTheWire
  <2>10. ASSUME NEW w \in Worker, MarkSent(w)  PROVE Accounted(e)'
    <3>1. /\ UNCHANGED <<copies, excused>> /\ reply[w] = "ok"
          /\ reply' = [reply EXCEPT ![w] = "none"]
          /\ current' = [current EXCEPT ![w] = {}]
      BY <2>10 DEF MarkSent, EndGroup, historyVars
    <3>2. status'[e] = IF e \in current[w] THEN "sent" ELSE status[e]
      BY <2>10 DEF MarkSent, Put
    <3>3. CASE e \in current[w]
      BY <2>0, <2>9, <3>1, <3>2, <3>3 DEF Accounted
    <3>4. CASE e \notin current[w]
      BY <2>3, <2>9, <3>1, <3>2, <3>4
    <3> QED
      BY <3>3, <3>4
  <2>11. ASSUME NEW w \in Worker, MarkFailed(w) \/ Held(w)  PROVE Accounted(e)'
    <3>1. /\ UNCHANGED <<copies, excused>> /\ reply[w] \notin {"ok", "none"}
          /\ reply' = [reply EXCEPT ![w] = "none"]
          /\ current' = [current EXCEPT ![w] = {}]
      BY <2>11 DEF MarkFailed, Held, EndGroup, historyVars
    <3>2. \A f \in current[w] : status[f] = "sending"
      BY <2>2, <3>1
    <3>3. status'[e] = "sent" <=> status[e] = "sent"
      BY <2>11, <3>2 DEF MarkFailed, Held, Put
    <3> QED
      BY <2>3, <2>9, <3>1, <3>3
  <2>12. ASSUME NEW w \in Worker, Finish(w) \/ Raise(w) \/ Crash(w)
         PROVE  Accounted(e)'
    <3>1. /\ UNCHANGED <<copies, status>>
          /\ reply' = [reply EXCEPT ![w] = "none"]
          /\ current' = [current EXCEPT ![w] = {}]
      BY <2>12 DEF Finish, Raise, Crash, Forget, rowVars
    <3>2. excused'[e] = IF reply[w] = "ok" /\ e \in current[w]
                        THEN excused[e] + 1 ELSE excused[e]
      <4>1. CASE Finish(w)
        BY <2>2, <4>1 DEF Finish
      <4>2. CASE Raise(w) \/ Crash(w)
        BY <4>2 DEF Raise, Crash, Excuse
      <4> QED
        BY <2>12, <4>1, <4>2
    <3>3. reply[w] = "ok" /\ e \in current[w] => status[e] # "sent"
      BY <2>2
    <3>4. CASE reply[w] = "ok" /\ e \in current[w]
      <4>1. OnTheWire(e) /\ ~OnTheWire(e)'
        BY <2>9, <3>1, <3>4
      <4>2. copies'[e] = copies[e] /\ excused'[e] = excused[e] + 1 /\ status' = status
        BY <3>1, <3>2, <3>4
      <4>3. copies[e] = excused[e] + 1
        BY <2>0, <4>1 DEF Accounted
      <4> QED
        BY <2>1, <3>3, <3>4, <4>1, <4>2, <4>3 DEF Accounted
    <3>5. CASE ~(reply[w] = "ok" /\ e \in current[w])
      BY <2>0, <2>9, <3>1, <3>2, <3>5 DEF Accounted
    <3> QED
      BY <3>4, <3>5
  <2>13. CASE Switch \/ Tick \/ Midnight \/ UNCHANGED vars
    <3>1. UNCHANGED <<copies, excused, current, reply, status>>
      BY <2>13 DEF Switch, Tick, Midnight, vars, rowVars, passVars, historyVars
    <3> QED
      BY <2>3, <3>1 DEF OnTheWire
  <2> QED
    BY <1>2, <2>4, <2>5, <2>6, <2>7, <2>8, <2>10, <2>11, <2>12, <2>13
       DEF Next, Proceed
<1>3. IInv /\ CopiesAccountedFor /\ [Next]_vars => CopiesAccountedFor'
  BY <1>2
<1> QED
  BY <1>1, <1>3, IInvAlways, PTL DEF Spec
-----------------------------------------------------------------------------
\* Rows of S come to owe d, the others what they owed.
LEMMA MailDebtsFollow ==
  ASSUME NEW S, NEW d,
         \A e \in Mail : DebtOf(status'[e]) =
                            IF e \in S THEN d ELSE DebtOf(status[e])
  PROVE  Owed!Becomes(S, d)
BY DEF Debts, Owed!Becomes

\* The same, for rows that come to have one status.
LEMMA RowsBecome ==
  ASSUME NEW S, NEW s,
         \A e \in Mail : status'[e] = IF e \in S THEN s ELSE status[e]
  PROVE  Owed!Becomes(S, DebtOf(s))
<1>1. ASSUME NEW e \in Mail
      PROVE  DebtOf(status'[e]) = IF e \in S THEN DebtOf(s) ELSE DebtOf(status[e])
  <2>1. CASE e \in S
    BY <2>1
  <2>2. CASE e \notin S
    BY <2>2
  <2> QED
    BY <2>1, <2>2
<1> QED
  BY <1>1, MailDebtsFollow

\* Rows change, but only among those still owed.
LEMMA MailDebtsStay ==
  ASSUME \A e \in Mail : status'[e] # status[e]
            => {status[e], status'[e]} \subseteq {"queued", "sending"}
  PROVE  UNCHANGED Debts
<1>1. \A e \in Mail : DebtOf(status'[e]) = DebtOf(status[e])
  BY DEF DebtOf, Owing
<1> QED
  BY <1>1 DEF Debts

\* A message on the wire that the server took has left; that is what
\* CopiesAccountedFor says of it.
LEMMA OnTheWireHasLeft ==
  ASSUME IInv, CopiesAccountedFor, NEW w \in Worker, reply[w] = "ok"
  PROVE  current[w] \subseteq Departed
<1>1. /\ current[w] \subseteq Mail
      /\ copies \in [Mail -> Nat] /\ excused \in [Mail -> Nat]
  BY DEF IInv, MailTypeOK
<1>2. ASSUME NEW e \in current[w]  PROVE copies[e] > 0
  <2>1. OnTheWire(e) /\ e \in Mail
    BY <1>1, <1>2 DEF OnTheWire
  <2>2. copies[e] = excused[e] + 1
    BY <2>1 DEF CopiesAccountedFor
  <2> QED
    BY <1>1, <2>1, <2>2
<1> QED
  BY <1>1, <1>2 DEF Departed

\* Every step of the outbox is a step of the promise, or none.
LEMMA StepsOfThePromise ==
  ASSUME IInv, CopiesAccountedFor, [Next]_vars
  PROVE  [Owed!MailNext]_(Owed!mailVars)
<1> DEFINE Simulated == Owed!MailNext \/ UNCHANGED Owed!mailVars
<1> SUFFICES Simulated
  OBVIOUS
<1> USE DEF Owed!mailVars
<1>1. /\ MailTypeOK /\ MailInv
      /\ status \in [Mail -> Status] /\ current \in [Worker -> SUBSET Mail]
      /\ mine \in [Worker -> SUBSET Mail] /\ copies \in [Mail -> Nat]
  BY DEF IInv, MailTypeOK
<1>2. \A e \in Mail : Debts[e] = DebtOf(status[e])
  BY DEF Debts
<1>3. \A w \in Worker : step[w] \in {"deliver", "posted"} =>
         \A e \in mine[w] : status[e] = "sending"
  BY <1>1 DEF MailInv, ClaimFits, Sending
<1>4. ASSUME NEW S \in SUBSET Mail, \A e \in S : status[e] = "sending"
      PROVE  Owed!AllOwed(S)
  BY <1>2, <1>4 DEF Owed!AllOwed, DebtOf, Owing
<1>5. ASSUME UNCHANGED copies  PROVE UNCHANGED Departed
  BY <1>5 DEF Departed
<1>6. ASSUME NEW e \in Mail, Enqueue(e) \/ Revive(e) \/ Cancel(e)
      PROVE  Simulated
  <2>1. UNCHANGED Departed
    BY <1>5, <1>6 DEF Enqueue, Revive, Cancel, historyVars
  <2>2. CASE Enqueue(e)
    <3>1. status[e] = "absent" /\ status' = [status EXCEPT ![e] = "queued"]
      BY <2>2 DEF Enqueue
    <3>2. \A f \in Mail : status'[f] = IF f \in {e} THEN "queued" ELSE status[f]
      BY <1>1, <3>1
    <3>3. Owed!Becomes({e}, "owed")
      <4>1. Owed!Becomes({e}, DebtOf("queued"))
        BY <3>2, RowsBecome
      <4> QED
        BY <4>1 DEF DebtOf, Owing
    <3>4. Debts[e] = "none"
      BY <1>2, <3>1 DEF DebtOf, Owing
    <3>5. Owed!Owe(e)
      BY <2>1, <3>3, <3>4 DEF Owed!Owe
    <3> QED
      BY <3>5 DEF Owed!MailNext
  <2>3. CASE Revive(e)
    <3>1. status[e] = "failed" /\ status' = [status EXCEPT ![e] = "queued"]
      BY <2>3 DEF Revive
    <3>2. \A f \in Mail : status'[f] = IF f \in {e} THEN "queued" ELSE status[f]
      BY <1>1, <3>1
    <3>3. Owed!Becomes({e}, "owed")
      <4>1. Owed!Becomes({e}, DebtOf("queued"))
        BY <3>2, RowsBecome
      <4> QED
        BY <4>1 DEF DebtOf, Owing
    <3>4. Debts[e] = "givenup"
      BY <1>2, <3>1 DEF DebtOf, Owing
    <3>5. Owed!PutBack(e)
      BY <2>1, <3>3, <3>4 DEF Owed!PutBack
    <3> QED
      BY <3>5 DEF Owed!MailNext
  <2>4. CASE Cancel(e)
    <3>1. /\ status[e] \in {"queued", "failed"}
          /\ status' = [status EXCEPT ![e] = "cancelled"]
      BY <2>4 DEF Cancel
    <3>2. \A f \in Mail : status'[f] = IF f \in {e} THEN "cancelled" ELSE status[f]
      BY <1>1, <3>1
    <3>3. Owed!Becomes({e}, "withdrawn")
      <4>1. Owed!Becomes({e}, DebtOf("cancelled"))
        BY <3>2, RowsBecome
      <4> QED
        BY <4>1 DEF DebtOf, Owing
    <3>4. Debts[e] \in {"owed", "givenup"}
      BY <1>2, <3>1 DEF DebtOf, Owing
    <3> QED
      BY <2>1, <3>3, <3>4 DEF Owed!Withdraw, Owed!MailNext
  <2> QED
    BY <1>6, <2>2, <2>3, <2>4
<1>7. ASSUME NEW w \in Worker, Unstick(w) \/ Claim(w)  PROVE Simulated
  <2>1. UNCHANGED Departed
    BY <1>5, <1>7 DEF Unstick, Claim, historyVars
  <2>2. \A e \in Mail : status'[e] # status[e]
            => {status[e], status'[e]} \subseteq {"queued", "sending"}
    BY <1>1, <1>7 DEF Unstick, Stuck, Claim, Claimable
  <2> QED
    BY <2>1, <2>2, MailDebtsStay
<1>8. ASSUME NEW w \in Worker, NEW group \in Groups(w), HoldForCap(w, group)
      PROVE  Simulated
  <2>1. UNCHANGED Departed
    BY <1>5, <1>8 DEF HoldForCap, historyVars
  <2>2. \A e \in group : status[e] = "sending"
    BY <1>3, <1>8, GroupsAreMine DEF HoldForCap, At
  <2>3. \A e \in Mail : status'[e] # status[e]
            => {status[e], status'[e]} \subseteq {"queued", "sending"}
    BY <1>8, <2>2 DEF HoldForCap, Put
  <2> QED
    BY <2>1, <2>3, MailDebtsStay
<1>9. ASSUME NEW w \in Worker, NEW group \in Groups(w), NEW r \in Reply,
             Send(w, group, r)
      PROVE  Simulated
  <2>1. UNCHANGED status /\ step[w] = "deliver"
    BY <1>9 DEF Send, rowVars, At
  <2>2. UNCHANGED Debts
    BY <2>1 DEF Debts
  <2>3. group \in SUBSET Mail /\ Owed!AllOwed(group)
    BY <1>1, <1>3, <1>4, <2>1, GroupsAreMine
  <2>4. \/ UNCHANGED copies
        \/ copies' = [e \in Mail |-> IF e \in group THEN copies[e] + 1
                                                    ELSE copies[e]]
    BY <1>9 DEF Send
  <2>5. CASE UNCHANGED copies
    BY <1>5, <2>2, <2>5
  <2>6. CASE copies' = [e \in Mail |-> IF e \in group THEN copies[e] + 1
                                                      ELSE copies[e]]
    <3>1. \A e \in Mail : copies'[e] > 0 <=> copies[e] > 0 \/ e \in group
      BY <1>1, <2>6
    <3>2. Departed' = Departed \cup group
      BY <2>3, <3>1 DEF Departed
    <3> QED
      BY <2>2, <2>3, <3>2 DEF Owed!Leave, Owed!MailNext
  <2> QED
    BY <2>4, <2>5, <2>6
<1>10. ASSUME NEW w \in Worker, MarkSent(w) \/ MarkFailed(w) \/ Held(w)
       PROVE  Simulated
  <2>1. UNCHANGED Departed /\ step[w] = "posted"
    BY <1>5, <1>10 DEF MarkSent, MarkFailed, Held, EndGroup, historyVars, At
  <2>2. current[w] \in SUBSET Mail /\ \A e \in current[w] : status[e] = "sending"
    BY <1>1, <1>3, <2>1, GroupsAreMine DEF MailInv, ReplyFits
  <2>3. CASE MarkSent(w)
    <3>1. current[w] \subseteq Departed
      BY <2>3, OnTheWireHasLeft DEF MarkSent
    <3>2. \A e \in Mail : status'[e] = IF e \in current[w] THEN "sent"
                                                           ELSE status[e]
      BY <2>3 DEF MarkSent, Put
    <3>3. Owed!Becomes(current[w], DebtOf("sent"))
      BY <3>2, RowsBecome
    <3>4. Owed!Becomes(current[w], "settled")
      BY <3>3 DEF DebtOf, Owing
    <3> QED
      BY <1>4, <2>1, <2>2, <3>1, <3>4 DEF Owed!SettleMail, Owed!MailNext
  <2>4. CASE MarkFailed(w)
    <3> DEFINE S == {e \in current[w] : Over(w, e)}
    <3>1. \A e \in Mail : status'[e] = IF e \notin current[w] THEN status[e]
                              ELSE IF Over(w, e) THEN "failed" ELSE "queued"
      BY <2>4 DEF MarkFailed
    <3>2. S \in SUBSET Mail /\ \A e \in S : status[e] = "sending"
      BY <2>2
    <3>3. ASSUME NEW e \in Mail
          PROVE  DebtOf(status'[e]) =
                    IF e \in S THEN "givenup" ELSE DebtOf(status[e])
      <4>1. CASE e \in S
        BY <3>1, <4>1 DEF DebtOf, Owing
      <4>2. CASE e \in current[w] \ S
        <5>1. status'[e] = "queued" /\ status[e] = "sending"
          BY <2>2, <3>1, <4>2
        <5> QED
          BY <4>2, <5>1 DEF DebtOf, Owing
      <4>3. CASE e \notin current[w]
        BY <3>1, <4>3
      <4> QED
        BY <4>1, <4>2, <4>3
    <3>4. Owed!Becomes(S, "givenup")
      BY <3>3, MailDebtsFollow
    <3> QED
      BY <1>4, <2>1, <3>2, <3>4 DEF Owed!GiveUp, Owed!MailNext
  <2>5. CASE Held(w)
    <3>1. \A e \in Mail : status'[e] # status[e]
            => {status[e], status'[e]} \subseteq {"queued", "sending"}
      BY <2>2, <2>5 DEF Held, Put
    <3> QED
      BY <2>1, <3>1, MailDebtsStay
  <2> QED
    BY <1>10, <2>3, <2>4, <2>5
<1>11. ASSUME UNCHANGED <<status, copies>>  PROVE Simulated
  BY <1>5, <1>11 DEF Debts
<1>12. ASSUME NEW w \in Worker,
              \/ Start(w) \/ Misread(w) \/ Begin(w) \/ Skip(w) \/ Room(w) \/ Select(w)
              \/ Fetch(w) \/ Finish(w) \/ Raise(w) \/ Crash(w)
       PROVE  Simulated
  BY <1>11, <1>12 DEF Start, Misread, Asks, Begin, Skip, Room, Admit, Select, Fetch, Finish, Raise,
                      Crash, Forget, rowVars, historyVars
<1>13. CASE Switch \/ Tick \/ Midnight \/ UNCHANGED vars
  BY <1>11, <1>13 DEF Switch, Tick, Midnight, vars, rowVars, historyVars
<1> QED
  BY <1>6, <1>7, <1>8, <1>9, <1>10, <1>12, <1>13 DEF Next, Proceed

\* The outbox implements OwedMail for any passes, leases, batches and faults:
\* what was written down stays owed until the server has it or a person is
\* asked, and of a mail that was cancelled no further copy leaves.
THEOREM OutboxKeepsThePromise ==
  ASSUME RUN <= STUCK
  PROVE  Spec => MailPromise
<1>1. Init => Owed!MailInit
  <2> SUFFICES ASSUME Init PROVE Owed!MailInit
    OBVIOUS
  <2>1. Debts = [e \in Mail |-> "none"]
    BY DEF Init, Debts, DebtOf, Owing
  <2>2. Departed = {}
    BY DEF Init, Departed
  <2> QED
    BY <2>1, <2>2 DEF Owed!MailInit
<1>2. Spec => []CopiesAccountedFor
  BY CopiesAccountedForAlways
<1>3. IInv /\ CopiesAccountedFor /\ [Next]_vars
        => [Owed!MailNext]_(Owed!mailVars)
  BY StepsOfThePromise
<1> QED
  BY <1>1, <1>2, <1>3, IInvAlways, PTL DEF Spec, MailPromise, Owed!MailSpec
-----------------------------------------------------------------------------
\* One mail's charges: an answer that came back and is not yet written is worth
\* one more attempt.
Answered(e) ==
    \E w \in Worker : reply[w] \notin {"none", "held"} /\ e \in current[w]

Charged(e) ==
    /\ attempts[e] <= asked[e]
    /\ Answered(e) => attempts[e] < asked[e]

\* What the kill switch, the ceilings, the crashes and the abandoned claims
\* held back is charged to nobody: an attempt is counted for an answer that
\* the transport gave, and for each at most once.
THEOREM HeldCostsNothingAlways ==
  ASSUME RUN <= STUCK
  PROVE  Spec => []HeldCostsNothing
<1> DEFINE Inv == \A e \in Mail : Charged(e)
<1>1. Init => Inv
  BY DEF Init, Charged, Answered
<1>2. ASSUME IInv, Inv, [Next]_vars
      PROVE  Inv'
  <2> SUFFICES ASSUME NEW e \in Mail  PROVE Charged(e)'
    OBVIOUS
  <2> USE DEF At, Go
  <2>0. MailTypeOK /\ MailInv /\ Charged(e)
    BY <1>2 DEF IInv
  <2>1. /\ reply \in [Worker -> Reply] /\ current \in [Worker -> SUBSET Mail]
        /\ asked \in [Mail -> Nat] /\ attempts \in [Mail -> 0..MAX]
    BY <2>0 DEF MailTypeOK
  <2>2. \A w \in Worker : reply[w] # "none" =>
           /\ step[w] = "posted" /\ current[w] \subseteq mine[w]
           /\ \A f \in mine[w] : status[f] = "sending" /\ owner[f] = w
    BY <2>0, GroupsAreMine DEF MailInv, ReplyFits, ClaimFits, Sending
  <2>3. ASSUME UNCHANGED <<attempts, asked, current, reply>>
        PROVE  Charged(e)'
    BY <2>0, <2>3 DEF Charged, Answered
  <2>4. ASSUME NEW f \in Mail, Enqueue(f) \/ Cancel(f)  PROVE Charged(e)'
    BY <2>3, <2>4 DEF Enqueue, Cancel, passVars, historyVars
  <2>5. ASSUME NEW f \in Mail, Revive(f)  PROVE Charged(e)'
    <3>1. UNCHANGED <<current, reply>> /\ status[f] = "failed"
      BY <2>5 DEF Revive, passVars
    <3>2. ~Answered(f)
      BY <2>2, <3>1 DEF Answered
    <3>3. /\ attempts' = [attempts EXCEPT ![f] = 0]
          /\ asked' = [asked EXCEPT ![f] = 0]
      BY <2>5 DEF Revive
    <3> QED
      BY <2>0, <2>1, <3>1, <3>2, <3>3 DEF Charged, Answered
  <2>6. ASSUME NEW w \in Worker,
               \/ Start(w) \/ Misread(w) \/ Begin(w) \/ Skip(w) \/ Room(w) \/ Select(w)
               \/ Fetch(w) \/ Unstick(w) \/ Claim(w)
        PROVE  Charged(e)'
    <3>1. UNCHANGED <<attempts, asked, current, reply>>
      BY <2>6 DEF Start, Misread, Asks, Begin, Skip, Room, Admit, Select, Fetch, Unstick, Claim,
                  rowVars, historyVars
    <3> QED
      BY <2>3, <3>1
  <2>7. ASSUME NEW w \in Worker, NEW group \in Groups(w), HoldForCap(w, group)
        PROVE  Charged(e)'
    BY <2>3, <2>7 DEF HoldForCap, historyVars
  <2>8. ASSUME NEW w \in Worker, NEW group \in Groups(w), NEW r \in Reply,
               Send(w, group, r)
        PROVE  Charged(e)'
    <3>1. /\ step[w] = "deliver" /\ attempts' = attempts
          /\ current' = [current EXCEPT ![w] = group]
          /\ reply' = [reply EXCEPT ![w] = r]
          /\ asked'[e] = IF e \in group /\ r # "held" THEN asked[e] + 1
                                                     ELSE asked[e]
      BY <2>8 DEF Send, rowVars
    <3>2. reply[w] = "none"
      BY <2>2, <3>1
    <3>3. Answered(e)' => Answered(e) \/ (e \in group /\ r # "held")
      BY <2>1, <3>1, <3>2 DEF Answered
    <3>4. asked[e] \in Nat /\ attempts[e] \in Nat
      BY <2>1
    <3> QED
      BY <2>0, <3>1, <3>3, <3>4 DEF Charged
  <2>9. ASSUME NEW w \in Worker, NEW g, reply' = [reply EXCEPT ![w] = "none"],
               current' = [current EXCEPT ![w] = g]
        PROVE  /\ Answered(e)' => Answered(e)
               /\ reply[w] \notin {"none", "held"} /\ e \in current[w]
                     => Answered(e) /\ ~Answered(e)'
    <3>1. \A v \in Worker : v # w => reply'[v] = reply[v] /\ current'[v] = current[v]
      BY <2>1, <2>9
    <3>2. reply'[w] = "none"
      BY <2>1, <2>9
    <3>3. ASSUME reply[w] # "none", e \in current[w],
                 NEW v \in Worker, v # w, reply[v] # "none"
          PROVE  e \notin current[v]
      BY <2>2, <3>3
    <3>4. Answered(e)' => Answered(e)
      BY <3>1, <3>2 DEF Answered
    <3>5. ASSUME reply[w] \notin {"none", "held"}, e \in current[w]
          PROVE  Answered(e) /\ ~Answered(e)'
      <4>1. \A v \in Worker : reply'[v] \notin {"none", "held"}
                                 => e \notin current'[v]
        BY <3>1, <3>2, <3>3, <3>5
      <4> QED
        BY <3>5, <4>1 DEF Answered
    <3> QED
      BY <3>4, <3>5
  <2>10. ASSUME NEW w \in Worker, MarkSent(w) \/ MarkFailed(w) \/ Held(w)
         PROVE  Charged(e)'
    <3>1. /\ asked' = asked /\ reply' = [reply EXCEPT ![w] = "none"]
          /\ current' = [current EXCEPT ![w] = {}]
      BY <2>10 DEF MarkSent, MarkFailed, Held, EndGroup, historyVars
    <3>2. attempts'[e] = attempts[e]
          \/ /\ attempts'[e] = attempts[e] + 1 /\ e \in current[w]
             /\ reply[w] \notin {"none", "held"}
      BY <2>10 DEF MarkSent, MarkFailed, Held, Spent
    <3>3. asked[e] \in Nat /\ attempts[e] \in Nat
      BY <2>1
    <3>4. CASE attempts'[e] = attempts[e]
      BY <2>0, <2>9, <3>1, <3>4 DEF Charged
    <3>5. CASE /\ attempts'[e] = attempts[e] + 1 /\ e \in current[w]
               /\ reply[w] \notin {"none", "held"}
      <4>1. Answered(e) /\ ~Answered(e)'
        BY <2>9, <3>1, <3>5
      <4>2. attempts[e] < asked[e] /\ asked'[e] = asked[e]
        BY <2>0, <3>1, <4>1 DEF Charged
      <4> QED
        BY <3>3, <3>5, <4>1, <4>2 DEF Charged
    <3> QED
      BY <3>2, <3>4, <3>5
  <2>11. ASSUME NEW w \in Worker, Finish(w) \/ Raise(w) \/ Crash(w)
         PROVE  Charged(e)'
    <3>1. /\ UNCHANGED <<attempts, asked>>
          /\ reply' = [reply EXCEPT ![w] = "none"]
          /\ current' = [current EXCEPT ![w] = {}]
      BY <2>11 DEF Finish, Raise, Crash, Forget, rowVars
    <3> QED
      BY <2>0, <2>9, <3>1 DEF Charged
  <2>12. CASE Switch \/ Tick \/ Midnight \/ UNCHANGED vars
    <3>1. UNCHANGED <<attempts, asked, current, reply>>
      BY <2>12 DEF Switch, Tick, Midnight, vars, rowVars, passVars, historyVars
    <3> QED
      BY <2>3, <3>1
  <2> QED
    BY <1>2, <2>4, <2>5, <2>6, <2>7, <2>8, <2>10, <2>11, <2>12
       DEF Next, Proceed
<1>3. IInv /\ Inv /\ [Next]_vars => Inv'
  BY <1>2
<1>4. Inv => HeldCostsNothing
  BY DEF HeldCostsNothing, Charged
<1> QED
  BY <1>1, <1>3, <1>4, IInvAlways, PTL DEF Spec
-----------------------------------------------------------------------------
\* The queue runs under the lease of JobLease, step for step.
THEOREM MailRunsUnderTheLease == Spec => LeaseSpec
<1>1. Init => LeaseInit
  BY DEF Init
<1> QED
  BY <1>1, StepsOfTheLease, PTL DEF Spec, LeaseSpec

\* One pass at a time, while no pass outlasts its lease.
LEMMA OnePassAtATime ==
  ASSUME RUN <= LEASE
  PROVE  Spec => []OneRunner
BY MailRunsUnderTheLease, OneRunnerAtATime, PTL

\* Sets of mails can be counted, and a part is no larger than the whole.
LEMMA MailsAreCounted ==
  ASSUME NEW S \in SUBSET Mail, NEW T \in SUBSET S
  PROVE  /\ IsFiniteSet(S) /\ IsFiniteSet(T)
         /\ Cardinality(S) \in Nat /\ Cardinality(T) \in Nat
         /\ Cardinality(T) <= Cardinality(S)
<1>1. IsFiniteSet(S)
  BY FS_Subset, MailAssumption
<1>2. IsFiniteSet(T) /\ Cardinality(T) <= Cardinality(S)
  BY <1>1, FS_Subset
<1> QED
  BY <1>1, <1>2, FS_CardinalityType

\* Two sets together have no more mails than the sum of their sizes.
LEMMA UnionIsCounted ==
  ASSUME NEW S \in SUBSET Mail, NEW T \in SUBSET Mail
  PROVE  Cardinality(S \cup T) <= Cardinality(S) + Cardinality(T)
<1>1. IsFiniteSet(S) /\ IsFiniteSet(T) /\ IsFiniteSet(S \cap T)
  BY MailsAreCounted
<1>2. Cardinality(S) \in Nat /\ Cardinality(T) \in Nat
      /\ Cardinality(S \cap T) \in Nat
  BY <1>1, FS_CardinalityType
<1>3. Cardinality(S \cup T)
         = Cardinality(S) + Cardinality(T) - Cardinality(S \cap T)
  BY <1>1, FS_Union
<1> QED
  BY <1>2, <1>3

\* Taking a part away.
LEMMA RestIsCounted ==
  ASSUME NEW S \in SUBSET Mail, NEW T \in SUBSET S
  PROVE  Cardinality(S \ T) = Cardinality(S) - Cardinality(T)
<1>1. S \cap T = T /\ IsFiniteSet(S)
  BY MailsAreCounted
<1> QED
  BY <1>1, FS_Difference

\* The record of what was sent does not move.
SentStays ==
    /\ \A e \in Mail : status'[e] = "sent" <=> status[e] = "sent"
    /\ UNCHANGED <<stamp, days>>

\* Only MarkSent adds to what was sent; only time ages it.
LEMMA OnlyMarkSentSends ==
  ASSUME IInv, [Next]_vars
  PROVE  \/ \E w \in Worker : MarkSent(w)
         \/ Tick \/ Midnight
         \/ SentStays
<1> USE DEF At, Go, SentStays
<1>0. MailTypeOK /\ MailInv
  BY DEF IInv
<1>1. ASSUME NEW w \in Worker, NEW e \in mine[w], step[w] \in {"deliver", "posted"}
      PROVE  status[e] = "sending"
  BY <1>0, <1>1 DEF MailInv, ClaimFits, Sending
<1>2. ASSUME NEW e \in Mail, Enqueue(e) \/ Cancel(e) \/ Revive(e)  PROVE SentStays
  BY <1>0, <1>2 DEF Enqueue, Cancel, Revive, MailTypeOK
<1>3. ASSUME NEW w \in Worker, Unstick(w) \/ Claim(w)  PROVE SentStays
  BY <1>0, <1>3 DEF Unstick, Stuck, Claim, Claimable, MailTypeOK
<1>4. ASSUME NEW w \in Worker, NEW group \in Groups(w), HoldForCap(w, group)
      PROVE  SentStays
  <2>1. \A e \in group : status[e] = "sending"
    BY <1>1, <1>4, GroupsAreMine DEF HoldForCap
  <2> QED
    BY <1>4, <2>1 DEF HoldForCap, Put
<1>5. ASSUME NEW w \in Worker, MarkFailed(w) \/ Held(w)  PROVE SentStays
  <2>1. \A e \in current[w] : status[e] = "sending"
    BY <1>0, <1>1, <1>5, GroupsAreMine DEF MarkFailed, Held, MailInv, ReplyFits
  <2>2. CASE MarkFailed(w)
    BY <2>1, <2>2 DEF MarkFailed
  <2>3. CASE Held(w)
    BY <2>1, <2>3 DEF Held, Put
  <2> QED
    BY <1>5, <2>2, <2>3
<1>6. ASSUME NEW w \in Worker,
             \/ Start(w) \/ Misread(w) \/ Begin(w) \/ Skip(w) \/ Room(w) \/ Select(w)
             \/ Fetch(w) \/ Finish(w) \/ Raise(w) \/ Crash(w)
             \/ \E group \in Groups(w), r \in Reply : Send(w, group, r)
      PROVE  SentStays
  BY <1>6 DEF Start, Misread, Asks, Begin, Skip, Room, Admit, Select, Fetch, Finish, Raise, Crash,
              Forget, Send, rowVars
<1>7. CASE Switch \/ UNCHANGED vars
  BY <1>7 DEF Switch, vars, rowVars
<1> QED
  BY <1>2, <1>3, <1>4, <1>5, <1>6, <1>7 DEF Next, Proceed

\* A pass with rows in hand.
Carrying(w) == step[w] \in {"claim", "fetch", "deliver", "posted"} /\ mine[w] # {}

\* The rows of the last minute, by the time the passes stamped them with, and
\* how many that may be: RATE, and RATE again for each count that failed.
LastMinute == {e \in Mail : status[e] = "sent" /\ stamp[e] <= MINUTE}
Ceiling == RATE * (1 + missed)

\* What is left of the minute is enough for what a pass may take, then for what
\* it carries.
RateFits(w) ==
    /\ step[w] = "select" => Cardinality(LastMinute) + take[w] <= Ceiling
    /\ Carrying(w) => Cardinality(LastMinute) + Cardinality(mine[w]) <= Ceiling

\* Counts fail, and are never unfailed.
LEMMA CeilingsRise ==
  ASSUME IInv, [Next]_vars
  PROVE  missed' \in {missed, missed + 1}
<1>1. missed \in Nat
  BY DEF IInv, MailTypeOK
<1>2. ASSUME NEW w \in Worker, Proceed(w) \/ Misread(w) \/ Raise(w) \/ Crash(w)
      PROVE  missed' \in {missed, missed + 1}
  <2>1. ASSUME NEW group \in Groups(w), NEW r \in Reply, Send(w, group, r)
        PROVE  missed' \in {missed, missed + 1}
    <3>1. PICK first \in group : missed' = missed + Passed(w, first)
      BY <2>1 DEF Send
    <3> QED
      BY <1>1, <3>1 DEF Passed
  <2>2. CASE Room(w)
    BY <2>2 DEF Room
  <2>3. CASE \/ Start(w) \/ Misread(w) \/ Begin(w) \/ Skip(w) \/ Unstick(w)
             \/ Select(w) \/ Claim(w) \/ Fetch(w) \/ MarkSent(w) \/ MarkFailed(w)
             \/ Held(w) \/ Finish(w) \/ Raise(w) \/ Crash(w)
             \/ \E group \in Groups(w) : HoldForCap(w, group)
    BY <2>3 DEF Start, Misread, Asks, Begin, Skip, Unstick, Select, Claim, Fetch,
                MarkSent, MarkFailed, Held, EndGroup, Finish, Raise, Crash,
                Forget, HoldForCap, historyVars
  <2> QED
    BY <1>2, <2>1, <2>2, <2>3 DEF Proceed
<1>3. ASSUME NEW e \in Mail, Enqueue(e) \/ Cancel(e) \/ Revive(e)
      PROVE  missed' = missed
  BY <1>3 DEF Enqueue, Cancel, Revive, historyVars
<1>4. CASE Switch \/ Tick \/ Midnight \/ UNCHANGED vars
  BY <1>4 DEF Switch, Tick, Midnight, vars, historyVars
<1> QED
  BY <1>2, <1>3, <1>4 DEF Next

\* What a pass that is past throttle_room() may do, between two marks and two
\* ticks: it takes no more than it was given, then it only gives rows up.
LEMMA PassesOnlyShrink ==
  ASSUME IInv, IInv', [Next]_vars, NEW v \in Worker,
         ~Tick, ~Midnight, \A w \in Worker : ~MarkSent(w),
         step'[v] \notin {"idle", "unstick", "room"}
  PROVE  /\ age'[v] = age[v]
         /\ \/ Room(v)
            \/ Select(v)
            \/ /\ step'[v] = "select" => step[v] = "select" /\ take'[v] = take[v]
               /\ Carrying(v)' => Carrying(v) /\ mine'[v] \subseteq mine[v]
<1> DEFINE Shrinks ==
      /\ age'[v] = age[v]
      /\ \/ Room(v)
         \/ Select(v)
         \/ /\ step'[v] = "select" => step[v] = "select" /\ take'[v] = take[v]
            /\ Carrying(v)' => Carrying(v) /\ mine'[v] \subseteq mine[v]
<1> SUFFICES Shrinks
  OBVIOUS
<1> USE DEF At, Go, Carrying
<1>0. MailTypeOK /\ MailInv
  BY DEF IInv
<1>1. /\ step \in [Worker -> Step] /\ take \in [Worker -> 0..CLAIM]
      /\ mine \in [Worker -> SUBSET Mail] /\ age \in [Worker -> 0..RUN]
  BY <1>0 DEF MailTypeOK, LeaseTypeOK
<1>2. ASSUME UNCHANGED <<leaseVars, step, take, mine>>  PROVE Shrinks
  BY <1>2 DEF leaseVars
<1>3. ASSUME NEW e \in Mail, Enqueue(e) \/ Cancel(e) \/ Revive(e)  PROVE Shrinks
  BY <1>2, <1>3 DEF Enqueue, Cancel, Revive, passVars
<1>4. CASE Switch \/ UNCHANGED vars
  BY <1>2, <1>4 DEF Switch, vars, passVars
<1>5. ASSUME NEW w \in Worker, Start(w) \/ Misread(w) \/ Begin(w) \/ Skip(w)  PROVE Shrinks
  <2>1. v # w
    <3>1. phase[w] # "in"
      BY <1>5 DEF Start, Misread, Asks, Begin, Skip, Ask, Take, Refuse
    <3>2. step[w] = "idle"
      BY <1>0, <3>1 DEF MailInv, ClaimFits, MailTypeOK
    <3>3. step'[w] \in {"idle", "unstick"}
      BY <1>1, <1>5, <3>2 DEF Start, Misread, Asks, Begin, Skip
    <3> QED
      BY <3>3
  <2>2. /\ step'[v] = step[v] /\ UNCHANGED <<take, mine>> /\ age'[v] = age[v]
    BY <1>1, <1>5, <2>1 DEF Start, Misread, Asks, Begin, Skip, Ask, Take, Refuse
  <2> QED
    BY <2>2
<1>6. ASSUME NEW w \in Worker, Room(w) \/ Select(w)  PROVE Shrinks
  <2>1. CASE v = w
    BY <1>6, <2>1 DEF Room, Admit, Select, leaseVars
  <2>2. CASE v # w
    <3>1. /\ age' = age /\ step'[v] = step[v] /\ take'[v] = take[v]
          /\ mine'[v] = mine[v]
      BY <1>1, <1>6, <2>2 DEF Room, Admit, Select, leaseVars
    <3> QED
      BY <3>1
  <2> QED
    BY <2>1, <2>2
<1>7. ASSUME NEW w \in Worker, Unstick(w) \/ Claim(w) \/ Fetch(w)  PROVE Shrinks
  <2>1. age' = age /\ take' = take /\ mine'[v] \subseteq mine[v]
    BY <1>1, <1>7 DEF Unstick, Claim, Fetch, leaseVars
  <2>2. \/ step'[v] = step[v]
        \/ step[v] \in {"claim", "fetch"} /\ step'[v] \in {"fetch", "deliver"}
    BY <1>1, <1>7 DEF Unstick, Claim, Fetch
  <2> QED
    BY <2>1, <2>2
<1>8. ASSUME NEW w \in Worker, NEW group \in Groups(w),
             \/ HoldForCap(w, group)
             \/ \E r \in Reply : Send(w, group, r)
      PROVE  Shrinks
  <2>1. age' = age /\ take' = take /\ mine'[v] \subseteq mine[v]
    BY <1>1, <1>8 DEF HoldForCap, Send, leaseVars
  <2>2. \/ step'[v] = step[v]
        \/ step[v] = "deliver" /\ step'[v] = "posted"
    BY <1>1, <1>8 DEF HoldForCap, Send
  <2> QED
    BY <2>1, <2>2
<1>9. ASSUME NEW w \in Worker, MarkFailed(w) \/ Held(w)  PROVE Shrinks
  <2>1. age' = age /\ take' = take /\ mine'[v] \subseteq mine[v]
    BY <1>1, <1>9 DEF MarkFailed, Held, EndGroup, leaseVars
  <2>2. \/ step'[v] = step[v]
        \/ step[v] = "posted" /\ step'[v] = "deliver"
    BY <1>1, <1>9 DEF MarkFailed, Held, EndGroup
  <2> QED
    BY <2>1, <2>2
<1>10. ASSUME NEW w \in Worker, Finish(w) \/ Raise(w) \/ Crash(w)
       PROVE  Shrinks
  <2>1. Forget(w)
    BY <1>10 DEF Finish, Raise, Crash
  <2>2. v # w
    BY <1>1, <2>1 DEF Forget
  <2>3. step'[v] = step[v] /\ take'[v] = take[v] /\ mine'[v] = mine[v]
    BY <1>1, <2>1, <2>2 DEF Forget
  <2>4. age'[v] = age[v]
    BY <1>1, <1>10, <2>2 DEF Finish, Raise, Crash, Release, Abandon
  <2> QED
    BY <2>3, <2>4
<1> QED
  BY <1>3, <1>4, <1>5, <1>6, <1>7, <1>8, <1>9, <1>10 DEF Next, Proceed

RateInv == Cardinality(LastMinute) <= Ceiling /\ \A w \in Worker : RateFits(w)

\* With one pass at a time the rows a pass marks were counted when it asked for
\* room, unless the count failed, and then the ceiling rose by what it took.
LEMMA RateIsInductive ==
  ASSUME RATE # 0, IInv, IInv', OneRunner, RateInv, [Next]_vars
  PROVE  RateInv'
<1> USE LeaseAssumption, MailAssumption
<1>0. MailTypeOK /\ MailInv /\ MailTypeOK'
  BY DEF IInv
<1>1. /\ status \in [Mail -> Status] /\ stamp \in [Mail -> 0..Horizon]
      /\ step \in [Worker -> Step] /\ take \in [Worker -> 0..CLAIM]
      /\ mine \in [Worker -> SUBSET Mail] /\ age \in [Worker -> 0..RUN]
      /\ current \in [Worker -> SUBSET Mail] /\ phase \in [Worker -> Phase]
      /\ missed \in Nat
  BY <1>0 DEF MailTypeOK, LeaseTypeOK
<1>2. /\ take' \in [Worker -> 0..CLAIM] /\ mine' \in [Worker -> SUBSET Mail]
  BY <1>0 DEF MailTypeOK
<1>3. Horizon = RUN + MINUTE + 1
  BY DEF Horizon
<1>4. LastMinute \subseteq Mail /\ LastMinute' \subseteq Mail
  BY DEF LastMinute
<1>5. /\ Cardinality(LastMinute) \in Nat /\ Cardinality(LastMinute') \in Nat
      /\ \A w \in Worker : /\ Cardinality(mine[w]) \in Nat
                           /\ Cardinality(mine'[w]) \in Nat
  BY <1>1, <1>2, <1>4, MailsAreCounted
<1>6. /\ Ceiling \in Nat /\ Ceiling' \in {Ceiling, Ceiling + RATE}
      /\ missed' = missed + 1 => Ceiling' = Ceiling + RATE
  <2>1. RATE * (1 + missed) \in Nat
    BY <1>1
  <2>2. RATE * (1 + (missed + 1)) = RATE * (1 + missed) + RATE
    BY <1>1
  <2> QED
    BY <2>1, <2>2, CeilingsRise DEF Ceiling
<1> HIDE DEF Ceiling
<1>7. ASSUME UNCHANGED <<step, take, mine>>, LastMinute' \subseteq LastMinute
      PROVE  RateInv'
  <2>1. Cardinality(LastMinute') <= Cardinality(LastMinute)
    BY <1>4, <1>7, MailsAreCounted
  <2>2. Cardinality(LastMinute') <= Ceiling'
    BY <1>5, <1>6, <2>1 DEF RateInv
  <2>3. ASSUME NEW w \in Worker  PROVE RateFits(w)'
    <3>1. RateFits(w) /\ take[w] \in Int
      BY <1>1 DEF RateInv
    <3>2. step'[w] = "select" => Cardinality(LastMinute') + take'[w] <= Ceiling'
      BY <1>5, <1>6, <1>7, <2>1, <3>1 DEF RateFits
    <3>3. Carrying(w)' => Carrying(w) /\ mine'[w] = mine[w]
      BY <1>7 DEF Carrying
    <3>4. Carrying(w)' => Cardinality(LastMinute') + Cardinality(mine'[w]) <= Ceiling'
      BY <1>5, <1>6, <2>1, <3>1, <3>3 DEF RateFits
    <3> QED
      BY <3>2, <3>4 DEF RateFits
  <2> QED
    BY <2>2, <2>3 DEF RateInv
<1>8. CASE Tick
  <2>1. /\ UNCHANGED <<status, step, take, mine>>
        /\ stamp' = [e \in Mail |-> AtMost(stamp[e] + 1, Horizon)]
    BY <1>8 DEF Tick, passVars
  <2>2. LastMinute' \subseteq LastMinute
    BY <1>1, <1>3, <2>1 DEF LastMinute, AtMost
  <2> QED
    BY <1>7, <2>1, <2>2
<1>9. CASE Midnight
  <2>1. UNCHANGED <<status, stamp, step, take, mine>>
    BY <1>9 DEF Midnight
  <2> QED
    BY <1>7, <2>1 DEF LastMinute
<1>10. ASSUME NEW w \in Worker, MarkSent(w)  PROVE RateInv'
  <2>1. /\ phase[w] = "in" /\ step[w] = "posted" /\ missed' = missed
        /\ status' = Put(status, current[w], "sent")
        /\ stamp' = Put(stamp, current[w], AtMost(age[w], Horizon))
        /\ step' = [step EXCEPT ![w] = "deliver"]
        /\ mine' = [mine EXCEPT ![w] = @ \ current[w]]
    BY <1>10 DEF MarkSent, EndGroup, At, Go, historyVars
  <2>2. current[w] \subseteq mine[w] /\ current[w] # {}
    BY <1>0, <2>1 DEF MailInv, ReplyFits, Groups
  <2>3. Cardinality(LastMinute) + Cardinality(mine[w]) <= Ceiling
    BY <2>1, <2>2 DEF RateInv, RateFits, Carrying
  <2>4. LastMinute' \subseteq LastMinute \cup current[w]
    BY <1>1, <2>1 DEF LastMinute, Put
  <2>5. Cardinality(LastMinute') <= Cardinality(LastMinute) + Cardinality(current[w])
    <3>1. Cardinality(LastMinute') <= Cardinality(LastMinute \cup current[w])
          /\ Cardinality(LastMinute \cup current[w]) \in Nat
      BY <1>1, <1>4, <2>4, MailsAreCounted
    <3>2. Cardinality(LastMinute \cup current[w])
            <= Cardinality(LastMinute) + Cardinality(current[w])
      BY <1>1, <1>4, UnionIsCounted
    <3>3. Cardinality(current[w]) \in Nat
      BY <1>1, MailsAreCounted
    <3> QED
      BY <1>5, <3>1, <3>2, <3>3
  <2>6. /\ Cardinality(mine'[w]) = Cardinality(mine[w]) - Cardinality(current[w])
        /\ Cardinality(current[w]) \in Nat
    <3>1. mine'[w] = mine[w] \ current[w]
      BY <1>1, <2>1
    <3> QED
      BY <1>1, <2>2, <3>1, RestIsCounted, MailsAreCounted
  <2>7. Cardinality(LastMinute') + Cardinality(mine'[w]) <= Ceiling'
    BY SMTT(60), <1>5, <1>6, <2>3, <2>5, <2>6
  <2>8. ASSUME NEW v \in Worker  PROVE RateFits(v)'
    <3>1. CASE v = w
      <4>1. step'[v] # "select"
        BY <1>1, <2>1, <3>1
      <4> QED
        BY <2>7, <3>1, <4>1 DEF RateFits
    <3>2. CASE v # w
      <4>1. phase[v] # "in"
        BY <2>1, <3>2 DEF OneRunner
      <4>2. step[v] = "idle" /\ step'[v] = "idle"
        BY <1>0, <1>1, <2>1, <3>2, <4>1 DEF MailInv, ClaimFits
      <4> QED
        BY <4>2 DEF RateFits, Carrying
    <3> QED
      BY <3>1, <3>2
  <2>9. Cardinality(LastMinute') <= Ceiling'
    BY <1>5, <1>6, <2>7
  <2> QED
    BY <2>8, <2>9 DEF RateInv
<1>11. ASSUME SentStays, ~Tick, ~Midnight, \A w \in Worker : ~MarkSent(w)
       PROVE  RateInv'
  <2>1. LastMinute' = LastMinute
    BY <1>11 DEF SentStays, LastMinute
  <2>2. Cardinality(LastMinute') <= Ceiling'
    BY <1>5, <1>6, <2>1 DEF RateInv
  <2>3. ASSUME NEW v \in Worker  PROVE RateFits(v)'
    <3>1. CASE step'[v] \in {"idle", "unstick", "room"}
      BY <3>1 DEF RateFits, Carrying
    <3>2. CASE step'[v] \notin {"idle", "unstick", "room"}
      <4>1. \/ Room(v)
            \/ Select(v)
            \/ /\ step'[v] = "select" => step[v] = "select" /\ take'[v] = take[v]
               /\ Carrying(v)' => Carrying(v) /\ mine'[v] \subseteq mine[v]
        BY <1>11, <3>2, PassesOnlyShrink
      <4>2. CASE Room(v)
        <5>1. mine'[v] = {}
          BY <1>0, <4>2 DEF Room, At, MailInv, ClaimFits
        <5>2. ASSUME step'[v] = "select"
              PROVE  Cardinality(LastMinute) + take'[v] <= Ceiling'
          <6>1. SentLately(v) \subseteq Mail /\ LastMinute \subseteq SentLately(v)
            BY <1>1 DEF SentLately, LastMinute
          <6>2. /\ Cardinality(LastMinute) <= Cardinality(SentLately(v))
                /\ Cardinality(SentLately(v)) \in Nat
            BY <6>1, MailsAreCounted
          <6>3. ASSUME NEW n \in Int, Admit(v, n)  PROVE take'[v] <= n
            <7>1. ~(n <= 0) /\ take' = [take EXCEPT ![v] = AtMost(CLAIM, n)]
              BY <1>1, <4>2, <5>2, <6>3 DEF Admit, Room, At, Go
            <7> QED
              BY <1>1, <7>1 DEF AtMost
          <6>4. CASE Admit(v, RATE - Cardinality(SentLately(v)))
            <7>1. RATE - Cardinality(SentLately(v)) \in Int
              BY <6>2
            <7>2. take'[v] <= RATE - Cardinality(SentLately(v))
              BY <6>3, <6>4, <7>1
            <7>3. RATE <= Ceiling
              <8>1. RATE * (1 + missed) = RATE + RATE * missed
                BY <1>1
              <8>2. RATE * missed \in Nat
                BY <1>1
              <8> QED
                BY <8>1, <8>2 DEF Ceiling
            <7>4. take'[v] \in Int
              BY <1>2
            <7> QED
              BY <1>5, <1>6, <6>2, <7>2, <7>3, <7>4
          <6>5. CASE Admit(v, RATE) /\ missed' = missed + 1
            <7>1. take'[v] <= RATE /\ take'[v] \in Int
              BY <1>2, <6>3, <6>5
            <7>2. Cardinality(LastMinute) <= Ceiling
              BY DEF RateInv
            <7> QED
              BY <1>5, <1>6, <6>5, <7>1, <7>2
          <6> QED
            BY <4>2, <6>4, <6>5 DEF Room
        <5> QED
          BY <2>1, <5>1, <5>2 DEF RateFits, Carrying
      <4>3. CASE Select(v)
        <5>1. PICK S \in Batches(v) : mine' = [mine EXCEPT ![v] = S]
          BY <4>3 DEF Select
        <5>2. step[v] = "select" /\ step'[v] # "select"
          BY <1>1, <4>3 DEF Select, At, Go
        <5>3. mine'[v] = S /\ Cardinality(S) <= take[v]
          BY <1>1, <5>1 DEF Batches
        <5>4. Cardinality(LastMinute) + take[v] <= Ceiling
          BY <5>2 DEF RateInv, RateFits
        <5>5. take[v] \in Int
          BY <1>1, MailAssumption
        <5> QED
          BY <1>5, <1>6, <2>1, <5>2, <5>3, <5>4, <5>5 DEF RateFits
      <4>4. CASE /\ step'[v] = "select" => step[v] = "select" /\ take'[v] = take[v]
                 /\ Carrying(v)' => Carrying(v) /\ mine'[v] \subseteq mine[v]
        <5>1. RateFits(v) /\ take[v] \in Int
          BY <1>1 DEF RateInv
        <5>2. Carrying(v)' => Cardinality(mine'[v]) <= Cardinality(mine[v])
          BY <1>1, <4>4, MailsAreCounted
        <5>3. Carrying(v)' => Cardinality(LastMinute) + Cardinality(mine'[v]) <= Ceiling'
          BY <1>5, <1>6, <4>4, <5>1, <5>2 DEF RateFits
        <5>4. step'[v] = "select" => Cardinality(LastMinute) + take'[v] <= Ceiling'
          BY <1>5, <1>6, <4>4, <5>1 DEF RateFits
        <5> QED
          BY <2>1, <5>3, <5>4 DEF RateFits
      <4> QED
        BY <4>1, <4>2, <4>3, <4>4
    <3> QED
      BY <3>1, <3>2
  <2> QED
    BY <2>2, <2>3 DEF RateInv
<1> QED
  BY <1>8, <1>9, <1>10, <1>11, OnlyMarkSentSends

\* The ceiling per minute, as the code counts it, for any rate, any batches and
\* any length of a pass within its lease: RATE where no count failed.
THEOREM StampedRateAlways ==
  ASSUME RUN <= STUCK, RUN <= LEASE
  PROVE  Spec => []StampedRate
<1>1. CASE RATE = 0
  <2>1. StampedRate
    BY <1>1 DEF StampedRate
  <2> QED
    BY <2>1, PTL
<1>2. CASE RATE # 0
  <2>1. Init => RateInv
    <3> SUFFICES ASSUME Init  PROVE RateInv
      OBVIOUS
    <3>1. LastMinute = {}
      BY DEF Init, LastMinute
    <3>2. Cardinality(LastMinute) <= Ceiling
      BY <3>1, FS_EmptySet, MailAssumption DEF Init, Ceiling
    <3> QED
      BY <3>2 DEF Init, RateInv, RateFits, Carrying
  <2>2. IInv /\ IInv' /\ OneRunner /\ RateInv /\ [Next]_vars => RateInv'
    BY <1>2, RateIsInductive
  <2>3. RateInv => StampedRate
    BY DEF RateInv, LastMinute, Ceiling, StampedRate
  <2> QED
    BY <2>1, <2>2, <2>3, IInvAlways, OnePassAtATime, PTL DEF Spec
<1> QED
  BY <1>1, <1>2
-----------------------------------------------------------------------------
\* Mails on record for a day, counted back from the present one, as far as a cap
\* is concerned with them, and how many that may be when messages have up to G
\* rows.
SentOn(d, cap) == {e \in cap.of : status[e] = "sent" /\ days[e] = d}
Allowance(G, cap) == cap.limit + G - 1 + G * missed

\* may_send() has been asked of the group that is on the wire, or could not be,
\* and nothing was recorded since.
DayInv(G, cap) ==
    /\ \A d \in 0..1 : Cardinality(SentOn(d, cap)) <= Allowance(G, cap)
    /\ \A w \in Worker : step[w] = "posted" =>
          Cardinality(SentOn(eve[w], cap)) + Cardinality(current[w] \cap cap.of)
             <= Allowance(G, cap)

\* A message has at most G rows, and a batch is business development or is not.
Batched(G, cap) ==
    \A e \in Mail : /\ Cardinality({f \in Mail : Batch[f] = Batch[e]}) <= G
                    /\ \A f \in Mail : e \in cap.of /\ Batch[f] = Batch[e]
                                          => f \in cap.of

\* A pass on the wire was there before or has just handed a group over.
LEMMA OnTheWireByNow ==
  ASSUME IInv, [Next]_vars, NEW v \in Worker,
         ~Tick, ~Midnight, \A w \in Worker : ~MarkSent(w), step'[v] = "posted"
  PROVE  /\ eve'[v] = eve[v]
         /\ \/ step[v] = "posted" /\ current'[v] = current[v]
            \/ \E group \in Groups(v), r \in Reply : Send(v, group, r)
<1> DEFINE Goal == /\ eve'[v] = eve[v]
                   /\ \/ step[v] = "posted" /\ current'[v] = current[v]
                      \/ \E group \in Groups(v), r \in Reply : Send(v, group, r)
<1> SUFFICES Goal
  OBVIOUS
<1> USE DEF At, Go
<1>0. MailTypeOK /\ MailInv
  BY DEF IInv
<1>1. /\ step \in [Worker -> Step] /\ eve \in [Worker -> 0..1]
      /\ current \in [Worker -> SUBSET Mail]
  BY <1>0 DEF MailTypeOK
<1>2. ASSUME UNCHANGED <<step, eve, current>>  PROVE Goal
  BY <1>2
<1>3. ASSUME NEW e \in Mail, Enqueue(e) \/ Cancel(e) \/ Revive(e)  PROVE Goal
  BY <1>2, <1>3 DEF Enqueue, Cancel, Revive, passVars
<1>4. CASE Switch \/ UNCHANGED vars
  BY <1>2, <1>4 DEF Switch, vars, passVars
<1>5. ASSUME NEW w \in Worker, Start(w) \/ Misread(w) \/ Begin(w) \/ Skip(w)
      PROVE  Goal
  <2>1. step[w] = "idle"
    BY <1>0, <1>5 DEF Start, Misread, Asks, Begin, Skip, Ask, Take, Refuse,
                      MailInv, ClaimFits
  <2>2. /\ step'[w] # "posted" /\ current' = current
        /\ \A u \in Worker \ {w} : step'[u] = step[u] /\ eve'[u] = eve[u]
    BY <1>1, <1>5, <2>1 DEF Start, Misread, Asks, Begin, Skip
  <2> QED
    BY <2>2
<1>6. ASSUME NEW w \in Worker,
             \/ Unstick(w) \/ Room(w) \/ Select(w) \/ Claim(w) \/ Fetch(w)
             \/ \E group \in Groups(w) : HoldForCap(w, group)
             \/ MarkFailed(w) \/ Held(w)
      PROVE  Goal
  <2>1. eve' = eve
    BY <1>6 DEF Unstick, Room, Select, Claim, Fetch, HoldForCap, MarkFailed,
                Held, EndGroup
  <2>2. step'[v] = step[v] /\ current'[v] = current[v]
    BY <1>1, <1>6 DEF Unstick, Room, Admit, Select, Claim, Fetch, HoldForCap,
                      MarkFailed, Held, EndGroup
  <2> QED
    BY <2>1, <2>2
<1>7. ASSUME NEW w \in Worker, NEW group \in Groups(w), NEW r \in Reply,
             Send(w, group, r)
      PROVE  Goal
  <2>1. /\ eve' = eve /\ step' = [step EXCEPT ![w] = "posted"]
        /\ current' = [current EXCEPT ![w] = group]
    BY <1>7 DEF Send
  <2>2. CASE v = w
    BY <1>7, <2>1, <2>2
  <2>3. CASE v # w
    BY <1>1, <2>1, <2>3
  <2> QED
    BY <2>2, <2>3
<1>8. ASSUME NEW w \in Worker, Finish(w) \/ Raise(w) \/ Crash(w)  PROVE Goal
  <2>1. Forget(w)
    BY <1>8 DEF Finish, Raise, Crash
  <2> QED
    BY <1>1, <2>1 DEF Forget
<1> QED
  BY <1>3, <1>4, <1>5, <1>6, <1>7, <1>8 DEF Next, Proceed

\* A group that goes out was below the cap by the day of its own pass, or the
\* allowance rose by a message.
LEMMA AllowedOut ==
  ASSUME NEW cap \in Caps, cap.limit # 0, NEW G \in Nat, Batched(G, cap),
         IInv, DayInv(G, cap),
         NEW v \in Worker, NEW group \in Groups(v), NEW r \in Reply,
         Send(v, group, r)
  PROVE  Cardinality(SentOn(eve[v], cap)) + Cardinality(group \cap cap.of)
            <= Allowance(G, cap)'
<1> USE MailAssumption
<1>0. /\ mine \in [Worker -> SUBSET Mail] /\ eve \in [Worker -> 0..1]
      /\ missed \in Nat
  BY DEF IInv, MailTypeOK
<1>1. cap.limit \in Nat /\ cap.of \subseteq Mail
  BY DEF Caps
<1>2. PICK e0 \in mine[v] : group = {f \in mine[v] : Batch[f] = Batch[e0]}
  BY DEF Groups
<1>3. group \subseteq Mail
  BY <1>0, <1>2
<1>4. Cardinality(group \cap cap.of) <= G /\ Cardinality(group \cap cap.of) \in Nat
  <2> DEFINE whole == {f \in Mail : Batch[f] = Batch[e0]}
  <2>1. group \cap cap.of \subseteq whole /\ whole \subseteq Mail
    BY <1>0, <1>2
  <2>2. /\ Cardinality(group \cap cap.of) <= Cardinality(whole)
        /\ Cardinality(group \cap cap.of) \in Nat /\ Cardinality(whole) \in Nat
    BY <2>1, MailsAreCounted
  <2>3. Cardinality(whole) <= G
    BY <1>0, <1>2 DEF Batched
  <2> QED
    BY <2>2, <2>3
<1>5. PICK first \in group : missed' = missed + Passed(v, first)
  BY DEF Send
<1>6. /\ SentOn(eve[v], cap) \subseteq SentToday(v) \cap cap.of
      /\ SentToday(v) \cap cap.of \subseteq Mail
      /\ SentOn(eve[v], cap) \subseteq Mail
  BY <1>0, <1>1 DEF SentOn, SentToday
<1>7. /\ Cardinality(SentOn(eve[v], cap)) <= Cardinality(SentToday(v) \cap cap.of)
      /\ Cardinality(SentOn(eve[v], cap)) \in Nat
      /\ Cardinality(SentToday(v) \cap cap.of) \in Nat
  BY <1>6, MailsAreCounted
<1>8. G * missed \in Nat /\ G * (missed + 1) = G * missed + G
  BY <1>0
<1>9. Cardinality(SentOn(eve[v], cap)) <= cap.limit + G - 1 + G * missed
  BY <1>0 DEF DayInv, Allowance
<1>10. CASE Capped(v, first)
  <2>1. missed' = missed + 1
    BY <1>5, <1>10 DEF Passed
  <2>2. Allowance(G, cap)' = cap.limit + G - 1 + G * missed + G
    BY <1>1, <1>8, <2>1 DEF Allowance
  <2> QED
    BY SMTT(60), <1>1, <1>4, <1>7, <1>8, <1>9, <2>2
<1>11. CASE ~Capped(v, first)
  <2>1. missed' = missed
    BY <1>0, <1>5, <1>11 DEF Passed
  <2>2. Allowance(G, cap)' = cap.limit + G - 1 + G * missed
    BY <2>1 DEF Allowance
  <2>3. CASE group \cap cap.of = {}
    <3>1. Cardinality(group \cap cap.of) = 0
      BY <2>3, FS_EmptySet
    <3> QED
      BY <1>1, <1>7, <1>8, <1>9, <2>2, <3>1
  <2>4. CASE group \cap cap.of # {}
    <3>1. first \in cap.of
      BY <1>0, <1>2, <2>4 DEF Batched
    <3>2. ~Full(v, cap)
      BY <1>11, <3>1, Zenon DEF Capped
    <3>3. Cardinality(SentToday(v) \cap cap.of) < cap.limit
      BY <1>1, <1>7, <3>2 DEF Full
    <3> QED
      BY SMTT(60), <1>1, <1>4, <1>7, <1>8, <2>2, <3>3
  <2> QED
    BY <2>3, <2>4
<1> QED
  BY <1>10, <1>11

\* With one pass at a time the day's count is current when it is compared with
\* the cap, so it is overrun by the rest of one group and no more, and by one
\* group for each count that failed.
LEMMA DayIsInductive ==
  ASSUME NEW cap \in Caps, cap.limit # 0, NEW G \in Nat, Batched(G, cap),
         IInv, IInv', OneRunner, DayInv(G, cap), [Next]_vars
  PROVE  DayInv(G, cap)'
<1> USE MailAssumption
<1>0. MailTypeOK /\ MailInv
  BY DEF IInv
<1>1. /\ status \in [Mail -> Status] /\ days \in [Mail -> 0..2]
      /\ step \in [Worker -> Step] /\ eve \in [Worker -> 0..1]
      /\ mine \in [Worker -> SUBSET Mail] /\ current \in [Worker -> SUBSET Mail]
      /\ current' \in [Worker -> SUBSET Mail] /\ missed \in Nat
  BY DEF IInv, MailTypeOK
<1>2. cap.limit \in Nat /\ cap.of \subseteq Mail
  BY DEF Caps
<1>3. /\ \A S \in SUBSET Mail : Cardinality(S) \in Nat
      /\ \A d : SentOn(d, cap) \subseteq Mail /\ SentOn(d, cap)' \subseteq Mail
  BY <1>2, MailsAreCounted DEF SentOn
<1>4. /\ Allowance(G, cap) \in Int /\ Allowance(G, cap)' \in Int
      /\ Allowance(G, cap) <= Allowance(G, cap)'
      /\ missed' = missed => Allowance(G, cap)' = Allowance(G, cap)
  <2>1. G * missed \in Nat /\ G * (missed + 1) = G * missed + G
    BY <1>1
  <2>2. missed' \in {missed, missed + 1}
    BY CeilingsRise
  <2> QED
    BY <1>2, <2>1, <2>2 DEF Allowance
<1>5. CASE Tick
  <2>1. UNCHANGED <<status, days, step, eve, current, missed>>
    BY <1>5 DEF Tick, passVars
  <2> QED
    BY <1>4, <2>1 DEF DayInv, SentOn
<1>6. CASE Midnight
  <2>1. /\ UNCHANGED <<status, step, phase, current, missed>>
        /\ \A w \in Worker : eve[w] = 0
        /\ eve' = [w \in Worker |-> IF phase[w] = "out" THEN 0 ELSE 1]
        /\ days' = [e \in Mail |-> IF status[e] = "sent" THEN AtMost(days[e] + 1, 2)
                                                         ELSE days[e]]
    BY <1>6 DEF Midnight, leaseVars, historyVars
  <2>0. ASSUME NEW e \in Mail, status[e] = "sent"
        PROVE  days'[e] # 0 /\ (days'[e] = 1 => days[e] = 0)
    <3>1. days[e] \in 0..2 /\ days'[e] = AtMost(days[e] + 1, 2)
      BY <1>1, <2>0, <2>1
    <3>2. \A n \in 0..2 : AtMost(n + 1, 2) # 0 /\ (AtMost(n + 1, 2) = 1 => n = 0)
      BY DEF AtMost
    <3> QED
      BY <3>1, <3>2
  <2>2. SentOn(0, cap)' = {}
    BY <1>2, <2>0, <2>1 DEF SentOn
  <2>3. SentOn(1, cap)' \subseteq SentOn(0, cap)
    BY <1>2, <2>0, <2>1 DEF SentOn
  <2>4. ASSUME NEW d \in 0..1  PROVE Cardinality(SentOn(d, cap)') <= Allowance(G, cap)'
    <3>1. SentOn(d, cap)' \subseteq SentOn(0, cap)
      BY <2>2, <2>3, <2>4
    <3>2. Cardinality(SentOn(d, cap)') <= Cardinality(SentOn(0, cap))
      BY <1>3, <3>1, MailsAreCounted
    <3>3. Cardinality(SentOn(0, cap)) <= Allowance(G, cap)
      BY DEF DayInv
    <3>4. Cardinality(SentOn(d, cap)') \in Nat /\ Cardinality(SentOn(0, cap)) \in Nat
      BY <1>3
    <3> QED
      BY <1>4, <3>2, <3>3, <3>4
  <2>5. ASSUME NEW w \in Worker, step'[w] = "posted"
        PROVE  Cardinality(SentOn(eve[w], cap)') + Cardinality(current'[w] \cap cap.of)
                  <= Allowance(G, cap)'
    <3>1. phase[w] = "in" /\ step[w] = "posted"
      BY <1>0, <2>1, <2>5 DEF MailInv, ClaimFits
    <3>2. eve'[w] = 1 /\ eve[w] = 0
      BY <2>1, <3>1
    <3>3. SentOn(eve[w], cap)' \subseteq SentOn(eve[w], cap)
      BY <2>3, <3>2 DEF SentOn
    <3>4. Cardinality(SentOn(eve[w], cap)') <= Cardinality(SentOn(eve[w], cap))
      BY <1>3, <3>3, MailsAreCounted
    <3>5. Cardinality(SentOn(eve[w], cap)) + Cardinality(current[w] \cap cap.of)
            <= Allowance(G, cap)
      BY <3>1 DEF DayInv
    <3>6. /\ Cardinality(SentOn(eve[w], cap)) \in Nat
          /\ Cardinality(SentOn(eve[w], cap)') \in Nat
          /\ Cardinality(current[w] \cap cap.of) \in Nat
      BY <1>1, <1>3
    <3>7. current'[w] = current[w]
      BY <2>1
    <3> QED
      BY <1>4, <3>4, <3>5, <3>6, <3>7
  <2> QED
    BY <2>4, <2>5 DEF DayInv
<1>7. ASSUME NEW w \in Worker, MarkSent(w)  PROVE DayInv(G, cap)'
  <2>1. /\ phase[w] = "in" /\ step[w] = "posted" /\ missed' = missed
        /\ status' = Put(status, current[w], "sent")
        /\ days' = Put(days, current[w], eve[w])
        /\ step' = [step EXCEPT ![w] = "deliver"]
    BY <1>7 DEF MarkSent, EndGroup, At, Go, historyVars
  <2>2. ASSUME NEW d \in 0..1  PROVE Cardinality(SentOn(d, cap)') <= Allowance(G, cap)'
    <3>1. CASE d = eve[w]
      <4> DEFINE fresh == current[w] \cap cap.of
      <4>1. SentOn(d, cap)' \subseteq SentOn(d, cap) \cup fresh
        BY <1>1, <1>2, <2>1 DEF SentOn, Put
      <4>2. fresh \subseteq Mail /\ SentOn(d, cap) \cup fresh \subseteq Mail
        BY <1>1, <1>3
      <4>3. Cardinality(SentOn(d, cap)') <= Cardinality(SentOn(d, cap) \cup fresh)
        BY <4>1, <4>2, MailsAreCounted
      <4>4. Cardinality(SentOn(d, cap) \cup fresh)
              <= Cardinality(SentOn(d, cap)) + Cardinality(fresh)
        BY <1>3, <4>2, UnionIsCounted
      <4>5. Cardinality(SentOn(d, cap)) + Cardinality(fresh) <= Allowance(G, cap)
        BY <2>1, <3>1 DEF DayInv
      <4>6. /\ Cardinality(SentOn(d, cap)') \in Nat /\ Cardinality(SentOn(d, cap)) \in Nat
            /\ Cardinality(SentOn(d, cap) \cup fresh) \in Nat
            /\ Cardinality(fresh) \in Nat
        BY <1>3, <4>2
      <4> HIDE DEF fresh
      <4> QED
        BY <1>4, <2>1, <4>3, <4>4, <4>5, <4>6
    <3>2. CASE d # eve[w]
      <4>1. SentOn(d, cap)' \subseteq SentOn(d, cap)
        BY <1>1, <1>2, <2>1, <3>2 DEF SentOn, Put
      <4>2. Cardinality(SentOn(d, cap)') <= Cardinality(SentOn(d, cap))
        BY <1>3, <4>1, MailsAreCounted
      <4>3. Cardinality(SentOn(d, cap)) <= Allowance(G, cap)
        BY DEF DayInv
      <4>4. Cardinality(SentOn(d, cap)') \in Nat /\ Cardinality(SentOn(d, cap)) \in Nat
        BY <1>3
      <4> QED
        BY <1>4, <4>2, <4>3, <4>4
    <3> QED
      BY <3>1, <3>2
  <2>3. ASSUME NEW v \in Worker  PROVE step'[v] # "posted"
    <3>1. CASE v = w
      BY <1>1, <2>1, <3>1
    <3>2. CASE v # w
      <4>1. step[v] = "idle"
        BY <1>0, <2>1, <3>2 DEF OneRunner, MailInv, ClaimFits
      <4> QED
        BY <1>1, <2>1, <3>2, <4>1
    <3> QED
      BY <3>1, <3>2
  <2> QED
    BY <2>2, <2>3 DEF DayInv
<1>8. ASSUME SentStays, ~Tick, ~Midnight, \A w \in Worker : ~MarkSent(w)
      PROVE  DayInv(G, cap)'
  <2>1. \A d \in 0..1 : SentOn(d, cap)' = SentOn(d, cap)
    BY <1>2, <1>8 DEF SentStays, SentOn
  <2>2. ASSUME NEW d \in 0..1  PROVE Cardinality(SentOn(d, cap)') <= Allowance(G, cap)'
    <3>1. Cardinality(SentOn(d, cap)) <= Allowance(G, cap) /\ Cardinality(SentOn(d, cap)) \in Nat
      BY <1>3 DEF DayInv
    <3> QED
      BY <1>4, <2>1, <3>1
  <2>3. ASSUME NEW v \in Worker, step'[v] = "posted"
        PROVE  Cardinality(SentOn(eve[v], cap)') + Cardinality(current'[v] \cap cap.of)
                  <= Allowance(G, cap)'
    <3>1. /\ eve'[v] = eve[v]
          /\ \/ step[v] = "posted" /\ current'[v] = current[v]
             \/ \E group \in Groups(v), r \in Reply : Send(v, group, r)
      BY <1>8, <2>3, OnTheWireByNow
    <3>2. SentOn(eve[v], cap)' = SentOn(eve[v], cap)
      BY <1>1, <2>1, <3>1 DEF SentOn
    <3>3. CASE step[v] = "posted" /\ current'[v] = current[v]
      <4>1. Cardinality(SentOn(eve[v], cap)) + Cardinality(current[v] \cap cap.of)
              <= Allowance(G, cap)
        BY <3>3 DEF DayInv
      <4>2. /\ Cardinality(SentOn(eve[v], cap)) \in Nat
            /\ Cardinality(current[v] \cap cap.of) \in Nat
        BY <1>1, <1>3
      <4> QED
        BY <1>4, <3>2, <3>3, <4>1, <4>2
    <3>4. ASSUME NEW group \in Groups(v), NEW r \in Reply, Send(v, group, r)
          PROVE  Cardinality(SentOn(eve[v], cap)') + Cardinality(current'[v] \cap cap.of)
                    <= Allowance(G, cap)'
      <4>1. Cardinality(SentOn(eve[v], cap)) + Cardinality(group \cap cap.of)
              <= Allowance(G, cap)'
        BY <3>4, AllowedOut
      <4>2. current'[v] = group
        BY <1>1, <3>4 DEF Send
      <4> QED
        BY <3>2, <4>1, <4>2
    <3> QED
      BY <3>1, <3>3, <3>4
  <2> QED
    BY <2>2, <2>3 DEF DayInv
<1> QED
  BY <1>5, <1>6, <1>7, <1>8, OnlyMarkSentSends

LEMMA DayInitially ==
  ASSUME NEW cap \in Caps, cap.limit # 0, NEW G \in Nat, Init
  PROVE  DayInv(G, cap)
<1>1. \A d \in 0..1 : SentOn(d, cap) = {}
  BY MailAssumption DEF Init, SentOn, Caps
<1>2. missed = 0 /\ cap.limit \in Nat
  BY MailAssumption DEF Init, Caps
<1>3. 0 <= Allowance(G, cap)
  BY <1>2 DEF Allowance
<1> QED
  BY <1>1, <1>3, FS_EmptySet DEF Init, DayInv

\* Each daily cap with batches: as many recipients as the cap, at the most the
\* rest of the one message that crossed it, where G bounds a message, and one
\* message more for each count that failed.
THEOREM DayWithBatches ==
  ASSUME RUN <= STUCK, RUN <= LEASE, NEW cap \in Caps, cap.limit # 0,
         NEW G \in Nat, Batched(G, cap)
  PROVE  Spec => [](\A d \in 0..1 : Cardinality(SentOn(d, cap))
                                       <= cap.limit + G - 1 + G * missed)
<1>1. Init => DayInv(G, cap)
  BY DayInitially
<1>2. IInv /\ IInv' /\ OneRunner /\ DayInv(G, cap) /\ [Next]_vars => DayInv(G, cap)'
  BY DayIsInductive
<1>3. DayInv(G, cap) => \A d \in 0..1 : Cardinality(SentOn(d, cap))
                                           <= cap.limit + G - 1 + G * missed
  BY DEF DayInv, Allowance
<1> QED
  BY <1>1, <1>2, <1>3, IInvAlways, OnePassAtATime, PTL DEF Spec

\* The same of both caps at once.
DaysInv == \A cap \in Caps : cap.limit # 0 => DayInv(1, cap)

\* Without batches the caps are exact: no day has more recipients than they
\* allow, except one for each count that failed.
THEOREM StampedDayAlways ==
  ASSUME RUN <= STUCK, RUN <= LEASE,
         \A e, f \in Mail : Batch[e] = Batch[f] => e = f
  PROVE  Spec => []StampedDay
<1>1. ASSUME NEW cap \in Caps  PROVE Batched(1, cap)
  <2>1. ASSUME NEW e \in Mail
        PROVE  Cardinality({f \in Mail : Batch[f] = Batch[e]}) <= 1
    <3>1. {f \in Mail : Batch[f] = Batch[e]} = {e}
      OBVIOUS
    <3>2. Cardinality({e}) = 1
      BY FS_Singleton
    <3> QED
      BY <3>1, <3>2
  <2> QED
    BY <2>1 DEF Batched
<1>2. Init => DaysInv
  BY DayInitially DEF DaysInv
<1>3. IInv /\ IInv' /\ OneRunner /\ DaysInv /\ [Next]_vars => DaysInv'
  <2> SUFFICES ASSUME IInv, IInv', OneRunner, DaysInv, [Next]_vars,
                      NEW cap \in Caps, cap.limit # 0
               PROVE  DayInv(1, cap)'
    BY DEF DaysInv, Caps
  <2> QED
    BY <1>1, DayIsInductive DEF DaysInv
<1>4. IInv /\ DaysInv => StampedDay
  <2> SUFFICES ASSUME IInv, NEW cap \in Caps, cap.limit # 0, DayInv(1, cap),
                      NEW d \in 0..1
               PROVE  Cardinality(SentOn(d, cap)) <= cap.limit + missed
    BY DEF DaysInv, StampedDay, SentOn
  <2>1. cap.limit \in Nat /\ missed \in Nat
    BY MailAssumption DEF Caps, IInv, MailTypeOK
  <2>2. Allowance(1, cap) = cap.limit + missed
    BY <2>1 DEF Allowance
  <2> QED
    BY <2>2 DEF DayInv
<1> QED
  BY <1>2, <1>3, <1>4, IInvAlways, OnePassAtATime, PTL DEF Spec
=============================================================================
