-------------------------- MODULE JobLease_proofs --------------------------
(***************************************************************************)
(* Theorems about the lease of app/services/leases.py, for any set of      *)
(* workers, any lease length and any bound on a run.                       *)
(***************************************************************************)
EXTENDS JobLease, TLAPS

\* Types are kept by every operation; the counters stay in their ranges
\* because Tick stops at them.
LEMMA LeaseTypeInductive ==
  ASSUME LeaseTypeOK, [LeaseNext]_leaseVars
  PROVE  LeaseTypeOK'
<1> USE LeaseAssumption DEF LeaseTypeOK, LongExpired, Phase
<1>1. ASSUME NEW w \in Worker, Ask(w)  PROVE LeaseTypeOK'
  BY <1>1 DEF Ask
<1>2. ASSUME NEW w \in Worker, Take(w)  PROVE LeaseTypeOK'
  BY <1>2 DEF Take
<1>3. ASSUME NEW w \in Worker, Refuse(w)  PROVE LeaseTypeOK'
  BY <1>3 DEF Refuse
<1>4. ASSUME NEW w \in Worker, Renew(w)  PROVE LeaseTypeOK'
  BY <1>4 DEF Renew
<1>5. ASSUME NEW w \in Worker, Release(w)  PROVE LeaseTypeOK'
  BY <1>5 DEF Release
<1>6. ASSUME NEW w \in Worker, Abandon(w)  PROVE LeaseTypeOK'
  BY <1>6 DEF Abandon
<1>7. CASE LeaseTick
  BY <1>7 DEF LeaseTick, Atleast
<1>8. CASE UNCHANGED leaseVars
  BY <1>8 DEF leaseVars
<1> QED
  BY <1>1, <1>2, <1>3, <1>4, <1>5, <1>6, <1>7, <1>8 DEF LeaseNext

\* Every variable of the lease keeps its type, for any lease and run length.
THEOREM LeaseTypeCorrect == LeaseSpec => []LeaseTypeOK
<1>1. LeaseInit => LeaseTypeOK
  BY LeaseAssumption DEF LeaseInit, LeaseTypeOK, LongExpired, Phase
<1>2. LeaseTypeOK /\ [LeaseNext]_leaseVars => LeaseTypeOK'
  BY LeaseTypeInductive
<1> QED
  BY <1>1, <1>2, PTL DEF LeaseSpec

\* A lease nobody has taken is free, and every worker inside holds a lease as
\* long as LEASE less its own age: a step of another worker cannot take it,
\* because that needs an expiry in the past and RUN <= LEASE keeps it ahead.
LEMMA InsideHoldsTheLeaseIsInductive ==
  ASSUME RUN <= LEASE, LeaseTypeOK, InsideHoldsTheLease, [LeaseNext]_leaseVars
  PROVE  InsideHoldsTheLease'
<1> USE LeaseAssumption DEF LeaseTypeOK, InsideHoldsTheLease, LongExpired, Phase
<1>1. ASSUME NEW w \in Worker, Ask(w)  PROVE InsideHoldsTheLease'
  BY <1>1 DEF Ask
<1>2. ASSUME NEW w \in Worker, Take(w)  PROVE InsideHoldsTheLease'
  <2>1. \A v \in Worker : phase[v] # "in"
    <3> SUFFICES ASSUME NEW v \in Worker, phase[v] = "in"  PROVE FALSE
      OBVIOUS
    <3>1. holder = v /\ left = LEASE - age[v] /\ age[v] \in 0..RUN
      OBVIOUS
    <3>2. left >= 0 /\ age[w] >= 0
      BY <3>1
    <3> QED
      BY <1>2, <3>1, <3>2 DEF Take, Free
  <2> QED
    BY <1>2, <2>1 DEF Take
<1>3. ASSUME NEW w \in Worker, Refuse(w)  PROVE InsideHoldsTheLease'
  BY <1>3 DEF Refuse
<1>4. ASSUME NEW w \in Worker, Renew(w)  PROVE InsideHoldsTheLease'
  BY <1>4 DEF Renew
<1>5. ASSUME NEW w \in Worker, Release(w)  PROVE InsideHoldsTheLease'
  BY <1>5 DEF Release
<1>6. ASSUME NEW w \in Worker, Abandon(w)  PROVE InsideHoldsTheLease'
  BY <1>6 DEF Abandon
<1>7. CASE LeaseTick
  BY <1>7 DEF LeaseTick, Atleast
<1>8. CASE UNCHANGED leaseVars
  BY <1>8 DEF leaseVars
<1> QED
  BY <1>1, <1>2, <1>3, <1>4, <1>5, <1>6, <1>7, <1>8 DEF LeaseNext

\* "Nothing here may run twice at once": it holds whenever no run outlasts the
\* lease, however many processes ask and however they crash.
THEOREM OneRunnerAtATime ==
  ASSUME RUN <= LEASE
  PROVE  LeaseSpec => []OneRunner
<1>1. LeaseInit => InsideHoldsTheLease
  BY DEF LeaseInit, InsideHoldsTheLease
<1>2. LeaseTypeOK /\ InsideHoldsTheLease /\ [LeaseNext]_leaseVars
        => InsideHoldsTheLease'
  BY InsideHoldsTheLeaseIsInductive
<1>3. InsideHoldsTheLease => OneRunner
  BY DEF InsideHoldsTheLease, OneRunner
<1> QED
  BY <1>1, <1>2, <1>3, LeaseTypeCorrect, PTL DEF LeaseSpec

\* A lease that has not run out is never taken from its holder nor released by
\* anybody else - whatever the length of the runs, so also for the worker that
\* was overtaken and releases late.
THEOREM LeaseEndsWithItsHolder == LeaseSpec => OnlyItsHolderEndsALease
<1> DEFINE FreshIsFree == holder = NoWorker => left < 0
<1> USE LeaseAssumption DEF LeaseTypeOK, LongExpired, Phase
<1>1. LeaseInit => FreshIsFree
  BY DEF LeaseInit
<1>2. LeaseTypeOK /\ FreshIsFree /\ [LeaseNext]_leaseVars => FreshIsFree'
  BY DEF LeaseNext, leaseVars, Ask, Take, Refuse, Renew, Release, Abandon,
         LeaseTick, Atleast
<1>3. ASSUME LeaseTypeOK, FreshIsFree, LeaseNext,
             left >= 0, holder' # holder \/ left' < left - 1
      PROVE  phase[holder] = "in" /\ phase'[holder] = "out"
  <2>1. ASSUME NEW w \in Worker, Take(w)  PROVE FALSE
    BY <1>3, <2>1 DEF Take, Free
  <2>2. ASSUME NEW w \in Worker, Release(w)
        PROVE  phase[holder] = "in" /\ phase'[holder] = "out"
    BY <1>3, <2>2 DEF Release
  <2>3. ASSUME NEW w \in Worker, Renew(w)  PROVE FALSE
    BY <1>3, <2>3 DEF Renew
  <2>4. ASSUME LeaseTick  PROVE FALSE
    BY <1>3, <2>4 DEF LeaseTick, Atleast
  <2>5. ASSUME NEW w \in Worker, Ask(w) \/ Refuse(w) \/ Abandon(w)
        PROVE FALSE
    BY <1>3, <2>5 DEF Ask, Refuse, Abandon
  <2> QED
    BY <1>3, <2>1, <2>2, <2>3, <2>4, <2>5 DEF LeaseNext
<1>4. LeaseTypeOK /\ FreshIsFree /\ [LeaseNext]_leaseVars
        => [left >= 0 /\ (holder' # holder \/ left' < left - 1)
              => phase[holder] = "in" /\ phase'[holder] = "out"]_leaseVars
  BY <1>3
<1> QED
  BY <1>1, <1>2, <1>4, LeaseTypeCorrect, PTL
     DEF LeaseSpec, OnlyItsHolderEndsALease
=============================================================================
