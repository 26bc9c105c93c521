----------------------------- MODULE MCJobLease -----------------------------
(* Instances of JobLease for TLC: three runners of one job, one of which    *)
(* calls renew().                                                           *)
EXTENDS JobLease, TLC

CONSTANTS w1, w2, w3

Runners == {w1, w2, w3}
Renewers == {w1}
=============================================================================
