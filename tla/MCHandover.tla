----------------------------- MODULE MCHandover -----------------------------
(* Instances of Handover for TLC: two workers that keep apart, over a win    *)
(* and a handover made by hand of one opportunity and two wins of one        *)
(* quotation; and two workers that do not, over one handover.                *)
EXTENDS Handover, TLC

CONSTANTS h1, h2, h3, h4, o1, q1, a1, a2

OneRow == {h1}
NoOpportunity == (h1 :> None)
NoQuote == (h1 :> None)

FourRows == {h1, h2, h3, h4}
SharedOpportunity ==
    (h1 :> o1) @@ (h2 :> o1) @@ (h3 :> None) @@ (h4 :> None)
SharedQuote == (h1 :> None) @@ (h2 :> None) @@ (h3 :> q1) @@ (h4 :> q1)
Won == {h1, h3, h4}
\* One of each pair, so that two handovers may have an account, or none.
OneOfEach == {h1, h3}
Accounts == {a1, a2}

Workers == Permutations(Clerk)
Alike == Workers \cup Permutations(Accounts)
=============================================================================
