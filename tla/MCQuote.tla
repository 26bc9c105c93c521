------------------------------ MODULE MCQuote ------------------------------
(* Instances of QuoteLifecycle for TLC.                                      *)
EXTENDS QuoteLifecycle, TLC

CONSTANTS q1, q2, q3, pic, head, boss

OneQuote == {q1}
TwoQuotes == {q1, q2}
ThreeQuotes == {q1, q2, q3}
PreparedByPic == [q \in Quote |-> pic]
Nobody == {}

\* Requests are interchangeable, and so are quotes (safety runs only).
Symmetric == Permutations(Clerk) \cup Permutations(Quote)
=============================================================================
