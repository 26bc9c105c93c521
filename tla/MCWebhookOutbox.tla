--------------------------- MODULE MCWebhookOutbox ---------------------------
(* Instances of WebhookOutbox for TLC: two passes over one or two events.    *)
EXTENDS WebhookOutbox, TLC

CONSTANTS w1, w2, e1, e2

TwoPasses == {w1, w2}
NoRenewers == {}
OneEvent == {e1}
TwoEvents == {e1, e2}
BackoffTicks == <<1, 2>>
ShortBackoff == <<1, 1>>
RetryAfterTicks == {2}
NoRetryAfter == {}

\* Passes are interchangeable, and so are events (safety runs only).
Symmetric == Permutations(TwoPasses) \cup Permutations(TwoEvents)
=============================================================================
