-------------------------------- MODULE MCRfq --------------------------------
(* An instance of RfqChain for TLC: the numbers of the code, without the      *)
(* steps nothing ever closes, and one optional step instead of two.           *)
EXTENDS RfqChain

Hours == [s \in Step |-> [p \in Priority |->
            CASE s = Award -> 0
              [] s = Registration \/ p = "High" -> 1
              [] OTHER -> 2]]
=============================================================================
