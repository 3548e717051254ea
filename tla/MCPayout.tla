------------------------------- MODULE MCPayout -------------------------------
(* Constants for the model checking of Payout. *)
EXTENDS Payout

CONSTANTS o1, o2, o3, j1, j2, t1, t2

Separate    == (j1 :> o1) @@ (j2 :> o2)
AllOfOne    == [j \in Job |-> o1]
\* Each was rescheduled away from somebody else; neither was rescheduled.
BothMoved   == (j1 :> o2) @@ (j2 :> o3)
Undisturbed == [j \in Job |-> NoOwner]
\* j1 is announced as fulfilled again.
OnceAndAgain == (j1 :> 2) @@ (j2 :> 1)
One         == [j \in Job |-> 1]
Two         == [j \in Job |-> 2]
==============================================================================
