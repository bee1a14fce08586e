------------------------------ MODULE TreeCalls ------------------------------
(***************************************************************************)
(* TreeUpdate, a call of updateTree in steps, side by side with CodingTree *)
(* where the same call is a function: at the beginning of each call the    *)
(* function is called as well, and its result is kept until the steps are  *)
(* done.                                                                   *)
(***************************************************************************)
EXTENDS TreeUpdate, CodingTree

VARIABLE returned   \* the coder that UpdateTree returns for the call under way

TheCoder == [tree |-> tree, nyt |-> nyt, cache |-> cache]

CallsInit == Init /\ returned = NewCoder

CallsNext ==
  \/ \E s \in Symbol : /\ UpdateKnown(s) \/ UpdateNew(s)
                       /\ returned' = UpdateTree(TheCoder, s)
  \/ (Visit \/ Slide) /\ UNCHANGED returned

CallsSpec == CallsInit /\ [][CallsNext]_<<vars, returned>>

\* The steps of a call, one visit and one slide at a time with their explicit
\* stack, come to what the recursive calls of the code return.
StepsAgree == Idle => TheCoder = returned
=============================================================================
