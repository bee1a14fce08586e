--------------------------- MODULE FrequencyTable ---------------------------
(***************************************************************************)
(* What the coding tree promises to the coder: it counts.  Every symbol    *)
(* observed adds one to the symbol's frequency and then, later in the same *)
(* call, one to the total; no other symbol's frequency ever moves, and the *)
(* next symbol is not observed before the total has caught up.             *)
(* TreeUpdate implements this specification: a frequency is the weight of  *)
(* a leaf, wherever in the tree that leaf has been moved to, the total is  *)
(* the weight of the root.                                                 *)
(***************************************************************************)
EXTENDS Naturals

CONSTANT Symbol

VARIABLES
  freq,    \* how often each symbol has been observed
  total,   \* the number of observations that have been accounted for
  owed     \* an observation is not yet in the total

vars == <<freq, total, owed>>

Init ==
  /\ freq = [s \in Symbol |-> 0]
  /\ total = 0
  /\ owed = FALSE

Observe(s) ==
  /\ ~owed
  /\ freq' = [freq EXCEPT ![s] = @ + 1]
  /\ owed' = TRUE
  /\ UNCHANGED total

Settle ==
  /\ owed
  /\ total' = total + 1
  /\ owed' = FALSE
  /\ UNCHANGED freq

Next == Settle \/ \E s \in Symbol : Observe(s)

Spec == Init /\ [][Next]_vars /\ WF_vars(Settle)
=============================================================================
