--------------------------- MODULE Preprocessing ---------------------------
(***************************************************************************)
(* The models of src/models.h as functions of the whole data: every coder  *)
(* copies a fresh model into its transform, which runs from the first      *)
(* sample to the last.                                                     *)
(***************************************************************************)
EXTENDS Integers, Sequences

CONSTANT ValueCount   \* values of T, which the arithmetic wraps around at: 256

\* lastVal before it is assigned.
InitialVal == 0

\* NeighborDifferenceModel::apply; a difference is narrowed to T.
Differences(data) ==
  [i \in DOMAIN data |->
     (data[i] - (IF i = 1 THEN InitialVal ELSE data[i - 1])) % ValueCount]

\* Mutant: lastVal is the difference that was read, not the sum.
Sums_OfNeighbours(data) ==
  [i \in DOMAIN data |->
     (data[i] + (IF i = 1 THEN InitialVal ELSE data[i - 1])) % ValueCount]

\* NeighborDifferenceModel::revert; lastVal is the sum, narrowed to T.
Sums(data) ==
  LET Sum[i \in 0..Len(data)] ==
        IF i = 0 THEN InitialVal ELSE (data[i] + Sum[i - 1]) % ValueCount
  IN [i \in DOMAIN data |-> Sum[i]]

\* IdentityModel when the program runs without -m.
Applied(data, useModel) == IF useModel THEN Differences(data) ELSE data
Reverted(data, useModel) == IF useModel THEN Sums(data) ELSE data
=============================================================================
