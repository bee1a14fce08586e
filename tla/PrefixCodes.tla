---------------------------- MODULE PrefixCodes ----------------------------
(***************************************************************************)
(* How short codes can be: a reference definition, of which the code knows *)
(* nothing.  Codes of which none is the beginning of another can be found  *)
(* for the symbols of a set exactly if their lengths satisfy Kraft's       *)
(* inequality.  With more than one symbol, lengths of as many bits as      *)
(* there are symbols or more never make a code shorter.                    *)
(***************************************************************************)
EXTENDS Integers, FiniteSets, FiniteSetsExt, Functions

\* The longest code that is of use for n symbols.
MaxBitsFor(n) == IF n = 1 THEN 1 ELSE n - 1

PrefixLengths(S) ==
  LET n == Cardinality(S)
  IN {f \in [S -> 1..MaxBitsFor(n)] : SumFunction([s \in S |-> 2 ^ (n - f[s])]) <= 2 ^ n}

\* The length of a text in which the symbol s occurs weight[s] times.
CodeCost(f, weight) == SumFunction([s \in DOMAIN weight |-> weight[s] * f[s]])

LeastCost(weight) == Min({CodeCost(f, weight) : f \in PrefixLengths(DOMAIN weight)})
=============================================================================
