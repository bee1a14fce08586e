--------------------------- MODULE MCStaticCodec ---------------------------
(***************************************************************************)
(* StaticCodec for TLC, with a reference definition of its best result.    *)
(***************************************************************************)
EXTENDS StaticCodec, PrefixCodes

\* How often a symbol is in the data.
Counted == [s \in ToSet(data) |-> Cardinality({i \in DOMAIN data : data[i] = s})]

\* No prefix code encodes the data in fewer bits: merging, canonical codes and
\* the sort by length have kept every code as short as it can be.
ShortestBody == phase = "read" /\ ~lost => Len(Body) = LeastCost(Counted)
=============================================================================
