----------------------------- MODULE BitString -----------------------------
(***************************************************************************)
(* What a writer of bits promises: a growing sequence of bits, each of     *)
(* which can be set, that is handed over in whole cells.  It can be given  *)
(* another size, but then bits that are new may have any value.            *)
(* BinaryEncoder implements it.                                            *)
(***************************************************************************)
EXTENDS Integers, Sequences

CONSTANT CellBits   \* width of a cell

VARIABLES
  bits,   \* the bits written
  out,    \* the cells handed over so far, one after the other
  resized \* the size has been changed

vars == <<bits, out, resized>>

Bit == {0, 1}
Unused(n) == (-n) % CellBits

Init == bits = <<>> /\ out = <<>> /\ resized = FALSE

Push(b) == bits' = Append(bits, b) /\ UNCHANGED <<out, resized>>

Set(i, b) ==
  /\ i \in DOMAIN bits
  /\ bits' = [bits EXCEPT ![i] = b]
  /\ UNCHANGED <<out, resized>>

Resize ==
  /\ bits' \in Seq(Bit)
  /\ \A i \in DOMAIN bits \cap DOMAIN bits' : bits'[i] = bits[i]
  /\ resized' = TRUE
  /\ UNCHANGED out

\* The last cell is filled with zeros, or after a change of the size with any bits.
Release ==
  /\ \E fill \in [1..Unused(Len(bits)) -> IF resized THEN Bit ELSE {0}] :
       out' = out \o bits \o fill
  /\ bits' = <<>>
  /\ UNCHANGED resized

Next ==
  \/ \E b \in Bit : Push(b) \/ \E i \in DOMAIN bits : Set(i, b)
  \/ Resize \/ Release

Spec == Init /\ [][Next]_vars
=============================================================================
