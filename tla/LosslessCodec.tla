--------------------------- MODULE LosslessCodec ---------------------------
(***************************************************************************)
(* What every codec of the program promises to its caller: the file it     *)
(* makes of a message is decoded to that message, and a file that has lost *)
(* its end on the way is rejected or decoded to something that is still    *)
(* recognisably the message.  Every call returns.  A message may be beyond *)
(* what the encoder is defined for, and what is left of a file beyond what *)
(* the decoder is defined for; which ones are, each codec has to say.      *)
(* AdaptiveCodec, StaticCodec and BlockCodec implement this specification. *)
(***************************************************************************)
CONSTANTS
  Message,         \* what can be encoded
  Defined(_),      \* whether the code is defined for a message
  Remains(_, _)    \* whether the first is what a lost end may leave of the second

VARIABLES
  message,   \* what the caller encodes
  lost,      \* the file has lost its end
  readable,  \* the decoder is defined for what is left of it
  status,    \* "busy", "returned", "rejected" or "undefined"
  decoded    \* what the caller gets back

vars == <<message, lost, readable, status, decoded>>

Init ==
  /\ message \in Message
  /\ lost = FALSE /\ readable = TRUE
  /\ status = "busy"
  /\ decoded = <<>>

LoseEnd ==
  /\ status = "busy"
  /\ ~lost
  /\ lost' = TRUE /\ readable' \in BOOLEAN
  /\ UNCHANGED <<message, status, decoded>>

Return ==
  /\ status = "busy"
  /\ IF lost THEN Remains(decoded', message) ELSE decoded' = message
  /\ status' = "returned"
  /\ UNCHANGED <<message, lost, readable>>

Reject ==
  /\ status = "busy"
  /\ lost
  /\ status' = "rejected"
  /\ UNCHANGED <<message, lost, readable, decoded>>

Fail ==
  /\ status = "busy"
  /\ ~Defined(message) \/ ~readable
  /\ status' = "undefined"
  /\ UNCHANGED <<message, lost, readable, decoded>>

Next == LoseEnd \/ Return \/ Reject \/ Fail

Spec == Init /\ [][Next]_vars /\ <>(status # "busy")
=============================================================================
