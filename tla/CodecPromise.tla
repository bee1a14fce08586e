---------------------------- MODULE CodecPromise ----------------------------
(***************************************************************************)
(* What main.cpp and bench.cpp rely on when they call a codec: what        *)
(* LosslessCodec promises, as a function of whole files.  A file is known  *)
(* by its history: which coder made it, of what, and whether its end was   *)
(* lost; a file that no coder made is an image.  Images are within the     *)
(* limits of the coders: a header's 16 bits for width and height, and      *)
(* codes that fit an int.                                                  *)
(***************************************************************************)
CONSTANTS
  Image,       \* images of the user
  WholeImage,  \* those whose last row is complete
  Nothing,     \* the image without a sample: an empty file
  NoImage,     \* the content of a file that does not exist
  Anything     \* bytes that are none of the above

ASSUME ImageAssumption ==
  /\ WholeImage \subseteq Image
  /\ Nothing \notin Image /\ NoImage \notin Image /\ Anything \notin Image
  /\ Nothing # NoImage /\ Nothing # Anything /\ NoImage # Anything
  /\ \A i \in Image \cup {Nothing, NoImage, Anything} : i # "crash" /\ i # "rejected"

Coder == [algorithm : {"static", "adaptive", "blocks"}, model : BOOLEAN]
Camera == [algorithm |-> "none", model |-> FALSE]

Raw(image) == [by |-> Camera, of |-> image, cut |-> FALSE]
Empty == Raw(Nothing)
NoFile == Raw(NoImage)
Other == Raw(Anything)

\* What is left of bytes whose end is lost.
Cut(bytes) == IF bytes.by = Camera THEN Other ELSE [bytes EXCEPT !.cut = TRUE]

\* What a call comes to when it returns no bytes: an error, or undefined behaviour
\* that ends the program.
Rejected == Raw("rejected")
Crash == Raw("crash")

\* The block coder completes the last row with what is behind it in memory.
WholeRows(bytes) ==
  IF bytes = Empty \/ bytes \in {Raw(i) : i \in WholeImage} THEN bytes ELSE Other

Encoded(coder, bytes) == [by |-> coder, of |-> bytes, cut |-> FALSE]

\* Only the static coder needs a sample.
EncodeOutcomes(coder, bytes) ==
  IF coder.algorithm = "static" /\ bytes = Empty THEN {Crash, Other}
  ELSE IF coder.algorithm = "blocks" THEN {Encoded(coder, WholeRows(bytes))}
  ELSE {Encoded(coder, bytes)}

\* Only the static decoder returns errors, and only it needs a byte.
DecodeOutcomes(coder, bytes) ==
  IF bytes.by = coder /\ ~bytes.cut THEN {bytes.of}
  ELSE IF bytes = Empty /\ coder.algorithm # "static" THEN {Empty}
  ELSE {Other} \cup (IF bytes.by # coder THEN {Crash} ELSE {})
               \cup (IF coder.algorithm = "static" THEN {Rejected} ELSE {})
=============================================================================
