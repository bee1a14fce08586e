--------------------------- MODULE FileConversion ---------------------------
(***************************************************************************)
(* What a run of the program promises to someone who looks at the files    *)
(* before and after it: the output is the input converted, in one step,    *)
(* even if both are the same file, and no other file is touched.  A run    *)
(* that was killed, or could not read or write, spoils its output and      *)
(* nothing else.                                                           *)
(* App implements this specification.                                      *)
(***************************************************************************)
EXTENDS CodecPromise

CONSTANTS
  Request,          \* arguments of a run: [i, o, ...]
  NoRequest,        \* no run is under way
  Valid(_, _),      \* whether arguments are accepted, given the files
  Outcomes(_, _)    \* what a request may make of the input's bytes

VARIABLES
  files,     \* the bytes of every file
  request,   \* the arguments of the run, or NoRequest
  status,    \* how the last run has ended
  fault      \* it was killed, or could not read or write

vars == <<files, request, status, fault>>

Init == request = NoRequest /\ status = "none" /\ ~fault

Start ==
  /\ request = NoRequest
  /\ request' \in Request
  /\ status' = "running" /\ fault' = FALSE
  /\ UNCHANGED files

Refuse ==
  /\ request # NoRequest
  /\ ~Valid(request, files)
  /\ request' = NoRequest
  /\ status' \in {"usage", "uncaught"}
  /\ UNCHANGED <<files, fault>>

StatusOf(outcome) ==
  IF outcome = Crash THEN "crashed"
  ELSE IF outcome = Rejected THEN "undecodable" ELSE "done"

\* The output becomes what is made of some bytes.
Make(bytes) ==
  /\ request # NoRequest
  /\ Valid(request, files)
  /\ \E outcome \in Outcomes(request, bytes) :
       /\ files' = [files EXCEPT
            ![request.o] = IF outcome \in {Crash, Rejected} THEN Empty ELSE outcome]
       /\ status' = StatusOf(outcome)
  /\ request' = NoRequest

Convert == Make(files[request.i]) /\ UNCHANGED fault

\* The input is there but cannot be read, and passes for an empty one.
Misread == Make(Empty) /\ fault' = TRUE

Spoil ==
  /\ request # NoRequest
  /\ \E left \in {files[request.o], Empty}
                   \cup {Cut(b) : b \in Outcomes(request, files[request.i])
                                       \cup Outcomes(request, Empty)} :
       files' = [files EXCEPT ![request.o] = left]
  /\ request' = NoRequest
  /\ fault' = TRUE
  /\ status' \in {"done", "undecodable", "crashed", "killed"}

Next == Start \/ Refuse \/ Convert \/ Misread \/ Spoil

\* Every run ends.
Spec == Init /\ [][Next]_vars /\ (request # NoRequest ~> request = NoRequest)
=============================================================================
