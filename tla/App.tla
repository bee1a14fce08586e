-------------------------------- MODULE App --------------------------------
(***************************************************************************)
(* The command line program (src/main.cpp): it checks its arguments, reads *)
(* the input, truncates the output, runs a codec and writes the result.    *)
(* Runs follow one another; any of them may be killed between two steps,   *)
(* and its reads and writes may fail, which the program never looks at.    *)
(***************************************************************************)
EXTENDS CodecPromise, Naturals

CONSTANTS
  Path,       \* names of files
  NoRequest,
  MaxRuns     \* bound of the model: runs of the program

VARIABLES
  files,     \* the bytes of every file
  args,      \* the flags, paths and width given to the run
  phase,     \* "idle", "parse", "read", "open", "code" or "write"
  data,      \* what has been read
  opened,    \* outputStream is open
  result,    \* what the codec has returned
  status,    \* how the last run has ended
  before,    \* history: the files at the start of the run
  fault,     \* history: the run was killed, or could not read its input or write
  runs       \* history: runs so far

vars == <<files, args, phase, data, opened, result, status, before, fault, runs>>

\* -c, -m, --static and -a; -i and -o; what -w says: a number from 1 on; one below,
\* or nothing; or no number of type int.  (-d is accepted and never looked at.)
Arguments ==
  [c : BOOLEAN, m : BOOLEAN, static : BOOLEAN, a : BOOLEAN,
   i : Path, o : Path, w : {"number", "invalid", "word"}]

\* No request is none of the requests.
ASSUME RequestAssumption == NoRequest \notin Arguments

Init ==
  /\ files \in [Path -> {Raw(i) : i \in Image} \cup {Empty, NoFile}]
  /\ before = files
  /\ args \in Arguments
  /\ phase = "idle"
  /\ data = Empty /\ opened = FALSE /\ result = Empty
  /\ status = "none"
  /\ fault = FALSE
  /\ runs = 0

Start ==
  /\ phase = "idle"
  /\ runs < MaxRuns
  /\ args' \in Arguments
  /\ before' = files
  /\ phase' = "parse"
  /\ status' = "running" /\ opened' = FALSE /\ fault' = FALSE
  /\ runs' = runs + 1
  /\ UNCHANGED <<files, data, result>>

\* ValidPathCheckAction: only the input has to be a file.
ValidPath == files[args.i] # NoFile

\* The exceptions parseArgs catches.
PrintUsage ==
  /\ phase = "parse"
  /\ ~ValidPath \/ args.w = "invalid"
  /\ phase' = "idle"
  /\ status' = "usage"
  /\ UNCHANGED <<files, args, data, opened, result, before, fault, runs>>

\* std::stoi throws exceptions that it does not catch.
ThrowFromStoi ==
  /\ phase = "parse"
  /\ args.w = "word"
  /\ phase' = "idle"
  /\ status' = "uncaught"
  /\ UNCHANGED <<files, args, data, opened, result, before, fault, runs>>

ParseArgs ==
  /\ phase = "parse"
  /\ ValidPath /\ args.w = "number"
  /\ phase' = "read"
  /\ UNCHANGED <<files, args, data, opened, result, status, before, fault, runs>>

\* Mutant: the output has been truncated by the time the input is read.
InputBytes_Late == IF args.i = args.o THEN Empty ELSE files[args.i]

InputBytes == files[args.i]

\* readAllRaw: a file that cannot be opened reads like one without a byte.
ReadInput ==
  /\ phase = "read"
  /\ \/ data' = InputBytes /\ UNCHANGED fault
     \/ data' = Empty /\ fault' = TRUE
  /\ phase' = "open"
  /\ UNCHANGED <<files, args, opened, result, status, before, runs>>

\* Opening the output truncates it; or it fails, and all writes with it.
OpenOutput ==
  /\ phase = "open"
  /\ \/ files' = [files EXCEPT ![args.o] = Empty] /\ opened' = TRUE /\ UNCHANGED fault
     \/ fault' = TRUE /\ UNCHANGED <<files, opened>>
  /\ phase' = "code"
  /\ UNCHANGED <<args, data, result, status, before, runs>>

\* getEncodeFnc and getDecodeFnc.
EncodeFnc ==
  [algorithm |-> IF args.static THEN "static" ELSE IF args.a THEN "blocks" ELSE "adaptive",
   model |-> args.m]
DecodeFnc ==
  [algorithm |-> IF args.static THEN "static" ELSE IF args.a THEN "blocks" ELSE "adaptive",
   model |-> args.m]

CodecOutcomes ==
  IF args.c THEN EncodeOutcomes(EncodeFnc, data) ELSE DecodeOutcomes(DecodeFnc, data)

RunCodec ==
  /\ phase = "code"
  /\ result' \in CodecOutcomes \ {Crash}
  /\ phase' = "write"
  /\ UNCHANGED <<files, args, data, opened, status, before, fault, runs>>

CodecCrash ==
  /\ phase = "code"
  /\ Crash \in CodecOutcomes
  /\ phase' = "idle"
  /\ status' = "crashed"
  /\ UNCHANGED <<files, args, data, opened, result, before, fault, runs>>

PrintError ==
  /\ phase = "write"
  /\ result = Rejected
  /\ phase' = "idle"
  /\ status' = "undecodable"
  /\ UNCHANGED <<files, args, data, opened, result, before, fault, runs>>

WriteOutput ==
  /\ phase = "write"
  /\ result # Rejected
  /\ files' = IF opened THEN [files EXCEPT ![args.o] = result] ELSE files
  /\ phase' = "idle"
  /\ status' = "done"
  /\ UNCHANGED <<args, data, opened, result, before, fault, runs>>

Step ==
  PrintUsage \/ ThrowFromStoi \/ ParseArgs \/ ReadInput \/ OpenOutput
    \/ RunCodec \/ CodecCrash \/ PrintError \/ WriteOutput

-----------------------------------------------------------------------------
(***************************************************************************)
(* What may happen to a run.                                               *)
(***************************************************************************)
\* A part of the result is written or nothing of it, and main returns 0 all the same.
LoseWrite ==
  /\ phase = "write"
  /\ result # Rejected /\ opened
  /\ \E left \in {Empty, Cut(result)} : files' = [files EXCEPT ![args.o] = left]
  /\ phase' = "idle"
  /\ status' = "done" /\ fault' = TRUE
  /\ UNCHANGED <<args, data, opened, result, before, runs>>

Kill ==
  /\ phase # "idle"
  /\ phase' = "idle"
  /\ status' = "killed" /\ fault' = TRUE
  /\ UNCHANGED <<files, args, data, opened, result, before, runs>>

Rest == phase = "idle" /\ runs = MaxRuns /\ UNCHANGED vars

Next == Start \/ Step \/ LoseWrite \/ Kill \/ Rest

\* A run goes on while it can; nobody has to start one.
Spec == Init /\ [][Next]_vars /\ WF_vars(Step)

-----------------------------------------------------------------------------
(***************************************************************************)
(* Properties.                                                             *)
(***************************************************************************)
Accepted(a, contents) == a.w = "number" /\ contents[a.i] # NoFile

\* The coder whose options are given, whether they compress or decompress: --static
\* goes before -a.
Chosen(a) ==
  [algorithm |-> IF a.static THEN "static" ELSE IF a.a THEN "blocks" ELSE "adaptive",
   model |-> a.m]

Made(a, bytes) ==
  IF a.c THEN EncodeOutcomes(Chosen(a), bytes) ELSE DecodeOutcomes(Chosen(a), bytes)

Running == phase # "idle"

Conversion == INSTANCE FileConversion
  WITH Request <- Arguments,
       Valid <- Accepted,
       Outcomes <- Made,
       request <- IF Running THEN args ELSE NoRequest,
       files <- IF Running THEN before ELSE files,
       fault <- ~Running /\ fault

\* Whoever looks at the files between two runs sees whole conversions only: the
\* input is read before the output is truncated, so that both may be one file,
\* and but for a run that was killed, could not read or could not write, the output
\* is what the input held at its start, converted.  Every run ends.
ImplementsConversion == Conversion!Spec
=============================================================================
