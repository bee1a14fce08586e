--------------------------- MODULE ProgramProofs ---------------------------
(***************************************************************************)
(* The two programs that call codecs.  App implements FileConversion, for  *)
(* all files, options, images and any number of runs: the safety part of   *)
(* ImplementsConversion.  Validation, an instance beside it, prints the    *)
(* truth about folders of any size: the safety part of ReportIsTrue.       *)
(***************************************************************************)
EXTENDS App, Sequences, FiniteSets, Functions, TLAPS,
        FiniteSetTheorems, FunctionTheorems, SequenceTheorems

(***************************************************************************)
(* The inductive invariant: how far the files of a run have been changed   *)
(* in each phase, and what data and result have to do with the files the   *)
(* run has started with.                                                   *)
(***************************************************************************)
Phases == {"idle", "parse", "read", "open", "code", "write"}

Types ==
  /\ phase \in Phases
  /\ args \in Arguments
  /\ fault \in BOOLEAN
  /\ files = [p \in Path |-> files[p]]
  /\ before = [p \in Path |-> before[p]]

Opened(contents) == [before EXCEPT ![args.o] = contents]

NothingOpened ==
  /\ phase \in {"parse", "read", "open"} => files = before /\ opened = FALSE
  /\ phase \in {"parse", "read"} => fault = FALSE

OutputOpened ==
  phase \in {"code", "write"} =>
    \/ files = Opened(Empty) /\ opened = TRUE
    \/ files = before /\ opened = FALSE /\ fault = TRUE

ArgumentsAccepted ==
  phase \in Phases \ {"idle", "parse"} => Accepted(args, before)

\* Only of a run that has already failed may the data be something else.
DataIsInput ==
  phase \in {"open", "code", "write"} =>
    \/ data = before[args.i] /\ (fault => phase # "open" /\ ~opened)
    \/ data = Empty /\ fault

ResultIsOutcome ==
  phase = "write" => result \in Made(args, data) \ {Crash}

StatusIsRunning == Running => status = "running"

Inv ==
  /\ Types /\ StatusIsRunning
  /\ NothingOpened /\ OutputOpened
  /\ ArgumentsAccepted /\ DataIsInput /\ ResultIsOutcome

\* The codec that runs is the one the options name.
LEMMA CodecIsChosen ==
  ASSUME phase = "code"
  PROVE  CodecOutcomes = Made(args, data)
BY DEF CodecOutcomes, Made, EncodeFnc, DecodeFnc, Chosen

\* The invariant holds initially.
LEMMA InitHasInv == Init => Inv
BY DEF Init, Inv, Types, Phases, Running, StatusIsRunning, NothingOpened,
       OutputOpened, ArgumentsAccepted, DataIsInput, ResultIsOutcome

\* Every step keeps the invariant.
LEMMA StepKeepsInv == Inv /\ [Next]_vars => Inv'
<1> SUFFICES ASSUME Inv, [Next]_vars PROVE Inv'
  OBVIOUS
<1> USE DEF Inv, Types, Phases, Running, StatusIsRunning, NothingOpened,
            OutputOpened, ArgumentsAccepted, DataIsInput, ResultIsOutcome, Opened
<1>1. CASE Start
  BY <1>1 DEF Start
<1>2. CASE PrintUsage
  BY <1>2 DEF PrintUsage
<1>3. CASE ThrowFromStoi
  BY <1>3 DEF ThrowFromStoi
<1>4. CASE ParseArgs
  BY <1>4 DEF ParseArgs, Accepted, ValidPath
<1>5. CASE ReadInput
  <2>1. /\ phase = "read" /\ phase' = "open" /\ files' = files /\ before' = before
        /\ args' = args /\ opened' = opened /\ status' = status
        /\ files = before /\ opened = FALSE /\ fault = FALSE
        /\ \/ data' = before[args.i] /\ fault' = FALSE
           \/ data' = Empty /\ fault' = TRUE
    BY <1>5 DEF ReadInput, InputBytes
  <2>2. Types' /\ StatusIsRunning' /\ NothingOpened' /\ OutputOpened' /\ ResultIsOutcome'
    BY <2>1
  <2>3. ArgumentsAccepted'
    BY <2>1 DEF Accepted
  <2>4. DataIsInput'
    BY <2>1 DEF Empty, Raw, Camera
  <2> QED BY <2>2, <2>3, <2>4
<1>6. CASE OpenOutput
  <2>1. /\ phase = "open" /\ phase' = "code" /\ before' = before /\ data' = data
        /\ args' = args /\ status' = status /\ files = before /\ opened = FALSE
        /\ \/ files' = [files EXCEPT ![args.o] = Empty] /\ opened' = TRUE /\ fault' = fault
           \/ files' = files /\ opened' = FALSE /\ fault' = TRUE
    BY <1>6 DEF OpenOutput
  <2>2. Types' /\ StatusIsRunning' /\ NothingOpened' /\ OutputOpened' /\ ResultIsOutcome'
    BY <2>1 DEF Empty, Raw, Camera
  <2>3. ArgumentsAccepted'
    BY <2>1 DEF Accepted
  <2>4. DataIsInput'
    BY <2>1 DEF Empty, Raw, Camera
  <2> QED BY <2>2, <2>3, <2>4
<1>7. CASE RunCodec
  BY <1>7, CodecIsChosen DEF RunCodec, Accepted, Made, Chosen
<1>8. CASE CodecCrash
  BY <1>8 DEF CodecCrash
<1>9. CASE PrintError
  BY <1>9 DEF PrintError
<1>10. CASE WriteOutput
  BY <1>10 DEF WriteOutput
<1>11. CASE LoseWrite
  BY <1>11 DEF LoseWrite
<1>12. CASE Kill
  BY <1>12 DEF Kill
<1>13. CASE UNCHANGED vars
  BY <1>13 DEF vars, Accepted, Made, Chosen
<1>14. QED
  BY <1>1, <1>2, <1>3, <1>4, <1>5, <1>6, <1>7, <1>8, <1>9, <1>10, <1>11, <1>12, <1>13
     DEF Next, Step, Rest

-----------------------------------------------------------------------------
\* Before the first run the files are those of the abstract program.
LEMMA InitImplements == Init => Conversion!Init
BY DEF Init, Conversion!Init, Running

\* Both specifications mean the same by the contents of files.
LEMMA SameContents ==
  /\ Conversion!Empty = Empty
  /\ Conversion!Crash = Crash /\ Conversion!Rejected = Rejected
  /\ \A b : Conversion!Cut(b) = Cut(b)
BY DEF Empty, Crash, Rejected, Cut, Other, Raw, Camera,
       Conversion!Empty, Conversion!Crash, Conversion!Rejected, Conversion!Cut,
       Conversion!Other, Conversion!Raw, Conversion!Camera

\* A step inside a run shows nothing: whoever looks sees the files as they were.
LEMMA InnerStepsHide ==
  ASSUME Inv, ParseArgs \/ ReadInput \/ OpenOutput \/ RunCodec
  PROVE  UNCHANGED Conversion!vars
BY DEF Inv, Types, Running, StatusIsRunning, ParseArgs, ReadInput, OpenOutput,
       RunCodec, Conversion!vars

\* A run that leaves its files as they are, or its output empty, has spoiled it.
LEMMA SpoilsOutput ==
  ASSUME Inv, Running, phase' = "idle", fault' = TRUE,
         status' \in {"done", "undecodable", "crashed", "killed"},
         NEW left \in {before[args.o], Empty}
                       \cup {Cut(b) : b \in Made(args, before[args.i])
                                           \cup Made(args, Empty)},
         files' = Opened(left)
  PROVE  Conversion!Spoil
<1>1. args # NoRequest
  BY RequestAssumption DEF Inv, Types
<1>2. ~Running' /\ (~Running' /\ fault') = TRUE
  BY DEF Running
<1>3. left \in {before[args.o], Conversion!Empty}
                \cup {Conversion!Cut(b) : b \in Made(args, before[args.i])
                                               \cup Made(args, Conversion!Empty)}
  BY SameContents
<1>4. QED
  BY <1>1, <1>2, <1>3 DEF Conversion!Spoil, Opened

\* A run whose output is open ends with what the codec has made of the data, which are
\* the input or passed for it.
LEMMA Makes ==
  ASSUME Inv, opened, phase \in {"code", "write"}, phase' = "idle", fault' = fault,
         NEW outcome \in Made(args, data),
         files' = Opened(IF outcome \in {Crash, Rejected} THEN Empty ELSE outcome),
         status' = Conversion!StatusOf(outcome)
  PROVE  Conversion!Next
<1>1. Running /\ ~Running' /\ Accepted(args, before) /\ args # NoRequest
  BY RequestAssumption DEF Inv, Types, ArgumentsAccepted, Running, Phases
<1>2. ASSUME NEW bytes, bytes = data PROVE Conversion!Make(bytes)
  BY <1>1, <1>2, SameContents DEF Conversion!Make, Opened
<1>3. CASE ~fault
  <2>1. data = before[args.i]
    BY <1>3 DEF Inv, DataIsInput
  <2>2. Conversion!Convert
    BY <1>1, <1>2, <1>3, <2>1 DEF Conversion!Convert
  <2> QED BY <2>2 DEF Conversion!Next
<1>4. CASE fault
  <2>1. data = Conversion!Empty
    BY <1>4, SameContents DEF Inv, DataIsInput
  <2>2. Conversion!Misread
    BY <1>1, <1>2, <1>4, <2>1 DEF Conversion!Misread
  <2> QED BY <2>2 DEF Conversion!Next
<1> QED BY <1>3, <1>4

\* before is what it was, seen as a choice of Spoil.
LEMMA NothingSpoiled ==
  ASSUME Inv PROVE before = Opened(before[args.o])
<1>1. args.o \in Path
  BY DEF Inv, Types, Arguments
<1>2. QED
  BY <1>1 DEF Inv, Types, Opened

\* Every step of a run is one of FileConversion or hidden from it.
LEMMA StepImplements ==
  ASSUME Inv, [Next]_vars
  PROVE  Conversion!Next \/ UNCHANGED Conversion!vars
<1>1. CASE Start
  BY <1>1, RequestAssumption
     DEF Inv, Types, Start, Running, Conversion!Start, Conversion!Next
<1>2. CASE PrintUsage
  <2>1. Conversion!Refuse
    BY <1>2, RequestAssumption
       DEF Inv, Types, NothingOpened, PrintUsage, ValidPath, Accepted, Running,
           Conversion!Refuse
  <2>2. QED
    BY <2>1 DEF Conversion!Next
<1>3. CASE ThrowFromStoi
  <2>1. Conversion!Refuse
    BY <1>3, RequestAssumption
       DEF Inv, Types, NothingOpened, ThrowFromStoi, Accepted, Running,
           Conversion!Refuse
  <2>2. QED
    BY <2>1 DEF Conversion!Next
<1>4. CASE ParseArgs \/ ReadInput \/ OpenOutput \/ RunCodec
  BY <1>4, InnerStepsHide
<1>5. CASE UNCHANGED vars
  BY <1>5 DEF vars, Running, Conversion!vars
<1>6. CASE CodecCrash
  <2>1. CASE opened
    <3>1. Crash \in Made(args, data)
      BY <1>6, CodecIsChosen DEF CodecCrash
    <3>2. Conversion!StatusOf(Crash) = "crashed"
      BY SameContents DEF Conversion!StatusOf
    <3>3. /\ files' = Opened(Empty) /\ status' = "crashed" /\ phase' = "idle"
          /\ phase = "code" /\ fault' = fault
      BY <1>6, <2>1 DEF Inv, OutputOpened, CodecCrash
    <3> QED BY <3>1, <3>2, <3>3, <2>1, Makes
  <2>2. CASE ~opened
    BY <1>6, <2>2, NothingSpoiled, SpoilsOutput
       DEF Inv, Types, OutputOpened, CodecCrash, Running, Conversion!Next
  <2> QED BY <2>1, <2>2
<1>7. CASE PrintError
  <2>1. CASE opened
    <3>1. Rejected \in Made(args, data)
      BY <1>7 DEF PrintError, Inv, ResultIsOutcome
    <3>2. Conversion!StatusOf(Rejected) = "undecodable"
      BY SameContents DEF Conversion!StatusOf, Crash, Rejected, Raw
    <3>3. /\ files' = Opened(Empty) /\ status' = "undecodable" /\ phase' = "idle"
          /\ phase = "write" /\ fault' = fault
      BY <1>7, <2>1 DEF Inv, OutputOpened, PrintError
    <3> QED BY <3>1, <3>2, <3>3, <2>1, Makes
  <2>2. CASE ~opened
    BY <1>7, <2>2, NothingSpoiled, SpoilsOutput
       DEF Inv, Types, OutputOpened, PrintError, Running, Conversion!Next
  <2> QED BY <2>1, <2>2
<1>8. CASE WriteOutput
  <2>1. CASE opened
    <3>1. result \in Made(args, data) /\ result \notin {Crash, Rejected}
      BY <1>8 DEF WriteOutput, Inv, ResultIsOutcome
    <3>2. Conversion!StatusOf(result) = "done"
      BY <3>1, SameContents DEF Conversion!StatusOf
    <3>3. /\ files' = Opened(result) /\ status' = "done" /\ phase' = "idle"
          /\ phase = "write" /\ fault' = fault
      BY <1>8, <2>1 DEF Inv, OutputOpened, WriteOutput, Opened
    <3> QED BY <3>1, <3>2, <3>3, <2>1, Makes
  <2>2. CASE ~opened
    BY <1>8, <2>2, NothingSpoiled, SpoilsOutput
       DEF Inv, Types, OutputOpened, WriteOutput, Running, Conversion!Next
  <2> QED BY <2>1, <2>2
<1>9. CASE LoseWrite
  <2>1. PICK left \in {Empty, Cut(result)} : files' = [files EXCEPT ![args.o] = left]
    BY <1>9 DEF LoseWrite
  <2>2. /\ phase = "write" /\ phase' = "idle" /\ opened /\ fault' = TRUE
        /\ status' = "done"
    BY <1>9 DEF LoseWrite
  <2>3. files' = Opened(left)
    BY <2>1, <2>2 DEF Inv, OutputOpened, Opened
  <2>4. result \in Made(args, before[args.i]) \cup Made(args, Empty)
    BY <2>2 DEF Inv, ResultIsOutcome, DataIsInput
  <2>5. Conversion!Spoil
    BY <2>1, <2>2, <2>3, <2>4, SpoilsOutput DEF Running
  <2> QED BY <2>5 DEF Conversion!Next
<1>10. CASE Kill
  BY <1>10, NothingSpoiled, SpoilsOutput
     DEF Inv, Types, NothingOpened, OutputOpened, Kill, Running, Phases, Conversion!Next
<1>11. QED
  BY <1>1, <1>2, <1>3, <1>4, <1>5, <1>6, <1>7, <1>8, <1>9, <1>10
     DEF Next, Step, Rest

\* Killed, short of disk space or at odds with its input, the program never shows
\* anything but conversions of whole files, in the order of its runs: no run makes
\* a file that its input, as it was at the start, does not account for.
THEOREM AppConverts ==
  Spec => Conversion!Init /\ [][Conversion!Next]_(Conversion!vars)
<1>1. Init => Conversion!Init
  BY InitImplements
<1>2. Init => Inv
  BY InitHasInv
<1>3. Inv /\ [Next]_vars => Inv'
  BY StepKeepsInv
<1>4. Inv /\ [Next]_vars => [Conversion!Next]_(Conversion!vars)
  BY StepImplements
<1>5. QED
  BY <1>1, <1>2, <1>3, <1>4, PTL DEF Spec

-----------------------------------------------------------------------------
(***************************************************************************)
(* Validation, with variables of its own; they have no part in App.        *)
(***************************************************************************)
CONSTANT Name
VARIABLES folder, inputData, stage, d, encoded, report

Bench == INSTANCE Validation WITH phase <- stage

(***************************************************************************)
(* The report of the validation.  TurnsOK is the inductive invariant: the  *)
(* file and the coder of a turn depend on the number of lines alone, and   *)
(* what is decoded in it was encoded in it.                                *)
(***************************************************************************)
Distinct(names) == \A i, j \in DOMAIN names : names[i] = names[j] => i = j

TurnsOK ==
  /\ folder \in [Name -> {Bench!Raw(i) : i \in Image} \cup {Bench!Empty, Bench!NoFile}]
  /\ stage \in {"read", "encode", "decode", "done", "crashed"}
  /\ inputData \in Seq(Bench!Files) /\ Distinct(inputData)
  /\ stage = "read" => report = <<>>
  /\ stage # "read" => Bench!Read = Bench!Files /\ Bench!Sorted(inputData)
  /\ report \in Seq([file : Bench!Files, coder : Bench!Coder, matches : BOOLEAN])
  /\ \A i \in DOMAIN report : /\ Bench!AsPromised(report[i])
                              /\ <<report[i].file, report[i].coder>> = Bench!Turn(i - 1)
  /\ stage \in {"encode", "decode"} => Len(report) < Len(inputData) * 6
  /\ stage = "encode" => d = Bench!Refilled(Len(report))
  /\ stage = "decode" =>
       encoded \in Bench!EncodeOutcomes(Bench!TurnCoder(Len(report)),
                                       Bench!Refilled(Len(report))) \ {Bench!Crash}
  /\ stage = "done" => Len(report) = Len(inputData) * 6
  /\ stage = "crashed" => Bench!Refilled(Len(report)) = Bench!Empty

\* There are six turns for a file.
LEMMA SixCoders ==
  /\ Len(Bench!Coders) = 6
  /\ \A n \in Nat : Bench!TurnCoder(n) \in Bench!Coder
<1>1. Len(Bench!Coders) = 6 /\ \A i \in 1..6 : Bench!Coders[i] \in Bench!Coder
  BY DEF Bench!Coders, Bench!Coder
<1>2. ASSUME NEW n \in Nat PROVE Bench!TurnCoder(n) \in Bench!Coder
  <2>1. (n % 6) + 1 \in 1..6
    OBVIOUS
  <2> QED BY <1>1, <2>1 DEF Bench!TurnCoder
<1> QED BY <1>1, <1>2

\* The file of a turn is one of those read.
LEMMA TurnFile ==
  ASSUME NEW names, names \in Seq(Bench!Files), NEW n \in Nat, n < Len(names) * 6
  PROVE  Bench!FileAt(names, n) \in Bench!Files
<1>1. (n \div 6) + 1 \in 1..Len(names)
  <2>1. Len(names) \in Nat
    OBVIOUS
  <2> QED BY <2>1
<1> QED BY <1>1, SixCoders DEF Bench!FileAt

\* What a file may contain.
LEMMA FileBytes ==
  ASSUME TurnsOK, NEW n \in Bench!Files
  PROVE  /\ folder[n] \in {Bench!Raw(i) : i \in Image} \cup {Bench!Empty}
         /\ folder[n] # Bench!Crash /\ folder[n] # Bench!Rejected
         /\ folder[n] # Bench!Other
<1>1. n \in Name /\ folder[n] # Bench!NoFile
  BY DEF Bench!Files
<1>2. folder[n] \in {Bench!Raw(i) : i \in Image} \cup {Bench!Empty}
  BY <1>1 DEF TurnsOK
<1>3. PICK i \in Image \cup {Nothing} : folder[n] = Bench!Raw(i)
  BY <1>2 DEF Bench!Empty
<1>4. i # "crash" /\ i # "rejected" /\ i # Anything
  BY ImageAssumption
<1>5. Bench!Raw(i) # Bench!Crash /\ Bench!Raw(i) # Bench!Rejected /\ Bench!Raw(i) # Bench!Other
  BY <1>4 DEF Bench!Raw, Bench!Crash, Bench!Rejected, Bench!Other
<1> QED BY <1>2, <1>3, <1>5

\* What comes of a turn: an empty file and the static coder may come to anything.
LEMMA TurnOutcome ==
  ASSUME NEW coder \in Bench!Coder,
         NEW b, b \in {Bench!Raw(i) : i \in Image} \cup {Bench!Empty},
         ~(coder.algorithm = "static" /\ b = Bench!Empty),
         NEW e, e \in Bench!EncodeOutcomes(coder, b)
  PROVE  /\ e # Bench!Crash
         /\ \A o \in Bench!DecodeOutcomes(coder, e) :
              /\ o # Bench!Crash /\ o # Bench!Rejected
              /\ o = b <=> Bench!Lossless(coder, b)
<1>1. coder.algorithm \in {"static", "adaptive", "blocks"} /\ coder # Bench!Camera
  BY DEF Bench!Coder, Bench!Camera
<1>2. PICK i \in Image \cup {Nothing} : b = Bench!Raw(i)
  BY DEF Bench!Empty
<1>3. /\ i # "crash" /\ i # "rejected" /\ i # Anything
      /\ Anything # "crash" /\ Anything # "rejected"
  BY ImageAssumption
<1>4. /\ b # Bench!Crash /\ b # Bench!Rejected /\ b # Bench!Other
      /\ Bench!Other # Bench!Crash /\ Bench!Other # Bench!Rejected
  BY <1>2, <1>3 DEF Bench!Raw, Bench!Crash, Bench!Rejected, Bench!Other
<1>5. e = Bench!Encoded(coder, IF coder.algorithm = "blocks" THEN Bench!WholeRows(b) ELSE b)
  BY <1>1 DEF Bench!EncodeOutcomes
<1>6. Bench!DecodeOutcomes(coder, e) = {e.of} /\ e # Bench!Crash
  BY <1>1, <1>5 DEF Bench!DecodeOutcomes, Bench!Encoded, Bench!Crash, Bench!Raw
<1>7. e.of = IF coder.algorithm = "blocks" THEN Bench!WholeRows(b) ELSE b
  BY <1>5 DEF Bench!Encoded
<1>8. Bench!WholeRows(b) \in {b, Bench!Other}
      /\ (Bench!WholeRows(b) = b
            <=> b \in {Bench!Raw(j) : j \in WholeImage} \cup {Bench!Empty})
  BY <1>4 DEF Bench!WholeRows
<1> QED BY <1>4, <1>6, <1>7, <1>8 DEF Bench!Lossless

\* The invariant holds initially, and every step keeps it.
LEMMA InitTurns == Bench!Init => TurnsOK
BY DEF Bench!Init, TurnsOK, Distinct, Bench!Files

LEMMA ReadFileTurns ==
  ASSUME TurnsOK, Bench!ReadFile PROVE TurnsOK'
<1>1. PICK n \in Bench!Files \ Bench!Read : inputData' = Append(inputData, n)
  BY DEF Bench!ReadFile
<1>2. UNCHANGED <<folder, stage, d, encoded, report>> /\ stage = "read" /\ report = <<>>
  BY DEF Bench!ReadFile, TurnsOK
<1>3. Bench!Files' = Bench!Files
  BY <1>2 DEF Bench!Files
<1>4. inputData' \in Seq(Bench!Files)
  BY <1>1 DEF TurnsOK
<1>5. Distinct(inputData')
  BY <1>1 DEF TurnsOK, Distinct, Bench!Read
<1> QED BY <1>2, <1>3, <1>4, <1>5 DEF TurnsOK

LEMMA StartFilesTurns ==
  ASSUME TurnsOK, Bench!StartFiles PROVE TurnsOK'
<1> DEFINE D == DOMAIN inputData
<1>1. PICK p \in Bijection(D, D) : inputData' = [i \in D |-> inputData[p[i]]]
  BY DEF Bench!StartFiles, Bench!Bijection, Bench!Injection, Bench!Surjection,
         Bench!IsInjective,
         Bijection, Injection, Surjection, IsInjective
<1>2. /\ stage = "read" /\ report = <<>> /\ Bench!Read = Bench!Files
      /\ Bench!Sorted(inputData')
      /\ UNCHANGED <<folder, encoded, report>>
      /\ IF inputData = <<>> THEN stage' = "done" /\ UNCHANGED d
         ELSE stage' = "encode" /\ d' = folder[inputData'[1]]
  BY DEF Bench!StartFiles, TurnsOK
<1>3. /\ p \in [D -> D] /\ \A j \in D : \E i \in D : p[i] = j
      /\ \A i, j \in D : p[i] = p[j] => i = j
  BY <1>1 DEF Bijection, Injection, Surjection, IsInjective
<1>4. /\ D = 1..Len(inputData) /\ Len(inputData) \in Nat
      /\ \A i \in D : inputData[i] \in Bench!Files
  BY DEF TurnsOK
<1>5. inputData' \in Seq(Bench!Files) /\ Len(inputData') = Len(inputData)
  BY <1>1, <1>3, <1>4
<1>6. Distinct(inputData')
  BY <1>1, <1>3 DEF TurnsOK, Distinct
<1>7. Bench!Read' = Bench!Files
  BY <1>1, <1>2, <1>3 DEF Bench!Read
<1>8. Bench!Files' = Bench!Files
  BY <1>2 DEF Bench!Files
<1>9. CASE inputData = <<>>
  <2>1. Len(inputData') = 0 /\ stage' = "done"
    BY <1>2, <1>5, <1>9
  <2> QED BY <2>1, <1>2, <1>5, <1>6, <1>7, <1>8 DEF TurnsOK
<1>10. CASE inputData # <<>>
  <2>1. Len(inputData') > 0
    BY <1>4, <1>5, <1>10
  <2>2. Bench!Refilled(0)' = folder[inputData'[1]]
    BY <1>2, SixCoders DEF Bench!Refilled, Bench!FileAt
  <2> QED BY <2>1, <2>2, <1>2, <1>4, <1>5, <1>6, <1>7, <1>8, <1>10 DEF TurnsOK
<1> QED BY <1>9, <1>10

LEMMA EncodeTurns ==
  ASSUME TurnsOK, Bench!Encode PROVE TurnsOK'
<1> DEFINE n == Len(report)
           b == Bench!Refilled(n)
<1>1. /\ stage = "encode" /\ n \in Nat /\ n < Len(inputData) * 6 /\ d = b
      /\ inputData \in Seq(Bench!Files)
  BY DEF Bench!Encode, TurnsOK
<1>2. PICK outcome \in Bench!EncodeOutcomes(Bench!TurnCoder(n), b) :
        /\ stage' = IF outcome = Bench!Crash THEN "crashed" ELSE "decode"
        /\ encoded' = outcome
  BY <1>1 DEF Bench!Encode
<1>3. UNCHANGED <<folder, inputData, report>>
  BY DEF Bench!Encode
<1>4. Bench!Files' = Bench!Files /\ Bench!Read' = Bench!Read /\ Bench!Refilled(n)' = b
  BY <1>3 DEF Bench!Files, Bench!Read, Bench!Refilled
<1>5. Bench!TurnCoder(n) \in Bench!Coder /\ Bench!FileAt(inputData, n) \in Bench!Files
  BY <1>1, SixCoders, TurnFile
<1>6. b \in {Bench!Raw(i) : i \in Image} \cup {Bench!Empty}
  BY <1>5, FileBytes DEF Bench!Refilled
<1>7. outcome = Bench!Crash => b = Bench!Empty
  BY <1>2, <1>5, <1>6, TurnOutcome
<1> QED
  BY <1>1, <1>2, <1>3, <1>4, <1>7
     DEF TurnsOK, Bench!AsPromised, Bench!Bytes, Bench!Turn, Distinct, Bench!Sorted

LEMMA DecodeTurns ==
  ASSUME TurnsOK, Bench!Decode PROVE TurnsOK'
<1> DEFINE n == Len(report)
           b == Bench!Refilled(n)
           coder == Bench!TurnCoder(n)
           line(o) == [file |-> Bench!FileAt(inputData, n), coder |-> coder, matches |-> o = b]
<1>1. /\ stage = "decode" /\ n \in Nat /\ n < Len(inputData) * 6
      /\ inputData \in Seq(Bench!Files) /\ Len(inputData) \in Nat
      /\ encoded \in Bench!EncodeOutcomes(coder, b) \ {Bench!Crash}
  BY DEF Bench!Decode, TurnsOK
<1>2. UNCHANGED <<folder, inputData, encoded>>
  BY DEF Bench!Decode
<1>3. PICK o \in Bench!DecodeOutcomes(coder, encoded) :
        IF o \in {Bench!Crash, Bench!Rejected}
          THEN stage' = "crashed" /\ UNCHANGED <<d, report>>
          ELSE /\ report' = Append(report, line(o))
               /\ IF n + 1 = Len(inputData) * 6
                    THEN stage' = "done" /\ UNCHANGED d
                    ELSE stage' = "encode" /\ d' = Bench!Refilled(n + 1)
  BY SixCoders DEF Bench!Decode, Bench!Refilled
<1>4. coder \in Bench!Coder /\ Bench!FileAt(inputData, n) \in Bench!Files
  BY <1>1, SixCoders, TurnFile
<1>5. b \in {Bench!Raw(i) : i \in Image} \cup {Bench!Empty}
  BY <1>4, FileBytes DEF Bench!Refilled
<1>6. ~(coder.algorithm = "static" /\ b = Bench!Empty)
        => /\ o # Bench!Crash /\ o # Bench!Rejected
           /\ o = b <=> Bench!Lossless(coder, b)
  BY <1>1, <1>3, <1>4, <1>5, TurnOutcome
<1>7. /\ Bench!Files' = Bench!Files /\ Bench!Read' = Bench!Read
      /\ \A k : Bench!Refilled(k)' = Bench!Refilled(k)
  BY <1>2 DEF Bench!Files, Bench!Read, Bench!Refilled
<1>8. CASE o \in {Bench!Crash, Bench!Rejected}
  <2>1. b = Bench!Empty /\ stage' = "crashed" /\ report' = report
    BY <1>3, <1>6, <1>8
  <2> QED
    BY <1>1, <1>2, <1>7, <2>1
       DEF TurnsOK, Bench!AsPromised, Bench!Bytes, Bench!Turn, Distinct, Bench!Sorted
<1>9. CASE o \notin {Bench!Crash, Bench!Rejected}
  <2>1. /\ report' = Append(report, line(o))
        /\ IF n + 1 = Len(inputData) * 6
             THEN stage' = "done" /\ UNCHANGED d
             ELSE stage' = "encode" /\ d' = Bench!Refilled(n + 1)
    BY <1>3, <1>9
  <2> DEFINE L == [file : Bench!Files, coder : Bench!Coder, matches : BOOLEAN]
  <2>2. report \in Seq(L) /\ line(o) \in L
    BY <1>4 DEF TurnsOK
  <2>3. /\ report' \in Seq(L) /\ Len(report') = n + 1 /\ DOMAIN report' = 1..(n + 1)
        /\ report'[n + 1] = line(o)
        /\ \A i \in 1..n : report'[i] = report[i]
    BY <2>1, <2>2
  <2>4. Bench!AsPromised(line(o))
    BY <1>6 DEF Bench!AsPromised, Bench!Bytes, Bench!Refilled
  <2>5. \A i \in 1..n : /\ Bench!AsPromised(report[i])
                        /\ <<report[i].file, report[i].coder>> = Bench!Turn(i - 1)
    BY <1>1, <2>2 DEF TurnsOK
  <2>6. \A x : Bench!AsPromised(x)' <=> Bench!AsPromised(x)
    BY <1>2 DEF Bench!AsPromised, Bench!Bytes
  <2>7. <<line(o).file, line(o).coder>> = Bench!Turn(n)
    BY DEF Bench!Turn
  <2>8. ASSUME NEW i \in DOMAIN report'
        PROVE  /\ Bench!AsPromised(report'[i])
               /\ <<report'[i].file, report'[i].coder>> = Bench!Turn(i - 1)
    <3>1. CASE i = n + 1
      <4>1. i - 1 = n
        BY <1>1, <3>1
      <4> QED BY <2>3, <2>4, <2>7, <3>1, <4>1
    <3>2. CASE i # n + 1
      BY <1>1, <2>3, <2>5, <3>2
    <3> QED BY <3>1, <3>2
  <2>9. \A i \in DOMAIN report' : /\ Bench!AsPromised(report[i])'
                                 /\ <<report'[i].file, report'[i].coder>> = Bench!Turn(i - 1)'
    BY <1>2, <2>8 DEF Bench!AsPromised, Bench!Bytes, Bench!Turn
  <2>10. Len(report') <= Len(inputData) * 6
    BY <1>1, <2>3
  <2> QED BY <1>1, <1>2, <1>7, <2>1, <2>3, <2>9, <2>10 DEF TurnsOK, Distinct, Bench!Sorted
<1> QED BY <1>8, <1>9

\* In every turn of the validation, the copy given to the coder is the file and what is
\* decoded has been encoded in the same turn.
THEOREM ValidationInvariant == Bench!Spec => []TurnsOK
<1>1. TurnsOK /\ [Bench!Next]_(Bench!vars) => TurnsOK'
  <2> SUFFICES ASSUME TurnsOK, [Bench!Next]_(Bench!vars) PROVE TurnsOK'
    OBVIOUS
  <2>1. CASE UNCHANGED Bench!vars
    BY <2>1 DEF Bench!vars, TurnsOK, Distinct, Bench!Sorted, Bench!Files, Bench!Read,
                Bench!AsPromised, Bench!Bytes, Bench!Turn, Bench!Refilled
  <2> QED
    BY <2>1, ReadFileTurns, StartFilesTurns, EncodeTurns, DecodeTurns
       DEF Bench!Next, Bench!Rest
<1> QED BY <1>1, InitTurns, PTL DEF Bench!Spec

\* As many names have been read as there are files.
LEMMA AllRead ==
  ASSUME TurnsOK, stage # "read"
  PROVE  Len(inputData) = Cardinality(Bench!Files)
<1>1. /\ inputData \in [1..Len(inputData) -> Bench!Files] /\ Len(inputData) \in Nat
      /\ \A i, j \in 1..Len(inputData) : inputData[i] = inputData[j] => i = j
      /\ \A f \in Bench!Files : \E i \in 1..Len(inputData) : inputData[i] = f
  <2>1. inputData \in Seq(Bench!Files) /\ Distinct(inputData) /\ Bench!Read = Bench!Files
    BY DEF TurnsOK
  <2>2. /\ inputData \in [1..Len(inputData) -> Bench!Files] /\ Len(inputData) \in Nat
        /\ DOMAIN inputData = 1..Len(inputData)
    BY <2>1
  <2> QED BY <2>1, <2>2 DEF Distinct, Bench!Read
<1>2. inputData \in Bijection(1..Len(inputData), Bench!Files)
  BY <1>1 DEF Bijection, Injection, Surjection, IsInjective
<1>3. ExistsBijection(1..Len(inputData), Bench!Files)
  BY <1>2 DEF ExistsBijection
<1> QED BY <1>1, <1>3, FS_CountingElements

\* However many files there are and in whatever order they are read, what the
\* validation has printed is the truth about the coders, it is complete when it is
\* done, and only an empty file ends it early.
THEOREM ReportStaysTrue == Bench!Spec => []Bench!LinesAreTrue
<1>1. TurnsOK => Bench!LinesAreTrue
  <2> SUFFICES ASSUME TurnsOK PROVE Bench!LinesAreTrue
    OBVIOUS
  <2>1. stage = "done" => /\ Bench!Read = Bench!Files /\ Bench!Sorted(inputData)
                          /\ Len(report) = Cardinality(Bench!Files) * Len(Bench!Coders)
    BY AllRead, SixCoders DEF TurnsOK
  <2>2. Bench!Cardinality(Bench!Files) = Cardinality(Bench!Files)
    BY DEF Bench!Cardinality, Cardinality
  <2> QED BY <2>1, <2>2 DEF TurnsOK, Bench!LinesAreTrue, Bench!Refilled
<1> QED BY <1>1, ValidationInvariant, PTL
=============================================================================
