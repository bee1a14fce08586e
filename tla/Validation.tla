----------------------------- MODULE Validation -----------------------------
(***************************************************************************)
(* bench --validate (src/bench.cpp): every file of a folder goes through   *)
(* each coder and back, and a line is printed that says whether it is the  *)
(* same.                                                                   *)
(***************************************************************************)
EXTENDS CodecPromise, Naturals, Sequences, FiniteSets, Functions

CONSTANT
  Name   \* names of the entries of the folder, numbers for their order

ASSUME NameAssumption == Name \subseteq Nat

VARIABLES
  folder,      \* the bytes of every entry; NoFile for what is no regular file
  inputData,   \* the names that have been read
  phase,       \* "read", "encode", "decode", "done" or "crashed"
  d,           \* the copy of the file that is given to the coders
  encoded,     \* what the coder has made of it
  report       \* the lines printed: the file, the coder and whether it matches

vars == <<folder, inputData, phase, d, encoded, report>>

\* The turns of testValidity: getEncodeFnc(true, false, false) and so on.
Coders ==
  << [algorithm |-> "static", model |-> FALSE], [algorithm |-> "static", model |-> TRUE],
     [algorithm |-> "adaptive", model |-> FALSE], [algorithm |-> "adaptive", model |-> TRUE],
     [algorithm |-> "blocks", model |-> FALSE], [algorithm |-> "blocks", model |-> TRUE] >>

Init ==
  /\ folder \in [Name -> {Raw(i) : i \in Image} \cup {Empty, NoFile}]
  /\ inputData = <<>>
  /\ phase = "read"
  /\ d = Empty /\ encoded = Empty
  /\ report = <<>>

Read == {inputData[i] : i \in DOMAIN inputData}
Files == {n \in Name : folder[n] # NoFile}

\* The folder is read in any order.
ReadFile ==
  /\ phase = "read"
  /\ \E n \in Files \ Read : inputData' = Append(inputData, n)
  /\ UNCHANGED <<folder, phase, d, encoded, report>>

\* The turn after `lines` lines.
FileAt(names, lines) == names[(lines \div Len(Coders)) + 1]
TurnCoder(lines) == Coders[(lines % Len(Coders)) + 1]

Sorted(names) == \A i, j \in DOMAIN names : i < j => names[i] < names[j]

StartFiles ==
  /\ phase = "read" /\ Read = Files
  /\ \E p \in Bijection(DOMAIN inputData, DOMAIN inputData) :
       inputData' = [i \in DOMAIN inputData |-> inputData[p[i]]]
  /\ Sorted(inputData')
  /\ IF inputData = <<>>
       THEN phase' = "done" /\ UNCHANGED d
       ELSE phase' = "encode" /\ d' = folder[inputData'[1]]
  /\ UNCHANGED <<folder, encoded, report>>

\* encodeStatic and encodeAdaptive apply the model to their argument in place.
InPlace(coder, bytes) ==
  IF coder.model /\ coder.algorithm # "blocks" /\ bytes # Empty THEN Other ELSE bytes

Encode ==
  LET coder == TurnCoder(Len(report)) IN
  /\ phase = "encode"
  /\ \E outcome \in EncodeOutcomes(coder, d) :
       /\ phase' = IF outcome = Crash THEN "crashed" ELSE "decode"
       /\ encoded' = outcome
  /\ d' = InPlace(coder, d)
  /\ UNCHANGED <<folder, inputData, report>>

\* Mutant: the copy is not made again for every coder.
Refilled_Once(lines) ==
  IF lines % Len(Coders) = 0 THEN folder[FileAt(inputData, lines)] ELSE d

Refilled(lines) == folder[FileAt(inputData, lines)]

\* The result is used whether there is one or not.
Decode ==
  LET lines == Len(report) IN
  /\ phase = "decode"
  /\ \E outcome \in DecodeOutcomes(TurnCoder(lines), encoded) :
       IF outcome \in {Crash, Rejected}
         THEN phase' = "crashed" /\ UNCHANGED <<d, report>>
         ELSE /\ report' = Append(report,
                    [file |-> FileAt(inputData, lines), coder |-> TurnCoder(lines),
                     matches |-> outcome = folder[FileAt(inputData, lines)]])
              /\ IF lines + 1 = Len(inputData) * Len(Coders)
                   THEN phase' = "done" /\ UNCHANGED d
                   ELSE phase' = "encode" /\ d' = Refilled(lines + 1)
  /\ UNCHANGED <<folder, inputData, encoded>>

Rest == phase \in {"done", "crashed"} /\ UNCHANGED vars

Next == ReadFile \/ StartFiles \/ Encode \/ Decode \/ Rest

Spec == Init /\ [][Next]_vars /\ WF_vars(ReadFile \/ StartFiles \/ Encode \/ Decode)

-----------------------------------------------------------------------------
Lossless(coder, bytes) ==
  coder.algorithm # "blocks" \/ bytes \in {Raw(i) : i \in WholeImage} \cup {Empty}

Bytes(line) == folder[line.file]

AsPromised(line) ==
  \/ line.matches <=> Lossless(line.coder, Bytes(line))
  \/ line.coder.algorithm = "static" /\ Bytes(line) = Empty

Turn(lines) == <<FileAt(inputData, lines), TurnCoder(lines)>>

\* What has been printed is at any time the truth about the coders: each file, by
\* name, goes through each coder, and all match but images with an incomplete row in
\* blocks.  Only an empty file, which the static coder cannot have, comes out in any
\* way or ends the program.
LinesAreTrue ==
  /\ \A i \in DOMAIN report : /\ AsPromised(report[i])
                              /\ <<report[i].file, report[i].coder>> = Turn(i - 1)
  /\ phase = "done" =>
       /\ Read = Files /\ Len(report) = Cardinality(Files) * Len(Coders)
       /\ Sorted(inputData)
  /\ phase = "crashed" => folder[FileAt(inputData, Len(report))] = Empty

\* Validation comes to an end, and its report is then true, although coders overwrite the
\* copy they are given.
ReportIsTrue == <>(LinesAreTrue /\ phase \in {"done", "crashed"})
=============================================================================
