------------------------------ MODULE EnvFile -------------------------------
(***************************************************************************)
(* pkg/config/loader.go: LoadEnvFile, which sets the variables of a .env   *)
(* file line by line, and the two ways of reading them.                    *)
(*                                                                         *)
(* A line is what parseLine makes of it: white space and the quotes around *)
(* a value are gone.                                                       *)
(*                                                                         *)
(* A definition whose comment begins with "Bug:" is a mutant of the one    *)
(* that follows.                                                           *)
(***************************************************************************)
EXTENDS Process, Sequences

CONSTANT Files   \* the files there may be

Pair(n, v) == [kind |-> "pair", name |-> n, value |-> v]

(* Lines that set nothing: blank or a comment; without "=" or a name; one  *)
(* os.Setenv does not take; longer than bufio.Scanner can hold.            *)
Line(kind) == [kind |-> kind, name |-> Unset, value |-> Unset]
Stops      == {"malformed", "refused", "too long"}

Lines == {Pair(n, v) : n \in Names, v \in Values}
           \cup {Line(kind) : kind \in Stops \cup {"skipped"}}

ASSUME FilesAssumption == Files \subseteq Seq(Lines)

VARIABLES
  file,     \* the lines of the file
  lineNum,  \* how many of them have been scanned
  load,     \* LoadEnvFile: "open", "scan", "missing", "error", "nil"
  given     \* history: the environment the process was started with

loader == <<file, lineNum, load, given>>

LoaderInit ==
  /\ file \in Files /\ lineNum = 0 /\ load = "open" /\ given = env

OpenFails ==
  /\ load = "open"
  /\ load' = "missing"
  /\ UNCHANGED <<process, file, lineNum, given>>

Open ==
  /\ load = "open"
  /\ load' = "scan"
  /\ UNCHANGED <<process, file, lineNum, given>>

Scanned == file[lineNum + 1]

(* Bug: variables that exist are overwritten.                              *)
SetenvAlways(n, v) == env' = [env EXCEPT ![n] = v]

(* A variable that exists, be it empty, is not overwritten.                *)
SetenvIfNew(n, v) == env' = IF Exists(n) THEN env ELSE [env EXCEPT ![n] = v]

ScanLine ==
  /\ load = "scan" /\ lineNum < Len(file)
  /\ IF Scanned.kind = "pair" THEN SetenvIfNew(Scanned.name, Scanned.value)
                              ELSE UNCHANGED env
  /\ load' = IF Scanned.kind \in Stops THEN "error" ELSE "scan"
  /\ lineNum' = lineNum + 1
  /\ UNCHANGED <<ctxDone, file, given>>

ScanEnds ==
  /\ load = "scan" /\ lineNum = Len(file)
  /\ load' = "nil"
  /\ UNCHANGED <<process, file, lineNum, given>>

LoadStep == OpenFails \/ Open \/ ScanLine \/ ScanEnds
Loaded   == load \in {"missing", "error", "nil"}

GetEnv(n, default) == IF Getenv(n) # "" THEN Getenv(n) ELSE default
MustGetEnvPanics(n) == Getenv(n) = ""
=============================================================================
