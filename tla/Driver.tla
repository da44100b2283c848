-------------------------------- MODULE Driver --------------------------------
(***************************************************************************)
(* Invocations of the plainspeak command (main.cpp) on one file system: the   *)
(* phases and where each may stop, the generated C beside the output, and cc.  *)
(* Two invocations may name the same output, and run at once.                  *)
(***************************************************************************)
EXTENDS Naturals

CONSTANTS Invocations, Sources, Outputs, Requests

ASSUME RequestsAssumption ==
  Requests \subseteq [source : Sources, output : Outputs, options : SUBSET STRING, define : BOOLEAN]

VARIABLES
  request,         (* per invocation: its source, output and options              *)
  verdict,         (* per source: what the phases make of it                      *)
  at,              (* per invocation: the next step                               *)
  code,            (* per invocation: the exit status, once it is over            *)
  generated,       (* per output: the source of the .gen.c file, or "none"        *)
  executable,      (* per output: the source it was made of, or "none"            *)
  wrote,           (* the invocations that have opened a file to write            *)
  failed           (* those whose generated C did not reach the file              *)

driverVars == <<request, verdict, at, code, generated, executable, wrote, failed>>

(* A request has a source, an output, the options that only print (--print-ast,  *)
(* --lint, --emit-c) and whether its --define arguments make sense.               *)
Verdicts == {"unreadable", "bad text", "errors", "warnings", "clean"}

DInit ==
  /\ request \in [Invocations -> Requests]
  /\ verdict \in [Sources -> Verdicts]
  /\ at = [i \in Invocations |-> "options"] /\ code = [i \in Invocations |-> 0]
  /\ generated \in [Outputs -> Sources \cup {"none"}]
  /\ executable = generated
  /\ wrote = {} /\ failed = {}

Files == <<generated, executable, wrote, failed>>
GoTo(i, step) == at' = [at EXCEPT ![i] = step] /\ UNCHANGED <<request, verdict, code>>
Exit(i, status) ==
  /\ at' = [at EXCEPT ![i] = "over"] /\ code' = [code EXCEPT ![i] = status]
  /\ UNCHANGED <<request, verdict>>

Verdict(i) == verdict[request[i].source]

(* Arguments, the file, tokens and parser: the first that fails ends it.         *)
Options(i) ==
  /\ at[i] = "options" /\ UNCHANGED Files
  /\ IF request[i].define THEN GoTo(i, "read") ELSE Exit(i, 1)
ReadSource(i) ==
  /\ at[i] = "read" /\ UNCHANGED Files
  /\ IF Verdict(i) # "unreadable" THEN GoTo(i, "parse") ELSE Exit(i, 1)
Parse(i) ==
  /\ at[i] = "parse" /\ UNCHANGED Files
  /\ IF Verdict(i) = "bad text" THEN Exit(i, 1) ELSE GoTo(i, "analyze")

(* Mutant: the C is emitted before anybody looks at the diagnostics.             *)
AnalyzeLate(i) ==
  /\ at[i] = "analyze" /\ UNCHANGED Files
  /\ IF request[i].options # {} THEN Exit(i, 0) ELSE GoTo(i, "write")

(* Warnings are printed like errors but do not stop the compiler.               *)
Analyze(i) ==
  /\ at[i] = "analyze" /\ UNCHANGED Files
  /\ CASE Verdict(i) = "errors"       -> Exit(i, 1)
       [] request[i].options # {}     -> Exit(i, 0)
       [] OTHER                       -> GoTo(i, "write")

(* The stream is never asked whether the file was opened and written.            *)
WriteC(i) ==
  /\ at[i] = "write" /\ GoTo(i, "cc")
  /\ wrote' = wrote \cup {i}
  /\ \/ generated' = [generated EXCEPT ![request[i].output] = request[i].source] /\ UNCHANGED failed
     \/ failed' = failed \cup {i} /\ UNCHANGED generated
  /\ UNCHANGED executable

(* cc compiles the file as it is then; it may fail, with the old output or none.  *)
Succeeds(i) == Exit(i, 0)
(* Mutant: the status of cc is not looked at.                                    *)
FailsSilently(i) == Exit(i, 0)
Fails(i) == Exit(i, 1)
Cc(i) ==
  LET o == request[i].output IN
  /\ at[i] = "cc" /\ UNCHANGED <<generated, wrote, failed>>
  /\ \/ generated[o] # "none" /\ executable' = [executable EXCEPT ![o] = generated[o]] /\ Succeeds(i)
     \/ /\ \E left \in {"none", executable[o]} : executable' = [executable EXCEPT ![o] = left]
        /\ Fails(i)

DNext ==
  \E i \in Invocations :
    Options(i) \/ ReadSource(i) \/ Parse(i) \/ Analyze(i) \/ WriteC(i) \/ Cc(i)

DSpec == DInit /\ [][DNext]_driverVars

------------------------------------------------------------------------------
Alone(i) == \A j \in Invocations \ {i} : request[j].output # request[i].output \/ j \notin wrote

(* A compilation that reports success has left the executable of its own source,  *)
(* if its generated C was written and no other invocation wrote the same output:    *)
(* otherwise the executable may be that of an older or the other's C (main.cpp).    *)
SuccessIsOwn ==
  \A i \in Invocations :
    at[i] = "over" /\ code[i] = 0 /\ request[i].options = {} /\ i \notin failed /\ Alone(i)
      => executable[request[i].output] = request[i].source

(* An invocation that refuses its program, or only prints, writes no file: what    *)
(* an earlier one built is still there (main.cpp).                                  *)
RefusedWritesNothing ==
  \A i \in wrote : request[i].options = {} /\ Verdict(i) \in {"warnings", "clean"} /\ request[i].define
==============================================================================
