----------------------------- MODULE DriverProofs -----------------------------
(***************************************************************************)
(* Proofs about Driver: for any number of invocations, sources and outputs,   *)
(* a refused program writes nothing, and success is of one's own source.       *)
(***************************************************************************)
EXTENDS Driver, TLAPS

Accepted(i) ==
  /\ request[i].options = {} /\ request[i].define /\ Verdict(i) \in {"warnings", "clean"}

(* What an invocation has passed, by the step it is at.                        *)
Passed(i) ==
  /\ at[i] \in {"read", "parse", "analyze"} => request[i].define
  /\ at[i] \in {"parse", "analyze"} => Verdict(i) # "unreadable"
  /\ at[i] = "analyze" => Verdict(i) # "bad text"
  /\ at[i] \in {"write", "cc"} => Accepted(i)
  /\ at[i] = "cc" => i \in wrote
  /\ i \in wrote => Accepted(i)

DTypeOK ==
  /\ request \in [Invocations -> Requests] /\ verdict \in [Sources -> Verdicts]
  /\ at \in [Invocations -> {"options", "read", "parse", "analyze", "write", "cc", "over"}]
  /\ code \in [Invocations -> {0, 1}]
  /\ generated \in [Outputs -> Sources \cup {"none"}]
  /\ executable \in [Outputs -> Sources \cup {"none"}]
  /\ wrote \subseteq Invocations /\ failed \subseteq Invocations

(* An invocation alone on its output finds there what it wrote.                 *)
OwnFiles(i) ==
  i \notin failed /\ Alone(i) =>
    /\ at[i] = "cc" => generated[request[i].output] = request[i].source
    /\ at[i] = "over" /\ code[i] = 0 /\ request[i].options = {}
         => executable[request[i].output] = request[i].source

DInv == DTypeOK /\ \A i \in Invocations : Passed(i) /\ OwnFiles(i)

Moves(i) == Options(i) \/ ReadSource(i) \/ Parse(i) \/ Analyze(i) \/ WriteC(i) \/ Cc(i)

(* What an invocation was asked: a source, an output, and a program with a verdict. *)
LEMMA RequestParts ==
  ASSUME DTypeOK, NEW i \in Invocations
  PROVE  /\ request[i].source \in Sources /\ request[i].output \in Outputs
         /\ Verdict(i) \in Verdicts
BY RequestsAssumption DEF DTypeOK, Verdict

(* Nobody has moved: the invariant holds.                                     *)
LEMMA DInitInv == DInit => DInv
BY DEF DInit, DInv, DTypeOK, Passed, OwnFiles

(* A step keeps the types.                                                      *)
LEMMA TypesKept ==
  ASSUME DTypeOK, NEW i \in Invocations, Moves(i)
  PROVE  DTypeOK'
<1> USE RequestParts DEF DTypeOK
<1>1. CASE Options(i)
  BY <1>1 DEF Options, GoTo, Exit, Files
<1>2. CASE ReadSource(i)
  BY <1>2 DEF ReadSource, GoTo, Exit, Files
<1>3. CASE Parse(i)
  BY <1>3 DEF Parse, GoTo, Exit, Files
<1>4. CASE Analyze(i)
  BY <1>4 DEF Analyze, GoTo, Exit, Files
<1>5. CASE WriteC(i)
  BY <1>5 DEF WriteC, GoTo
<1>6. CASE Cc(i)
  <2> DEFINE o == request[i].output
  <2>1. o \in Outputs /\ generated[o] \in Sources \cup {"none"} /\ executable[o] \in Sources \cup {"none"}
    OBVIOUS
  <2>2. executable' \in [Outputs -> Sources \cup {"none"}]
    BY <1>6, <2>1 DEF Cc
  <2>3. QED
    BY <1>6, <2>2 DEF Cc, Exit, Succeeds, Fails
<1>7. QED
  BY <1>1, <1>2, <1>3, <1>4, <1>5, <1>6 DEF Moves

(* A step of i leaves what the others have passed.                              *)
LEMMA OthersPassed ==
  ASSUME DInv, NEW i \in Invocations, Moves(i), NEW j \in Invocations, j # i
  PROVE  Passed(j)'
<1>1. /\ UNCHANGED <<request, verdict>> /\ at'[j] = at[j]
      /\ wrote \subseteq wrote' /\ wrote' \subseteq wrote \cup {i}
  BY DEF DInv, DTypeOK, Moves, Options, ReadSource, Parse, Analyze, WriteC, Cc, GoTo, Exit, Files,
         Succeeds, Fails
<1>2. Passed(j)
  BY DEF DInv
<1>3. QED
  BY <1>1, <1>2 DEF Passed, Accepted, Verdict

(* The invocation that moves goes past a check only when its program passes.  *)
LEMMA SelfPassed ==
  ASSUME DInv, NEW i \in Invocations, Moves(i)
  PROVE  Passed(i)'
<1> USE DEF Passed, Accepted, Verdict
<1>1. DTypeOK /\ Passed(i) /\ Verdict(i) \in Verdicts
  BY RequestParts DEF DInv
<1>2. CASE Options(i)
  BY <1>1, <1>2 DEF DTypeOK, Options, GoTo, Exit, Files
<1>3. CASE ReadSource(i)
  BY <1>1, <1>3 DEF DTypeOK, ReadSource, GoTo, Exit, Files
<1>4. CASE Parse(i)
  BY <1>1, <1>4 DEF DTypeOK, Parse, GoTo, Exit, Files
<1>5. CASE Analyze(i)
  BY <1>1, <1>5 DEF DTypeOK, Analyze, GoTo, Exit, Files, Verdicts
<1>6. CASE WriteC(i)
  BY <1>1, <1>6 DEF DTypeOK, WriteC, GoTo
<1>7. CASE Cc(i)
  BY <1>1, <1>7 DEF DTypeOK, Cc, Exit, Succeeds, Fails
<1>8. QED
  BY <1>2, <1>3, <1>4, <1>5, <1>6, <1>7 DEF Moves

(* Nobody else writes the files of an invocation that is alone on them.          *)
LEMMA OthersFiles ==
  ASSUME DInv, NEW i \in Invocations, Moves(i), NEW j \in Invocations, j # i
  PROVE  OwnFiles(j)'
<1>1. /\ UNCHANGED <<request, verdict>> /\ at'[j] = at[j] /\ code'[j] = code[j]
      /\ wrote \subseteq wrote' /\ failed \subseteq failed'
  BY DEF DInv, DTypeOK, Moves, Options, ReadSource, Parse, Analyze, WriteC, Cc, GoTo, Exit, Files,
         Succeeds, Fails
<1>2. SUFFICES ASSUME j \notin failed', Alone(j)'
               PROVE  /\ at[j] = "cc" => generated'[request[j].output] = request[j].source
                      /\ at[j] = "over" /\ code[j] = 0 /\ request[j].options = {}
                           => executable'[request[j].output] = request[j].source
  BY <1>1 DEF OwnFiles
<1>3. j \notin failed /\ Alone(j)
  BY <1>1, <1>2 DEF Alone
<1>4. OwnFiles(j) /\ Passed(i) /\ DTypeOK
  BY DEF DInv
<1>5. request[i].output \in Outputs /\ request[j].output \in Outputs
  BY <1>4, RequestParts
<1>6. CASE request[i].output = request[j].output
  <2>1. i \notin wrote'
    BY <1>1, <1>2, <1>6 DEF Alone
  <2>2. ~ WriteC(i) /\ ~ Cc(i)
    BY <1>1, <1>4, <2>1 DEF WriteC, Cc, Passed
  <2>3. UNCHANGED <<generated, executable>>
    BY <2>2 DEF Moves, Options, ReadSource, Parse, Analyze, Files
  <2>4. QED
    BY <1>3, <1>4, <2>3 DEF OwnFiles
<1>7. CASE request[i].output # request[j].output
  <2>1. CASE WriteC(i)
    <3>1. UNCHANGED executable /\ generated'[request[j].output] = generated[request[j].output]
      BY <1>4, <1>5, <1>7, <2>1 DEF DTypeOK, WriteC
    <3>2. QED
      BY <1>3, <1>4, <3>1 DEF OwnFiles
  <2>2. CASE Cc(i)
    <3>1. UNCHANGED generated /\ executable'[request[j].output] = executable[request[j].output]
      BY <1>4, <1>5, <1>7, <2>2 DEF DTypeOK, Cc
    <3>2. QED
      BY <1>3, <1>4, <3>1 DEF OwnFiles
  <2>3. CASE Options(i) \/ ReadSource(i) \/ Parse(i) \/ Analyze(i)
    <3>1. UNCHANGED <<generated, executable>>
      BY <2>3 DEF Options, ReadSource, Parse, Analyze, Files
    <3>2. QED
      BY <1>3, <1>4, <3>1 DEF OwnFiles
  <2>4. QED
    BY <2>1, <2>2, <2>3 DEF Moves
<1>8. QED
  BY <1>6, <1>7

(* What the invocation that moves says of its files is so.                    *)
LEMMA SelfFiles ==
  ASSUME DInv, NEW i \in Invocations, Moves(i)
  PROVE  OwnFiles(i)'
<1>1. DTypeOK /\ Passed(i) /\ OwnFiles(i) /\ request[i].output \in Outputs
  BY RequestParts DEF DInv
<1>2. CASE Options(i)
  BY <1>1, <1>2 DEF DTypeOK, OwnFiles, Options, GoTo, Exit, Files
<1>3. CASE ReadSource(i)
  BY <1>1, <1>3 DEF DTypeOK, OwnFiles, ReadSource, GoTo, Exit, Files
<1>4. CASE Parse(i)
  <2>1. at'[i] = "analyze" \/ (at'[i] = "over" /\ code'[i] = 1)
    BY <1>1, <1>4 DEF DTypeOK, Parse, GoTo, Exit
  <2>2. QED
    BY <2>1 DEF OwnFiles
<1>5. CASE Analyze(i)
  <2>1. \/ at'[i] = "write"
        \/ at'[i] = "over" /\ (code'[i] = 1 \/ request'[i].options # {})
    BY <1>1, <1>5 DEF DTypeOK, Analyze, GoTo, Exit
  <2>2. QED
    BY <2>1 DEF OwnFiles
<1>6. CASE WriteC(i)
  BY <1>1, <1>6 DEF DTypeOK, OwnFiles, WriteC, GoTo
<1>7. CASE Cc(i)
  BY <1>1, <1>7 DEF DTypeOK, OwnFiles, Cc, Exit, Succeeds, Fails, Alone
<1>8. QED
  BY <1>2, <1>3, <1>4, <1>5, <1>6, <1>7 DEF Moves

(* Every step of any invocation keeps the invariant.                          *)
LEMMA DStepInv == DInv /\ [DNext]_driverVars => DInv'
<1> SUFFICES ASSUME DInv, [DNext]_driverVars PROVE DInv'
  OBVIOUS
<1>1. CASE DNext
  <2>1. PICK i \in Invocations : Moves(i)
    BY <1>1 DEF DNext, Moves
  <2>2. DTypeOK'
    BY <2>1, TypesKept DEF DInv
  <2>3. \A j \in Invocations : Passed(j)' /\ OwnFiles(j)'
    BY <2>1, OthersPassed, SelfPassed, OthersFiles, SelfFiles
  <2>4. QED
    BY <2>2, <2>3 DEF DInv
<1>2. CASE UNCHANGED driverVars
  BY <1>2 DEF DInv, DTypeOK, Passed, OwnFiles, Accepted, Verdict, Alone, driverVars
<1>3. QED
  BY <1>1, <1>2

(* Whoever is past the analysis has a program without errors, and whoever is  *)
(* over has left the files its exit code promises, whatever the others do.    *)
THEOREM DriverInvariant == DSpec => []DInv
BY DInitInv, DStepInv, PTL DEF DSpec

(* A refused program, or one that is only printed, leaves every file as it was.   *)
THEOREM DriverWritesNothing == DSpec => []RefusedWritesNothing
<1>1. DInv => RefusedWritesNothing
  BY DEF DInv, DTypeOK, Passed, Accepted, RefusedWritesNothing
<1>2. QED
  BY <1>1, DriverInvariant, PTL

(* Success means the executable of one's own source, unless the generated C was    *)
(* lost or another invocation wrote the same output.                                *)
THEOREM DriverSuccess == DSpec => []SuccessIsOwn
<1>1. DInv => SuccessIsOwn
  BY DEF DInv, OwnFiles, SuccessIsOwn
<1>2. QED
  BY <1>1, DriverInvariant, PTL
==============================================================================
