------------------------- MODULE BuildDriverProofs -------------------------
(* Theorems about BuildDriver for any set of invocations.                    *)
EXTENDS BuildDriver, TLAPS

\* The jobs that have met are jobs.
LEMMA MeetingTyped == TypeOK => \A at : Meeting(at) \subseteq Job
  BY DEF TypeOK, Meeting

LEMMA FileTyped ==
    /\ Missing \in File
    /\ \A f \in File, j \in Job :
          /\ Opened(f, j) \in File
          /\ Abandoned(f, j) \in File
          /\ \A d \in Content : Closed(f, j, d) \subseteq File
  BY DEF Missing, File, Content, Opened, Abandoned, Closed

LEMMA InitTyped == Init => TypeOK
  BY JobAssumption, FileTyped
  DEF Init, TypeOK, FirstStep, Content, Sharing, Shared

\* One step of one job keeps every variable in its type.
LEMMA StepTyped ==
    ASSUME TypeOK, NEW j \in Job, Step(j)
    PROVE  TypeOK'
<1> USE DEF Step,
              MakeExe, Spawn, RemoveExe, MakeC, EmitC, HostCompiler,
              RemoveC, FrontEnd, BuildWasm, MakeIL, StartQbe, OpenAsm,
              WriteAsm, QbeDies, NativeFails, QbeFailed, WaitQbe,
              ReadAsm, AsmUnreadable, AsmRejected, OpenObj, WriteObj,
              RemoveAsm, LinkObject, LinkFails, WriteOutput, RemoveObj
<1>1. program' \in [Job -> Program]
  BY DEF TypeOK, Goto, Return, Breaks
<1>2. pc' \in [Job -> Sharing \cup {"mkexe", "spawn", "rmexe", "ctemp", "cemit",
                     "cc", "rmc", "front", "wasm", "mkil", "il", "done"}]
  <2>1. FirstStep(j) \in {"ctemp", "front"}
    BY DEF FirstStep
  <2>2. \E l \in Sharing \cup {"spawn", "rmexe", "ctemp", "cemit", "cc", "rmc",
                                "front", "wasm", "mkil", "il", "done"} :
            pc' = [pc EXCEPT ![j] = l]
    BY <2>1, JobAssumption DEF Goto, Return, Breaks, Sharing
  <2> QED
    BY <2>2 DEF TypeOK
<1>3. temps' \subseteq Job \X {"il", "c", "exe"}
  BY DEF TypeOK
<1>4. disk' \in [Shared -> File]
  <2>1. /\ disk \in [Shared -> File] /\ disk["asm"] \in File /\ disk["obj"] \in File
        /\ buf[j] \in Content /\ j \in Content /\ Partial \in Content
        /\ (IF Backend[j] = "qbe" THEN buf[j] ELSE j) \in Content
    BY DEF TypeOK, Shared, Content
  <2>2. \/ disk' = disk
        \/ disk' = [p \in Shared |-> Missing]
        \/ \E f \in File, p \in Shared : disk' = [disk EXCEPT ![p] = f]
    BY <2>1, FileTyped DEF DropBoth, Shared
  <2> QED
    BY <2>1, <2>2, FileTyped
<1>5. buf' \in [Job -> Content]
  <2>1. j \in Content /\ Partial \in Content /\ \A p \in Shared : disk[p].data \in Content
    BY DEF TypeOK, File, Content
  <2> QED
    BY <2>1 DEF TypeOK, Shared
<1>6. out' \in [Job -> Content]
  BY DEF TypeOK, Content
<1>7. result' \in [Job -> {"none", "ok", "failed"}]
  BY DEF TypeOK, Return, Breaks
<1>8. ran' \in [Job -> Content]
  BY DEF TypeOK
<1>9. fault' \in [Job -> BOOLEAN]
  BY DEF TypeOK, Blame, Breaks
<1>10. met' \subseteq Job
  BY MeetingTyped DEF Goto, Return, Breaks
<1> QED
  BY ONLY <1>1, <1>2, <1>3, <1>4, <1>5, <1>6, <1>7, <1>8, <1>9, <1>10
  DEF TypeOK

\* TypeOK holds of any set of invocations of src/main.c's build commands.
THEOREM TypeCorrect == Spec => []TypeOK
<1>1. TypeOK /\ [Next]_vars => TypeOK'
  <2> SUFFICES ASSUME TypeOK, [Next]_vars PROVE TypeOK'
    OBVIOUS
  <2>1. CASE Next
    BY <2>1, StepTyped DEF Next, TypeOK, vars
  <2>2. CASE UNCHANGED vars
    BY <2>2 DEF TypeOK, vars
  <2> QED
    BY <2>1, <2>2
<1> QED
  BY InitTyped, <1>1, PTL DEF Spec

-----------------------------------------------------------------------------
(* Which jobs reach which steps.                                             *)

\* A step of j leaves the steps of the others alone.
LEMMA StepOthers ==
    ASSUME TypeOK, NEW j \in Job, Step(j), NEW i \in Job, i # j
    PROVE  pc'[i] = pc[i]
<1> USE DEF Step,
              MakeExe, Spawn, RemoveExe, MakeC, EmitC, HostCompiler,
              RemoveC, FrontEnd, BuildWasm, MakeIL, StartQbe, OpenAsm,
              WriteAsm, QbeDies, NativeFails, QbeFailed, WaitQbe,
              ReadAsm, AsmUnreadable, AsmRejected, OpenObj, WriteObj,
              RemoveAsm, LinkObject, LinkFails, WriteOutput, RemoveObj
<1> QED
  BY DEF TypeOK, Goto, Return, Breaks

Lane(j) ==
    /\ pc[j] \in {"mkexe", "spawn", "rmexe"} => Command[j] = "run"
    /\ pc[j] \in {"ctemp", "cemit", "cc", "rmc"} => Backend[j] = "c"
    /\ pc[j] \in {"mkil", "il", "qbefailed", "wait"} => Backend[j] = "qbe"
    /\ pc[j] = "front" => Backend[j] # "c"
    /\ pc[j] \in Sharing => Backend[j] \in {"qbe", "native"}
    /\ pc[j] = "wasm" => Backend[j] = "wasm"
    \* A program that is refused gets no further than what refuses it; qbe may
    \* have seen but a part of the IL.
    /\ pc[j] = "cc" => program[j] = "valid"
    /\ pc[j] \in Sharing \cup {"wasm", "mkil", "il"} => program[j] # "rejected"
    /\ pc[j] \in {"asmopen", "asmwrite"} /\ Backend[j] = "qbe" /\ buf[j] = Partial
          => fault[j]
    /\ pc[j] \in Sharing \ {"asmopen", "asmwrite", "qbefailed"} /\ result[j] # "failed"
          => ~Refused(j)
    \* No job has a result before its build returns or links.
    /\ result[j] # "none"
          => pc[j] \in {"rmc", "rmobj", "spawn", "rmexe", "done"}
    /\ pc[j] \in {"rmc", "rmobj", "rmexe", "done"} => result[j] # "none"
    /\ pc[j] = "spawn" => result[j] = "ok"
    /\ result[j] = "ok" => ~Refused(j)

Lanes == \A j \in Job : Lane(j)

LEMMA InitLanes == Init => Lanes
<1> SUFFICES ASSUME Init, NEW j \in Job PROVE Lane(j)
  BY DEF Lanes
<1>1. /\ result[j] = "none"
      /\ \/ pc[j] = "mkexe" /\ Command[j] = "run"
         \/ pc[j] = "ctemp" /\ Backend[j] = "c"
         \/ pc[j] = "front" /\ Backend[j] # "c"
  BY DEF Init, FirstStep
<1> QED
  BY <1>1 DEF Lane, Sharing

LEMMA StepLanes ==
    ASSUME TypeOK, Lanes, NEW j \in Job, Step(j)
    PROVE  Lanes'
<1> USE DEF Step,
              MakeExe, Spawn, RemoveExe, MakeC, EmitC, HostCompiler,
              RemoveC, FrontEnd, BuildWasm, MakeIL, StartQbe, OpenAsm,
              WriteAsm, QbeDies, NativeFails, QbeFailed, WaitQbe,
              ReadAsm, AsmUnreadable, AsmRejected, OpenObj, WriteObj,
              RemoveAsm, LinkObject, LinkFails, WriteOutput, RemoveObj
<1>1. Lane(j)
  BY DEF Lanes
<1>2. pc[j] \in {"mkexe", "spawn", "rmexe"} \/ pc'[j] \notin {"mkexe", "spawn", "rmexe"}
      \/ Command[j] = "run"
  BY JobAssumption DEF TypeOK, Goto, Return, Breaks, FirstStep
<1>3. ASSUME NEW i \in Job, i # j
      PROVE  Lane(i)'
  <2>1. /\ pc'[i] = pc[i] /\ program'[i] = program[i] /\ result'[i] = result[i]
        /\ fault'[i] = fault[i] /\ buf'[i] = buf[i] /\ Lane(i)
    BY <1>3 DEF TypeOK, Lanes, Goto, Return, Breaks, Blame
  <2> QED
    BY ONLY <2>1 DEF Lane, Refused
<1>4. Lane(j)'
  <2> USE <1>1, JobAssumption DEF TypeOK, Lane, Goto, Return, Breaks, Blame, FirstStep
  <2>1. pc'[j] \in {"ctemp", "cemit", "cc", "rmc"} => Backend[j] = "c"
    OBVIOUS
  <2>2. pc'[j] \in {"mkil", "il", "qbefailed", "wait"} => Backend[j] = "qbe"
    BY DEF Sharing
  <2>3. /\ pc'[j] = "front" => Backend[j] # "c"
        /\ pc'[j] = "wasm" => Backend[j] = "wasm"
        /\ pc'[j] = "cc" => program'[j] = "valid"
    OBVIOUS
  <2>4. pc'[j] \in Sharing => Backend[j] \in {"qbe", "native"}
    BY DEF Sharing
  <2>5. pc'[j] \in Sharing \cup {"wasm", "mkil", "il"} => program'[j] # "rejected"
    BY DEF Sharing
  <2>10. pc'[j] \in {"asmopen", "asmwrite"} /\ Backend[j] = "qbe" /\ buf'[j] = Partial
          => fault'[j]
    BY DEF Content
  <2>11. pc'[j] \in Sharing \ {"asmopen", "asmwrite", "qbefailed"}
            /\ result'[j] # "failed" => ~Refused(j)'
    BY DEF Sharing, Refused, QbeAccepts
  <2>6. result'[j] # "none"
          => pc'[j] \in {"rmc", "rmobj", "spawn", "rmexe", "done"}
    BY DEF Sharing
  <2>7. pc'[j] \in {"rmc", "rmobj", "rmexe", "done"} => result'[j] # "none"
    OBVIOUS
  <2>8. /\ pc'[j] = "spawn" => result'[j] = "ok"
        /\ result'[j] = "ok" => ~Refused(j)'
    BY DEF Sharing, Refused
  <2>9. pc'[j] \in {"mkexe", "spawn", "rmexe"} => Command[j] = "run"
    BY <1>2
  <2> QED
    BY ONLY <2>1, <2>2, <2>3, <2>4, <2>5, <2>6, <2>7, <2>8, <2>9,
            <2>10, <2>11 DEF Lane
<1> QED
  BY ONLY <1>3, <1>4 DEF Lanes

-----------------------------------------------------------------------------
(* Nothing is left behind.                                                   *)

\* Each file in the temporary directory has a job that is still going to
\* remove it. A shared path may be owed by a job that did not create it.
OwesExe(j) == Command[j] = "run" /\ pc[j] \notin {"mkexe", "done"}
OwesC(j) == pc[j] \in {"cemit", "cc", "rmc"}
OwesIL(j) ==
    /\ Backend[j] = "qbe"
    /\ pc[j] \in {"il", "asmopen", "asmwrite", "qbefailed", "wait"}
OwesAsm(j) == pc[j] \in {"asmwrite", "qbefailed", "wait", "read", "objopen",
                        "objwrite", "rmasm"}
OwesObj(j) == pc[j] \in {"objwrite", "rmasm", "link", "write", "rmobj"}

TempsOwed ==
    \A j \in Job :
        /\ <<j, "exe">> \in temps => OwesExe(j)
        /\ <<j, "c">> \in temps => OwesC(j)
        /\ <<j, "il">> \in temps => OwesIL(j)

DiskOwed ==
    /\ disk["asm"].data # Absent => MayLeaveAsm \/ \E j \in Job : OwesAsm(j)
    /\ disk["obj"].data # Absent => \E j \in Job : OwesObj(j)

LEMMA OwedRemoved ==
    TypeOK /\ TempsOwed /\ DiskOwed => TempsRemoved
<1> SUFFICES ASSUME TypeOK, TempsOwed, DiskOwed, AllDone
             PROVE  /\ temps = {} /\ disk["obj"].data = Absent
                    /\ MayLeaveAsm \/ disk["asm"].data = Absent
  BY DEF TempsRemoved
<1>1. \A j \in Job : pc[j] = "done"
  BY DEF AllDone
<1>2. temps = {}
  <2> SUFFICES ASSUME NEW t \in temps PROVE FALSE
    OBVIOUS
  <2>1. PICK j \in Job, k \in {"il", "c", "exe"} : t = <<j, k>>
    BY DEF TypeOK
  <2> QED
    BY <1>1, <2>1 DEF TempsOwed, OwesExe, OwesC, OwesIL
<1>3. disk["obj"].data = Absent /\ (MayLeaveAsm \/ disk["asm"].data = Absent)
  BY <1>1 DEF DiskOwed, OwesAsm, OwesObj
<1> QED
  BY <1>2, <1>3

LEMMA StepTempsOwed ==
    ASSUME TypeOK, Lanes, TempsOwed, NEW j \in Job, Step(j)
    PROVE  TempsOwed'
<1>1. ASSUME NEW i \in Job, i # j, NEW k, <<i, k>> \in temps'
      PROVE  <<i, k>> \in temps /\ pc'[i] = pc[i]
  <2>1. pc'[i] = pc[i]
    BY <1>1, StepOthers
  <2>2. temps' \subseteq temps \cup {<<j, "exe">>, <<j, "c">>, <<j, "il">>}
    BY DEF Step, MakeExe, Spawn, RemoveExe, MakeC, EmitC, HostCompiler,
           RemoveC, FrontEnd, BuildWasm, MakeIL, StartQbe, OpenAsm,
           WriteAsm, QbeDies, NativeFails, QbeFailed, WaitQbe,
           ReadAsm, AsmUnreadable, AsmRejected, OpenObj, WriteObj,
           RemoveAsm, LinkObject, LinkFails, WriteOutput, RemoveObj
  <2> QED
    BY <1>1, <2>1, <2>2
<1>2. Lane(j) /\ (<<j, "exe">> \in temps => OwesExe(j))
  BY DEF TempsOwed, Lanes
<1>3. <<j, "c">> \in temps => OwesC(j)
  BY DEF TempsOwed
<1>4. <<j, "il">> \in temps => OwesIL(j)
  BY DEF TempsOwed
<1> USE DEF Step,
              MakeExe, Spawn, RemoveExe, MakeC, EmitC, HostCompiler,
              RemoveC, FrontEnd, BuildWasm, MakeIL, StartQbe, OpenAsm,
              WriteAsm, QbeDies, NativeFails, QbeFailed, WaitQbe,
              ReadAsm, AsmUnreadable, AsmRejected, OpenObj, WriteObj,
              RemoveAsm, LinkObject, LinkFails, WriteOutput, RemoveObj
<1>5. <<j, "exe">> \in temps' => OwesExe(j)'
  BY <1>2 DEF TypeOK, OwesExe, Lane, Goto, Return, Breaks, FirstStep
<1>6. <<j, "c">> \in temps' => OwesC(j)'
  BY <1>3 DEF TypeOK, OwesC, Goto, Return, Breaks
<1>7. <<j, "il">> \in temps' => OwesIL(j)'
  BY <1>2, <1>4 DEF TypeOK, OwesIL, Lane, Goto, Return, Breaks, Sharing
<1> QED
  BY ONLY <1>1, <1>5, <1>6, <1>7, TempsOwed
  DEF TempsOwed, OwesExe, OwesC, OwesIL

LEMMA StepDiskOwed ==
    ASSUME TypeOK, Lanes, DiskOwed, NEW j \in Job, Step(j)
    PROVE  DiskOwed'
<1>0. MayLeaveAsm' <=> MayLeaveAsm
  BY DEF MayLeaveAsm, Step, Goto, Return, Breaks, MakeExe, Spawn, RemoveExe, MakeC,
         EmitC, HostCompiler, RemoveC, FrontEnd, BuildWasm, MakeIL, StartQbe,
         OpenAsm, WriteAsm, QbeDies, NativeFails, QbeFailed, WaitQbe, ReadAsm,
         AsmUnreadable, AsmRejected, OpenObj, WriteObj, RemoveAsm, LinkObject,
         LinkFails, WriteOutput, RemoveObj
<1>1. ASSUME disk'["asm"].data # Absent, NEW i \in Job, OwesAsm(i), i # j
      PROVE  OwesAsm(i)'
  BY <1>1, StepOthers DEF OwesAsm
<1>2. ASSUME NEW i \in Job, OwesObj(i), i # j
      PROVE  OwesObj(i)'
  BY <1>2, StepOthers DEF OwesObj
<1> USE DEF Step,
              MakeExe, Spawn, RemoveExe, MakeC, EmitC, HostCompiler,
              RemoveC, FrontEnd, BuildWasm, MakeIL, StartQbe, OpenAsm,
              WriteAsm, QbeDies, NativeFails, QbeFailed, WaitQbe,
              ReadAsm, AsmUnreadable, AsmRejected, OpenObj, WriteObj,
              RemoveAsm, LinkObject, LinkFails, WriteOutput, RemoveObj
<1>3. \/ disk'["asm"].data = Absent
      \/ disk'["asm"] = disk["asm"] /\ (OwesAsm(j) => OwesAsm(j)')
      \/ OwesAsm(j)'
      \/ MayLeaveAsm
  BY JobAssumption DEF MayLeaveAsm, Lanes, Lane, Sharing,
      TypeOK, OwesAsm, Goto, Return, Breaks, FirstStep, Missing, DropBoth, Shared
<1>4. \/ disk'["obj"].data = Absent
      \/ disk'["obj"] = disk["obj"] /\ (OwesObj(j) => OwesObj(j)')
      \/ OwesObj(j)'
  BY DEF TypeOK, OwesObj, Goto, Return, Breaks, FirstStep, Missing, DropBoth, Shared
<1> QED
  BY ONLY <1>0, <1>1, <1>2, <1>3, <1>4, DiskOwed DEF DiskOwed

\* The last of the jobs to end leaves nothing, but for the assembly file of a
\* qbe build that does not remove it (docs/COMPILER_ARCHITECTURE.md:36).
THEOREM Cleanup == Spec => []TempsRemoved
<1> DEFINE Inv == TypeOK /\ Lanes /\ TempsOwed /\ DiskOwed
<1>1. Init => Inv
  BY InitTyped, InitLanes DEF Init, TempsOwed, DiskOwed, Missing, Shared
<1>2. Inv /\ [Next]_vars => Inv'
  <2> SUFFICES ASSUME Inv, [Next]_vars PROVE Inv'
    OBVIOUS
  <2>1. CASE UNCHANGED vars
    BY <2>1 DEF vars, TypeOK, Lanes, Lane, Refused, TempsOwed, DiskOwed, OwesExe, OwesC, OwesIL,
                OwesAsm, OwesObj, MayLeaveAsm
  <2>2. CASE UNCHANGED vars \/ \E j \in Job : Step(j)
    BY <2>1, <2>2, StepTyped, StepLanes, StepTempsOwed, StepDiskOwed
  <2> QED
    BY <2>2 DEF Next
<1>3. Inv => TempsRemoved
  BY OwedRemoved
<1> QED
  BY <1>1, <1>2, <1>3, PTL DEF Spec

-----------------------------------------------------------------------------
(* What a rejected program and a failed build leave at the output.           *)

OutputInv(j) ==
    /\ Refused(j) => out[j] \notin Job /\ ran[j] = Absent
    /\ out[j] = Partial /\ Backend[j] # "wasm" =>
          \/ Command[j] = "run" /\ pc[j] \notin {"mkexe", "done"}
          \/ /\ Command[j] = "build" /\ pc[j] \in {"rmobj", "done"}
             /\ Backend[j] # "c" /\ result[j] = "ok"

OutputsInv == \A j \in Job : OutputInv(j)

LEMMA StepOutputs ==
    ASSUME TypeOK, Lanes, OutputsInv, NEW j \in Job, Step(j)
    PROVE  OutputsInv'
<1>1. Lane(j) /\ OutputInv(j)
  BY DEF Lanes, OutputsInv
<1> USE DEF Step,
              MakeExe, Spawn, RemoveExe, MakeC, EmitC, HostCompiler,
              RemoveC, FrontEnd, BuildWasm, MakeIL, StartQbe, OpenAsm,
              WriteAsm, QbeDies, NativeFails, QbeFailed, WaitQbe,
              ReadAsm, AsmUnreadable, AsmRejected, OpenObj, WriteObj,
              RemoveAsm, LinkObject, LinkFails, WriteOutput, RemoveObj
<1>2. ASSUME NEW i \in Job, i # j
      PROVE  OutputInv(i)'
  <2>1. /\ pc'[i] = pc[i] /\ program'[i] = program[i] /\ result'[i] = result[i]
        /\ out'[i] = out[i] /\ ran'[i] = ran[i] /\ OutputInv(i)
        /\ fault'[i] = fault[i]
    BY <1>2 DEF TypeOK, OutputsInv, Goto, Return, Breaks, Blame
  <2> QED
    BY ONLY <2>1 DEF OutputInv, Refused
<1>3. Refused(j)' => out'[j] \notin Job /\ ran'[j] = Absent
  <2>1. Refused(j)' => Refused(j)
    BY DEF TypeOK, Refused, Goto, Return, Breaks, Blame
  <2>2. Refused(j) => /\ pc[j] \notin {"cc", "write", "spawn"}
                      /\ pc[j] = "wasm" => program[j] # "valid"
    BY <1>1, <2>1, JobAssumption DEF Lane, Sharing, Refused
  <2> QED
    BY <1>1, <2>1, <2>2, JobAssumption DEF TypeOK, OutputInv, Goto, Return, Breaks
<1>4. out'[j] = Partial /\ Backend[j] # "wasm" =>
          \/ Command[j] = "run" /\ pc'[j] \notin {"mkexe", "done"}
          \/ /\ Command[j] = "build" /\ pc'[j] \in {"rmobj", "done"}
             /\ Backend[j] # "c" /\ result'[j] = "ok"
  BY <1>1, JobAssumption
  DEF TypeOK, Lane, OutputInv, Goto, Return, Breaks, FirstStep, Sharing
<1> QED
  BY ONLY <1>2, <1>3, <1>4 DEF OutputsInv, OutputInv

LEMMA OutputsAlways == Spec => [](TypeOK /\ Lanes /\ OutputsInv)
<1> DEFINE Inv == TypeOK /\ Lanes /\ OutputsInv
<1>1. Init => Inv
  BY InitTyped, InitLanes, JobAssumption DEF Init, OutputsInv, OutputInv
<1>2. Inv /\ [Next]_vars => Inv'
  <2> SUFFICES ASSUME Inv, [Next]_vars PROVE Inv'
    OBVIOUS
  <2>1. CASE UNCHANGED vars
    BY <2>1 DEF vars, TypeOK, Lanes, Lane, Refused, OutputsInv, OutputInv
  <2>2. CASE UNCHANGED vars \/ \E j \in Job : Step(j)
    BY <2>1, <2>2, StepTyped, StepLanes, StepOutputs
  <2> QED
    BY <2>2 DEF Next
<1> QED
  BY <1>1, <1>2, PTL DEF Spec

\* Invalid input never produces an executable, whoever else is building.
THEOREM Rejected == Spec => []RejectedBuildsNothing
<1>1. TypeOK /\ Lanes /\ OutputsInv => RejectedBuildsNothing
  BY DEF Lanes, Lane, OutputsInv, OutputInv, RejectedBuildsNothing
<1> QED
  BY OutputsAlways, <1>1, PTL

\* A failed build leaves no partial binary, whoever else is building.
THEOREM NoPartial == Spec => []NoPartialOutput
<1>1. TypeOK /\ Lanes /\ OutputsInv => NoPartialOutput
  BY DEF OutputsInv, OutputInv, NoPartialOutput
<1> QED
  BY OutputsAlways, <1>1, PTL

-----------------------------------------------------------------------------
(* A job that meets no other on the shared paths has them to itself.         *)

\* Two jobs at the paths have met, and only a job that is writing a file has
\* it open.
Apart ==
    /\ \A i, k \in Job : i # k /\ pc[i] \in Sharing /\ pc[k] \in Sharing
          => i \in met /\ k \in met
    /\ \A j \in Job :
          /\ j \in disk["asm"].open => pc[j] = "asmwrite"
          /\ j \in disk["obj"].open => pc[j] = "objwrite"

\* Where the program of a job is, from its IL to its output.
Holds(j) ==
    /\ pc[j] = "asmwrite" => j \in disk["asm"].open /\ ~disk["asm"].shared
    /\ pc[j] \in {"asmopen", "asmwrite"} /\ Backend[j] = "qbe" => buf[j] \in Own(j)
    /\ pc[j] \in {"wait", "read"} => disk["asm"].data \in Own(j)
    /\ pc[j] \in {"objopen", "objwrite", "write"} => buf[j] \in Own(j)
    /\ pc[j] = "objwrite" => j \in disk["obj"].open /\ ~disk["obj"].shared
    /\ pc[j] \in {"rmasm", "link"} => disk["obj"].data \in Own(j)
    /\ result[j] = "ok" /\ (Command[j] = "build" \/ pc[j] \notin {"done", "rmexe"})
          => out[j] \in Own(j)
    /\ out[j] \in Job => out[j] = j
    /\ ran[j] \in {Absent} \cup Own(j)

\* While the environment plays along, a job goes the way that ends in success
\* if its backend makes a program of its source; otherwise it stops short of
\* that: a native job at the assembler, a qbe job at qbe.
Succeeds(j) ==
    ~fault[j] =>
        /\ Builds(j) => result[j] # "failed" /\ pc[j] # "qbefailed"
        /\ ~Builds(j) => result[j] # "ok"
        /\ Backend[j] = "native" => pc[j] \notin {"objwrite", "rmasm", "link", "write"}

Alone == \A j \in Job \ met : Holds(j) /\ Succeeds(j)

LEMMA StepApart ==
    ASSUME TypeOK, Apart, NEW j \in Job, Step(j)
    PROVE  Apart'
<1>1. pc' = [pc EXCEPT ![j] = pc'[j]] /\ met' = Meeting(pc')
  BY DEF TypeOK, Goto, Return, Breaks, Step,
              MakeExe, Spawn, RemoveExe, MakeC, EmitC, HostCompiler,
              RemoveC, FrontEnd, BuildWasm, MakeIL, StartQbe, OpenAsm,
              WriteAsm, QbeDies, NativeFails, QbeFailed, WaitQbe,
              ReadAsm, AsmUnreadable, AsmRejected, OpenObj, WriteObj,
              RemoveAsm, LinkObject, LinkFails, WriteOutput, RemoveObj
<1>2. ASSUME NEW i \in Job, NEW k \in Job, i # k, pc'[i] \in Sharing, pc'[k] \in Sharing
      PROVE  i \in met' /\ k \in met'
  BY <1>1, <1>2 DEF Meeting
<1>3. \A i \in Job : i # j => pc'[i] = pc[i]
  BY StepOthers
<1>4. disk["asm"] \in File /\ disk["obj"] \in File
  BY DEF TypeOK, Shared
<1>5. /\ disk'["asm"].open \subseteq disk["asm"].open \cup {j}
      /\ disk'["obj"].open \subseteq disk["obj"].open \cup {j}
      /\ j \in disk'["asm"].open => pc'[j] = "asmwrite"
      /\ j \in disk'["obj"].open => pc'[j] = "objwrite"
  BY <1>4 DEF TypeOK, Apart, Goto, Return, Breaks, Step, Missing, DropBoth,
              Shared, Opened, Closed, Abandoned, File, FirstStep,
              MakeExe, Spawn, RemoveExe, MakeC, EmitC, HostCompiler,
              RemoveC, FrontEnd, BuildWasm, MakeIL, StartQbe, OpenAsm,
              WriteAsm, QbeDies, NativeFails, QbeFailed, WaitQbe,
              ReadAsm, AsmUnreadable, AsmRejected, OpenObj, WriteObj,
              RemoveAsm, LinkObject, LinkFails, WriteOutput, RemoveObj
<1> QED
  BY ONLY <1>2, <1>3, <1>5, Apart DEF Apart

LEMMA StepAlone ==
    ASSUME TypeOK, Lanes, Apart, Alone, NEW j \in Job, Step(j)
    PROVE  Alone'
<1>1. met \subseteq met' /\ Apart'
  BY StepApart, ZenonT(60) DEF TypeOK, Goto, Return, Breaks, Step, Meeting,
              MakeExe, Spawn, RemoveExe, MakeC, EmitC, HostCompiler,
              RemoveC, FrontEnd, BuildWasm, MakeIL, StartQbe, OpenAsm,
              WriteAsm, QbeDies, NativeFails, QbeFailed, WaitQbe,
              ReadAsm, AsmUnreadable, AsmRejected, OpenObj, WriteObj,
              RemoveAsm, LinkObject, LinkFails, WriteOutput, RemoveObj
<1>2. ASSUME NEW i \in Job \ met', i # j
      PROVE  Holds(i)' /\ Succeeds(i)'
  <2>1. Holds(i) /\ Succeeds(i)
    BY <1>1, <1>2 DEF Alone
  <2>2. /\ pc'[i] = pc[i] /\ program'[i] = program[i] /\ result'[i] = result[i]
        /\ out'[i] = out[i] /\ ran'[i] = ran[i] /\ buf'[i] = buf[i]
        /\ fault'[i] = fault[i]
    BY <1>2 DEF TypeOK, Goto, Return, Breaks, Blame, Step,
              MakeExe, Spawn, RemoveExe, MakeC, EmitC, HostCompiler,
              RemoveC, FrontEnd, BuildWasm, MakeIL, StartQbe, OpenAsm,
              WriteAsm, QbeDies, NativeFails, QbeFailed, WaitQbe,
              ReadAsm, AsmUnreadable, AsmRejected, OpenObj, WriteObj,
              RemoveAsm, LinkObject, LinkFails, WriteOutput, RemoveObj
  <2>3. pc[i] \in Sharing => pc[j] \notin Sharing
    BY <1>1, <1>2 DEF Apart
  <2>4. pc[j] \notin Sharing => disk' = disk
    BY DEF Sharing, Step,
              MakeExe, Spawn, RemoveExe, MakeC, EmitC, HostCompiler,
              RemoveC, FrontEnd, BuildWasm, MakeIL, StartQbe, OpenAsm,
              WriteAsm, QbeDies, NativeFails, QbeFailed, WaitQbe,
              ReadAsm, AsmUnreadable, AsmRejected, OpenObj, WriteObj,
              RemoveAsm, LinkObject, LinkFails, WriteOutput, RemoveObj
  <2> QED
    BY ONLY <2>1, <2>2, <2>3, <2>4 DEF Holds, Succeeds, Sharing, Own, Builds
<1>3. ASSUME j \notin met'
      PROVE  Holds(j)' /\ Succeeds(j)'
  <2>1. Holds(j) /\ Succeeds(j) /\ Lane(j)
    BY <1>1, <1>3 DEF Alone, Lanes
  <2>2. /\ pc[j] = "asmopen" => disk["asm"].open = {}
        /\ pc[j] = "objopen" => disk["obj"].open = {}
    <3>1. ASSUME pc[j] \in Sharing, NEW i \in Job, i # j
          PROVE  pc[i] \notin Sharing
      BY <1>1, <1>3, <3>1 DEF Apart
    <3>2. disk["asm"].open \subseteq Job /\ disk["obj"].open \subseteq Job
      BY DEF TypeOK, Shared, File
    <3> QED
      BY <3>1, <3>2 DEF Apart, Sharing
  <2>3. disk["asm"] \in File /\ disk["obj"] \in File /\ "asm" \in Shared
        /\ "obj" \in Shared /\ disk \in [Shared -> File]
    BY DEF TypeOK, Shared
  <2>12. /\ pc[j] = "asmwrite" =>
                \A d \in Content : \A f \in Closed(disk["asm"], j, d) : f.data = d
         /\ pc[j] = "objwrite" =>
                \A f \in Closed(disk["obj"], j, buf[j]) : f.data = buf[j]
    BY <2>1, <2>3 DEF Closed, Holds
  <2>13. Own(j) \subseteq Own(j)' /\ j \in Own(j) /\ (fault'[j] => Partial \in Own(j)')
         /\ j \in Own(j)' /\ Own(j) \subseteq Content /\ Own(j)' \subseteq {j, Partial}
         /\ (fault[j] => fault'[j]) /\ (Builds(j)' <=> Builds(j))
         /\ (~fault[j] => Own(j) = {j})
    BY DEF Own, Builds, Content, TypeOK, Goto, Return, Breaks, Blame, Step,
              MakeExe, Spawn, RemoveExe, MakeC, EmitC, HostCompiler,
              RemoveC, FrontEnd, BuildWasm, MakeIL, StartQbe, OpenAsm,
              WriteAsm, QbeDies, NativeFails, QbeFailed, WaitQbe,
              ReadAsm, AsmUnreadable, AsmRejected, OpenObj, WriteObj,
              RemoveAsm, LinkObject, LinkFails, WriteOutput, RemoveObj
  <2> USE <2>1, <2>13, JobAssumption
      DEF Step,
              MakeExe, Spawn, RemoveExe, MakeC, EmitC, HostCompiler,
              RemoveC, FrontEnd, BuildWasm, MakeIL, StartQbe, OpenAsm,
              WriteAsm, QbeDies, NativeFails, QbeFailed, WaitQbe,
              ReadAsm, AsmUnreadable, AsmRejected, OpenObj, WriteObj,
              RemoveAsm, LinkObject, LinkFails, WriteOutput, RemoveObj,
              Goto, Return, Breaks, Blame, FirstStep, TypeOK, Holds
  <2>4. pc'[j] = "asmwrite" => j \in disk'["asm"].open /\ ~disk'["asm"].shared
    <3>1. pc'[j] = "asmwrite" =>
            pc[j] = "asmopen" /\ disk' = [disk EXCEPT !["asm"] = Opened(@, j)]
      BY DEF Lane
    <3>2. pc[j] = "asmopen" =>
            LET f == Opened(disk["asm"], j) IN j \in f.open /\ ~f.shared
      BY ONLY <2>2 DEF Opened
    <3> QED
      BY ONLY <2>3, <3>1, <3>2
  <2>5. pc'[j] \in {"wait", "read"} => disk'["asm"].data \in Own(j)'
    <3>1. pc'[j] \in {"wait", "read"} => WriteAsm(j) \/ (WaitQbe(j) /\ pc[j] = "wait")
      BY DEF Lane
    <3>2. WaitQbe(j) /\ pc[j] = "wait" => disk' = disk
      OBVIOUS
    <3>3. WriteAsm(j) => pc[j] = "asmwrite" /\ disk'["asm"].data \in Own(j)'
      <4>1. ASSUME WriteAsm(j)
            PROVE  \E d \in Own(j)' : d \in Content
                        /\ \E f \in Closed(disk["asm"], j, d) :
                               disk' = [disk EXCEPT !["asm"] = f]
        <5>1. fault'[j] => Partial \in Own(j)' /\ Partial \in Content
          BY DEF Content
        <5>2. (IF Backend[j] = "qbe" THEN buf[j] ELSE j) \in Own(j)' \cap Content
          BY <4>1 DEF Content
        <5> QED
          BY <4>1, <5>1, <5>2
      <4> QED
        BY <2>3, <2>12, <4>1
    <3> QED
      BY ONLY <2>1, <2>13, <3>1, <3>2, <3>3 DEF Holds
  <2>14. pc'[j] \in {"asmopen", "asmwrite"} /\ Backend[j] = "qbe" => buf'[j] \in Own(j)'
    OBVIOUS
  <2>6. pc'[j] \in {"objopen", "objwrite", "write"} => buf'[j] \in Own(j)'
    OBVIOUS
  <2>7. pc'[j] = "objwrite" => j \in disk'["obj"].open /\ ~disk'["obj"].shared
    <3>1. pc'[j] = "objwrite" =>
            pc[j] = "objopen" /\ disk' = [disk EXCEPT !["obj"] = Opened(@, j)]
      BY DEF Lane
    <3>2. pc[j] = "objopen" =>
            LET f == Opened(disk["obj"], j) IN j \in f.open /\ ~f.shared
      BY ONLY <2>2 DEF Opened
    <3> QED
      BY ONLY <2>3, <3>1, <3>2
  <2>8. pc'[j] \in {"rmasm", "link"} => disk'["obj"].data \in Own(j)'
    <3>1. pc'[j] \in {"rmasm", "link"} =>
            \/ pc[j] = "rmasm" /\ disk'["obj"] = disk["obj"]
            \/ /\ pc[j] = "objwrite"
               /\ \E f \in Closed(disk["obj"], j, buf[j]) :
                      disk' = [disk EXCEPT !["obj"] = f]
      BY <2>3 DEF Lane
    <3> QED
      BY ONLY <2>1, <2>3, <2>12, <2>13, <3>1 DEF Holds
  <2>9. result'[j] = "ok" /\ (Command[j] = "build" \/ pc'[j] \notin {"done", "rmexe"})
          => out'[j] \in Own(j)'
    BY DEF Lane, Sharing
  <2>10. (out'[j] \in Job => out'[j] = j) /\ ran'[j] \in {Absent} \cup Own(j)'
    BY DEF Lane
  <2>11. Succeeds(j)'
    <3> SUFFICES ASSUME ~fault'[j] PROVE Succeeds(j)'
      BY DEF Succeeds
    <3>1. Own(j) = {j} /\ ~fault[j]
      OBVIOUS
    <3>2. Builds(j) => result'[j] # "failed" /\ pc'[j] # "qbefailed"
      BY <3>1 DEF Succeeds, Builds, Lane, Sharing, QbeRefuses, NativeText
    <3>3. ~Builds(j) => result'[j] # "ok"
      <4>1. Backend[j] # "native" /\ ~Builds(j) => Refused(j)'
        BY <3>1 DEF TypeOK, Program, Refused, Builds
      <4>2. Backend[j] # "native" /\ ~Builds(j) => result'[j] # "ok"
        <5>1. Lanes'
          BY StepLanes
        <5> QED
          BY ONLY <4>1, <5>1 DEF Lanes, Lane
      <4>3. Backend[j] = "native" => result'[j] # "ok"
        BY <3>1 DEF Succeeds, Builds, Lane, Sharing
      <4> QED
        BY <4>2, <4>3
    <3>4. Backend[j] = "native" => pc'[j] \notin {"objwrite", "rmasm", "link", "write"}
      BY <3>1 DEF Succeeds, Lane, NativeText
    <3> QED
      BY ONLY <2>13, <3>2, <3>3, <3>4 DEF Succeeds
  <2> QED
    BY ONLY <2>4, <2>5, <2>6, <2>7, <2>8, <2>9, <2>10, <2>11,
            <2>14 DEF Holds
<1> QED
  BY ONLY <1>2, <1>3 DEF Alone

LEMMA AloneAlways == Spec => [](TypeOK /\ Lanes /\ Apart /\ Alone)
<1> DEFINE Inv == TypeOK /\ Lanes /\ Apart /\ Alone
<1>1. Init => Inv
  <2> SUFFICES ASSUME Init PROVE Inv
    OBVIOUS
  <2>1. TypeOK /\ Lanes
    BY InitTyped, InitLanes
  <2>2. \A j \in Job : pc[j] \in {"mkexe", "ctemp", "front"}
    BY DEF Init, FirstStep
  <2>3. Apart
    BY <2>2 DEF Apart, Init, Sharing, Missing, Shared
  <2>4. Alone
    <3> SUFFICES ASSUME NEW j \in Job PROVE Holds(j) /\ Succeeds(j)
      BY DEF Alone
    <3>1. /\ result[j] = "none" /\ out[j] \in {Absent, Previous}
          /\ ran[j] = Absent /\ pc[j] \in {"mkexe", "ctemp", "front"}
      BY <2>2 DEF Init
    <3> QED
      BY <3>1, JobAssumption DEF Holds, Succeeds, Own, Sharing
  <2> QED
    BY <2>1, <2>3, <2>4
<1>2. Inv /\ [Next]_vars => Inv'
  <2> SUFFICES ASSUME Inv, [Next]_vars PROVE Inv'
    OBVIOUS
  <2>1. CASE UNCHANGED vars
    BY <2>1 DEF vars, TypeOK, Lanes, Lane, Refused, Apart, Alone, Holds,
                Succeeds, Own, Builds
  <2>2. CASE UNCHANGED vars \/ \E j \in Job : Step(j)
    BY <2>1, <2>2, StepTyped, StepLanes, StepApart, StepAlone
  <2> QED
    BY <2>2 DEF Next
<1> QED
  BY <1>1, <1>2, PTL DEF Spec

\* A job that met no other on the shared paths builds and runs its own program.
THEOREM OwnProgramAlways == Spec => []OwnProgram
<1>1. TypeOK /\ Lanes /\ Apart /\ Alone => OwnProgram
  BY JobAssumption DEF Alone, Holds, OwnProgram, Lanes, Lane
<1> QED
  BY AloneAlways, <1>1, PTL

\* Such a job's verdict depends on its program and its environment alone.
THEOREM RepeatableAlways == Spec => []Repeatable
<1>1. TypeOK /\ Lanes /\ Apart /\ Alone => Repeatable
  BY DEF TypeOK, Alone, Succeeds, Repeatable, Lanes, Lane
<1> QED
  BY AloneAlways, <1>1, PTL
=============================================================================
