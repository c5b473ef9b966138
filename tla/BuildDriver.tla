---------------------------- MODULE BuildDriver ----------------------------
(* Concurrent `tiq build` and `tiq run` invocations on one machine           *)
(* (src/main.c: build_target, build_qbe, build_native, build_wasm and the    *)
(* `run` command).                                                           *)
(*                                                                           *)
(* Each invocation is a job. It keeps its IL, its generated C and, for       *)
(* `run`, its executable in files made by mkstemp, which are its own. The    *)
(* assembly and the object file of the qbe and native backends are not: the  *)
(* names come from temporary_qbe_template alone, so every job of the machine *)
(* uses the same two paths. Those two are modelled as files that several     *)
(* jobs open, truncate, write, read and unlink.                              *)
(*                                                                           *)
(* A program, and each text made of it, is known by the job it was compiled  *)
(* from. Every failure of the environment (a full disk, no processes left, a *)
(* missing tool, a killed child) is a choice, and fault remembers that one   *)
(* was taken; some of them the driver does not notice.                       *)

CONSTANTS
    Job,        \* the invocations
    Command,    \* Job -> {"build", "run"}
    Backend,    \* Job -> {"c", "qbe", "native", "wasm"}
    KeepsAsm,   \* the compiler is the Linux x86_64 build of itself
    WaitFails,  \* SIGCHLD may be ignored, so waitpid may answer ECHILD
    Absent,     \* no such file
    Partial,    \* a file cut short, or two writers' bytes mixed
    Previous    \* an output of an earlier build

ASSUME JobAssumption ==
    /\ Command \in [Job -> {"build", "run"}]
    /\ Backend \in [Job -> {"c", "qbe", "native", "wasm"}]
    /\ \A j \in Job : Backend[j] = "wasm" => Command[j] = "build"
    /\ {KeepsAsm, WaitFails} \subseteq BOOLEAN
    /\ \A j \in Job : Backend[j] = "native" => KeepsAsm
    /\ Absent # Partial /\ Absent # Previous /\ Partial # Previous
    /\ {Absent, Partial, Previous} \cap Job = {}

VARIABLES
    program, \* what the compiler makes of each job's source
    pc,      \* where each job is
    temps,   \* the mkstemp files: pairs of a job and "il", "c" or "exe"
    disk,    \* the two files every job shares
    buf,     \* the text a job holds: its IL, then what it has read back
    out,     \* the file at each job's output path
    result,  \* the exit status: "none" until there is one
    ran,     \* the program `run` executed
    fault,   \* whether the environment failed this job
    met      \* history: the jobs that shared the two paths with another

vars == <<program, pc, temps, disk, buf, out, result, ran, fault, met>>

Content == Job \cup {Absent, Partial, Previous}

\* What a compiler makes of a source: the front end rejects it, or an operation
\* of it is left out by an emitter that does not know it. The value of that
\* operation is used further on (undefined) or is not (incomplete).
Program == {"valid", "rejected", "undefined", "incomplete"}

\* The paths temporary_qbe_template("XXXXXX.s") and ("XXXXXX.o") name.
Shared == {"asm", "obj"}

\* A file: what it holds, the jobs with it open for writing, and whether two
\* of them had it open at once.
File == [data : Content, open : SUBSET Job, shared : BOOLEAN]

Missing == [data |-> Absent, open |-> {}, shared |-> FALSE]

\* fopen(path, "w"): the file is truncated under any other writer.
Opened(f, j) ==
    [data |-> Partial, open |-> f.open \cup {j}, shared |-> f.open # {}]

\* The last write and fclose of j. A file unlinked meanwhile keeps nothing of
\* it; where two jobs wrote at once, the bytes may be j's or a mixture.
Closed(f, j, d) ==
    IF j \notin f.open THEN {f}
    ELSE {[data |-> x, open |-> f.open \ {j}, shared |-> f.shared] :
            x \in IF f.shared THEN {d, Partial} ELSE {d}}

\* A writer that dies leaves what it has written.
Abandoned(f, j) == [f EXCEPT !.open = @ \ {j}]

\* The steps between a job's first and its last use of a shared path.
Sharing == {"asmopen", "asmwrite", "qbefailed", "wait", "read", "objopen",
            "objwrite", "rmasm", "link", "write", "rmobj"}

-----------------------------------------------------------------------------
\* A job starts with `run`'s executable, then with its backend's first step.

FirstStep(j) == IF Backend[j] = "c" THEN "ctemp" ELSE "front"

Init ==
    /\ program \in [Job -> Program]
    /\ pc = [j \in Job |-> IF Command[j] = "run" THEN "mkexe"
                                                 ELSE FirstStep(j)]
    /\ temps = {}
    /\ disk = [p \in Shared |-> Missing]
    /\ buf = [j \in Job |-> Absent]
    /\ out \in [Job -> {Absent, Previous}]
    /\ \A j \in Job : Command[j] = "run" => out[j] = Absent
    /\ result = [j \in Job |-> "none"]
    /\ ran = [j \in Job |-> Absent]
    /\ fault = [j \in Job |-> FALSE]
    /\ met = {}

\* Jobs that are between their first and last use of the two paths together
\* have met.
Meeting(at) ==
    LET users == {i \in Job : at[i] \in Sharing}
    IN  IF \E i, k \in users : i # k THEN met \cup users ELSE met

\* Job j goes on at step l; its source stays what it is.
Goto(j, l) ==
    /\ pc' = [pc EXCEPT ![j] = l]
    /\ met' = Meeting(pc')
    /\ UNCHANGED program

Blame(j) == fault' = [fault EXCEPT ![j] = TRUE]

\* The build returns r: `build` exits with it, `run` goes on with it.
Return(j, r) ==
    /\ result' = [result EXCEPT ![j] = r]
    /\ Goto(j, IF Command[j] = "build" THEN "done"
               ELSE IF r = "ok" THEN "spawn" ELSE "rmexe")

\* The build fails through no fault of the program.
Breaks(j) == Return(j, "failed") /\ Blame(j)

-----------------------------------------------------------------------------
\* `run`: make the executable's file, build into it, execute it, remove it.

MakeExe(j) ==
    /\ pc[j] = "mkexe"
    /\ \/ /\ temps' = temps \cup {<<j, "exe">>}
          /\ out' = [out EXCEPT ![j] = Partial]
          /\ Goto(j, FirstStep(j))
          /\ UNCHANGED <<result, fault>>
       \/ /\ result' = [result EXCEPT ![j] = "failed"]
          /\ Goto(j, "done")
          /\ Blame(j)
          /\ UNCHANGED <<temps, out>>
    /\ UNCHANGED <<disk, buf, ran>>

\* fork, execl and one waitpid. A mixed executable may do anything. When fork
\* or waitpid fails the status is read without ever having been written.
Spawn(j) ==
    /\ pc[j] = "spawn"
    /\ Goto(j, "rmexe")
    /\ \/ /\ ran' = [ran EXCEPT ![j] = out[j]]
          /\ IF out[j] \in Job THEN UNCHANGED result
             ELSE \E r \in {"ok", "failed"} : result' = [result EXCEPT ![j] = r]
          /\ UNCHANGED fault
       \/ /\ \E r \in {"ok", "failed"} : result' = [result EXCEPT ![j] = r]
          /\ Blame(j)
          /\ \/ UNCHANGED ran
             \/ WaitFails /\ ran' = [ran EXCEPT ![j] = out[j]]
    /\ UNCHANGED <<temps, disk, buf, out>>

RemoveExe(j) ==
    /\ pc[j] = "rmexe"
    /\ temps' = temps \ {<<j, "exe">>}
    /\ out' = [out EXCEPT ![j] = Absent]
    /\ Goto(j, "done")
    /\ UNCHANGED <<disk, buf, result, ran, fault>>

-----------------------------------------------------------------------------
\* The C backend: mkstemp, emit, host compiler, remove.

MakeC(j) ==
    /\ pc[j] = "ctemp"
    /\ \/ /\ temps' = temps \cup {<<j, "c">>}
          /\ Goto(j, "cemit")
          /\ UNCHANGED <<result, fault>>
       \/ Breaks(j) /\ UNCHANGED temps
    /\ UNCHANGED <<disk, buf, out, ran>>

EmitCAnyway(j) ==       \* compiles what the front end rejected
    /\ pc[j] = "cemit"
    /\ Goto(j, "cc")
    /\ UNCHANGED <<temps, result, fault, disk, buf, out, ran>>

EmitC(j) ==
    /\ pc[j] = "cemit"
    /\ \/ /\ program[j] = "valid"
          /\ Goto(j, "cc")
          /\ UNCHANGED <<temps, result, fault>>
       \/ /\ program[j] # "valid"
          /\ temps' = temps \ {<<j, "c">>}
          /\ Return(j, "failed")
          /\ UNCHANGED fault
       \/ /\ Breaks(j)
          /\ temps' = temps \ {<<j, "c">>}
    /\ UNCHANGED <<disk, buf, out, ran>>

\* cc removes or never touches its output when it fails; its success is not
\* believed when waitpid fails.
HostCompiler(j) ==
    /\ pc[j] = "cc"
    /\ Goto(j, "rmc")
    /\ \/ /\ out' = [out EXCEPT ![j] = j]
          /\ result' = [result EXCEPT ![j] = "ok"]
          /\ UNCHANGED fault
       \/ /\ \E x \in {out[j], Absent} \cup (IF WaitFails THEN {j} ELSE {}) :
                out' = [out EXCEPT ![j] = x]
          /\ result' = [result EXCEPT ![j] = "failed"]
          /\ Blame(j)
    /\ UNCHANGED <<temps, disk, buf, ran>>

\* remove fails only when the file is already gone (swept from the temporary
\* directory), and then the build fails whatever the compiler said.
RemoveC(j) ==
    /\ pc[j] = "rmc"
    /\ temps' = temps \ {<<j, "c">>}
    /\ \/ Return(j, result[j]) /\ UNCHANGED fault
       \/ Breaks(j)
    /\ UNCHANGED <<disk, buf, out, ran>>

-----------------------------------------------------------------------------
\* The front end of the other backends: load, check and lower. Nothing has
\* been written yet. The wasm backend then writes its output directly.

FrontEnd(j) ==
    /\ pc[j] = "front"
    /\ \/ /\ program[j] = "rejected"
          /\ Return(j, "failed")
       \/ /\ program[j] # "rejected"
          /\ Goto(j, CASE Backend[j] = "qbe" -> "mkil"
                       [] Backend[j] = "native" -> "asmopen"
                       [] OTHER -> "wasm")
          /\ UNCHANGED result
    /\ UNCHANGED <<temps, disk, buf, out, ran, fault>>

BuildWasm(j) ==
    /\ pc[j] = "wasm"
    /\ \/ /\ program[j] = "valid"
          /\ out' = [out EXCEPT ![j] = j]
          /\ Return(j, "ok")
          /\ UNCHANGED fault
       \/ /\ program[j] # "valid"
          /\ Return(j, "failed")
          /\ UNCHANGED <<out, fault>>
       \/ /\ program[j] = "valid"
          /\ Breaks(j)
          /\ \E x \in {out[j], Partial} : out' = [out EXCEPT ![j] = x]
    /\ UNCHANGED <<temps, disk, buf, ran>>

-----------------------------------------------------------------------------
\* qbe and native: the assembly file, written by the qbe child from the IL or
\* by emit_native itself.

MakeIL(j) ==
    /\ pc[j] = "mkil"
    /\ \/ /\ temps' = temps \cup {<<j, "il">>}
          /\ Goto(j, "il")
          /\ UNCHANGED <<result, fault>>
       \/ Breaks(j) /\ UNCHANGED temps
    /\ UNCHANGED <<disk, buf, out, ran>>

\* emit_qbe, which drops what it does not know, the search for the runtime and
\* for qbe, and the fork. The IL may be cut short by an fclose nobody looks at.
StartQbe(j) ==
    /\ pc[j] = "il"
    /\ \/ /\ buf' = [buf EXCEPT ![j] = j]
          /\ Goto(j, "asmopen")
          /\ UNCHANGED <<temps, result, fault>>
       \/ /\ buf' = [buf EXCEPT ![j] = Partial]
          /\ Goto(j, "asmopen")
          /\ Blame(j)
          /\ UNCHANGED <<temps, result>>
       \/ /\ Breaks(j)
          /\ temps' = temps \ {<<j, "il">>}
          /\ UNCHANGED buf
    /\ UNCHANGED <<disk, out, ran>>

\* build_native returns at once when it cannot open the file; a qbe child
\* exits with an error.
OpenAsm(j) ==
    /\ pc[j] = "asmopen"
    /\ \/ /\ disk' = [disk EXCEPT !["asm"] = Opened(@, j)]
          /\ Goto(j, "asmwrite")
          /\ UNCHANGED <<result, fault>>
       \/ /\ Backend[j] = "native"
          /\ Breaks(j)
          /\ UNCHANGED disk
       \/ /\ Backend[j] = "qbe"
          /\ Goto(j, "qbefailed")
          /\ Blame(j)
          /\ UNCHANGED <<disk, result>>
    /\ UNCHANGED <<temps, buf, out, ran>>

\* qbe takes the IL unless it uses a value that nothing defines; a part of it
\* may pass.
QbeAccepts(j) == program[j] # "undefined" \/ buf[j] = Partial
QbeRefuses(j) == program[j] = "undefined" \/ buf[j] = Partial

\* emit_native leaves out what it does not know; so its text and what qbe makes
\* of the IL are written alike. Neither qbe nor build_native looks at the
\* fclose: a disk that fills up at the end leaves part of the text, unnoticed.
WriteAsm(j) ==
    /\ pc[j] = "asmwrite"
    /\ Backend[j] = "qbe" => QbeAccepts(j)
    /\ \/ /\ \E f \in Closed(disk["asm"], j, IF Backend[j] = "qbe" THEN buf[j] ELSE j) :
                disk' = [disk EXCEPT !["asm"] = f]
          /\ UNCHANGED fault
       \/ /\ \E f \in Closed(disk["asm"], j, Partial) :
                disk' = [disk EXCEPT !["asm"] = f]
          /\ Blame(j)
    /\ Goto(j, IF Backend[j] = "qbe" THEN "wait" ELSE "read")
    /\ UNCHANGED <<temps, buf, out, result, ran>>

\* The qbe child refuses the IL, or dies, with its output open.
QbeDies(j) ==
    /\ pc[j] = "asmwrite"
    /\ Backend[j] = "qbe"
    /\ disk' = [disk EXCEPT !["asm"] = Abandoned(@, j)]
    /\ Goto(j, "qbefailed")
    /\ \/ QbeRefuses(j) /\ UNCHANGED fault
       \/ Blame(j)
    /\ UNCHANGED <<temps, buf, out, result, ran>>

\* emit_native fails only on a write error it has seen (ferror).
NativeFails(j) ==
    /\ pc[j] = "asmwrite"
    /\ Backend[j] = "native"
    /\ disk' = [disk EXCEPT !["asm"] = Missing]
    /\ Breaks(j)
    /\ UNCHANGED <<temps, buf, out, ran>>

QbeFailedIgnored(j) ==  \* the child's exit status is not looked at
    /\ pc[j] = "qbefailed"
    /\ temps' = temps \ {<<j, "il">>}
    /\ Goto(j, "read")
    /\ UNCHANGED <<disk, buf, out, result, ran, fault>>

\* waitpid reports the failed child: the IL and the assembly are removed.
QbeFailed(j) ==
    /\ pc[j] = "qbefailed"
    /\ temps' = temps \ {<<j, "il">>}
    /\ disk' = [disk EXCEPT !["asm"] = Missing]
    /\ Return(j, "failed")
    /\ UNCHANGED <<buf, out, ran, fault>>

WaitQbeTidy(j) ==       \* the assembly goes with the IL
    /\ pc[j] = "wait"
    /\ temps' = temps \ {<<j, "il">>}
    /\ disk' = [disk EXCEPT !["asm"] = Missing]
    /\ Goto(j, "read")
    /\ UNCHANGED <<buf, out, result, ran, fault>>

\* waitpid for a child that succeeded. When waitpid itself fails, whatever
\* the child did, only the IL is removed.
WaitQbe(j) ==
    /\ temps' = temps \ {<<j, "il">>}
    /\ \/ /\ pc[j] = "wait"
          /\ Goto(j, "read")
          /\ UNCHANGED <<result, fault>>
       \/ /\ pc[j] \in {"wait", "qbefailed"}
          /\ WaitFails
          /\ Breaks(j)
    /\ UNCHANGED <<disk, buf, out, ran>>

-----------------------------------------------------------------------------
\* The integrated assembler reads the assembly file back and writes the
\* object file.

ReadAsm(j) ==
    /\ pc[j] = "read"
    /\ disk["asm"].data # Absent
    /\ buf' = [buf EXCEPT ![j] = disk["asm"].data]
    /\ Goto(j, "objopen")
    /\ UNCHANGED <<temps, disk, out, result, ran, fault>>

\* The file is gone, or reading it fails.
AsmUnreadable(j) ==
    /\ pc[j] = "read"
    /\ disk' = [disk EXCEPT !["asm"] = Missing]
    /\ \/ /\ disk["asm"].data = Absent
          /\ Return(j, "failed")
          /\ UNCHANGED fault
       \/ Breaks(j)
    /\ UNCHANGED <<temps, buf, out, ran>>

\* emit_native ends each function with retq and declares what it calls with
\* .extern. The assembler knows neither, so none of its texts assembles, whole;
\* part of a text may or may not.
NativeText(d) == d \in Job /\ Backend[d] = "native"

\* The text does not assemble, or the object cannot be written: both files
\* are removed.
DropBoth == disk' = [p \in Shared |-> Missing]

AsmRejected(j) ==
    /\ pc[j] = "objopen"
    /\ DropBoth
    /\ \/ /\ buf[j] = Partial \/ NativeText(buf[j])
          /\ Return(j, "failed")
          /\ UNCHANGED fault
       \/ Breaks(j)
    /\ UNCHANGED <<temps, buf, out, ran>>

OpenObj(j) ==
    /\ pc[j] = "objopen"
    /\ ~NativeText(buf[j])
    /\ disk' = [disk EXCEPT !["obj"] = Opened(@, j)]
    /\ Goto(j, "objwrite")
    /\ UNCHANGED <<temps, buf, out, result, ran, fault>>

WriteObj(j) ==
    /\ pc[j] = "objwrite"
    /\ \/ /\ \E f \in Closed(disk["obj"], j, buf[j]) :
                disk' = [disk EXCEPT !["obj"] = f]
          /\ Goto(j, "rmasm")
          /\ UNCHANGED <<result, fault>>
       \/ DropBoth /\ Breaks(j)
    /\ UNCHANGED <<temps, buf, out, ran>>

\* On Linux x86_64 build_qbe has its remove(asm_path) commented out.
RemoveAsm(j) ==
    /\ pc[j] = "rmasm"
    /\ IF KeepsAsm /\ Backend[j] = "qbe" THEN UNCHANGED disk
       ELSE disk' = [disk EXCEPT !["asm"] = Missing]
    /\ Goto(j, "link")
    /\ UNCHANGED <<temps, buf, out, result, ran, fault>>

-----------------------------------------------------------------------------
\* link_elf_objects: read the object back, link in memory, then write.

LinkObject(j) ==
    /\ pc[j] = "link"
    /\ disk["obj"].data # Absent
    /\ buf' = [buf EXCEPT ![j] = disk["obj"].data]
    /\ Goto(j, "write")
    /\ UNCHANGED <<temps, disk, out, result, ran, fault>>

LinkFailsEarly(j) ==    \* an early return past remove(obj_path)
    /\ pc[j] = "link"
    /\ Breaks(j)
    /\ UNCHANGED <<temps, disk, buf, out, ran>>

\* The object is gone, does not link, or (native) there is no runtime.
LinkFails(j) ==
    /\ pc[j] = "link"
    /\ \/ disk["obj"].data \in {Absent, Partial} /\ UNCHANGED fault
       \/ Blame(j)
    /\ result' = [result EXCEPT ![j] = "failed"]
    /\ Goto(j, "rmobj")
    /\ UNCHANGED <<temps, disk, buf, out, ran>>

WriteOutputLeaving(j) ==    \* remove(output) forgotten
    /\ pc[j] = "write"
    /\ \/ /\ out' = [out EXCEPT ![j] = buf[j]]
          /\ result' = [result EXCEPT ![j] = "ok"]
          /\ UNCHANGED fault
       \/ /\ out' = [out EXCEPT ![j] = Partial]
          /\ result' = [result EXCEPT ![j] = "failed"]
          /\ Blame(j)
    /\ Goto(j, "rmobj")
    /\ UNCHANGED <<temps, disk, buf, ran>>

WriteOutput(j) ==
    /\ pc[j] = "write"
    /\ \/ /\ out' = [out EXCEPT ![j] = buf[j]]
          /\ result' = [result EXCEPT ![j] = "ok"]
          /\ UNCHANGED fault
       \/ /\ out' = [out EXCEPT ![j] = Absent]
          /\ result' = [result EXCEPT ![j] = "failed"]
          /\ Blame(j)
    /\ Goto(j, "rmobj")
    /\ UNCHANGED <<temps, disk, buf, ran>>

RemoveObj(j) ==
    /\ pc[j] = "rmobj"
    /\ disk' = [disk EXCEPT !["obj"] = Missing]
    /\ Return(j, result[j])
    /\ UNCHANGED <<temps, buf, out, ran, fault>>

-----------------------------------------------------------------------------
Step(j) ==
    \/ MakeExe(j) \/ Spawn(j) \/ RemoveExe(j)
    \/ MakeC(j) \/ EmitC(j) \/ HostCompiler(j) \/ RemoveC(j)
    \/ FrontEnd(j) \/ BuildWasm(j) \/ MakeIL(j) \/ StartQbe(j)
    \/ OpenAsm(j) \/ WriteAsm(j) \/ QbeDies(j) \/ NativeFails(j)
    \/ QbeFailed(j) \/ WaitQbe(j) \/ ReadAsm(j) \/ AsmUnreadable(j)
    \/ AsmRejected(j) \/ OpenObj(j) \/ WriteObj(j) \/ RemoveAsm(j)
    \/ LinkObject(j) \/ LinkFails(j) \/ WriteOutput(j) \/ RemoveObj(j)

AllDone == \A j \in Job : pc[j] = "done"

Next ==
    \/ \E j \in Job : Step(j)
    \/ AllDone /\ UNCHANGED vars

Spec == Init /\ [][Next]_vars

-----------------------------------------------------------------------------
TypeOK ==
    /\ program \in [Job -> Program]
    /\ pc \in [Job -> Sharing \cup {"mkexe", "spawn", "rmexe", "ctemp", "cemit",
                     "cc", "rmc", "front", "wasm", "mkil", "il", "done"}]
    /\ temps \subseteq Job \X {"il", "c", "exe"}
    /\ disk \in [Shared -> File]
    /\ buf \in [Job -> Content]
    /\ out \in [Job -> Content]
    /\ result \in [Job -> {"none", "ok", "failed"}]
    /\ ran \in [Job -> Content]
    /\ fault \in [Job -> BOOLEAN]
    /\ met \subseteq Job

\* A qbe build leaves its assembly file behind where remove(asm_path) is
\* commented out, and where waitpid fails.
MayLeaveAsm ==
    (KeepsAsm \/ WaitFails) /\ \E j \in Job : Backend[j] = "qbe" /\ program[j] # "rejected"

\* docs/COMPILER_ARCHITECTURE.md:36: temporary files are removed on success
\* and failure. Once every job has ended nothing of theirs is left, whichever
\* of them failed, and however they truncated and unlinked each other's files;
\* that one assembly file excepted.
TempsRemoved ==
    AllDone => /\ temps = {} /\ disk["obj"].data = Absent
               /\ MayLeaveAsm \/ disk["asm"].data = Absent

\* A job that met no other on the shared paths (none of the C and wasm backends
\* ever does) has built, and run, nothing but its own program: not what another
\* build left behind, and half of it only where a full disk cut it short.
Own(j) == {j} \cup {d \in {Partial} : fault[j]}

OwnProgram ==
    \A j \in Job \ met :
        /\ out[j] \in Job => out[j] = j
        /\ result[j] = "ok" /\ Command[j] = "build" => out[j] \in Own(j)
        /\ ran[j] \in {Absent} \cup Own(j)

\* The sources a backend makes a program of: qbe misses no value that nothing
\* uses, and a native build ends with text the assembler does not take.
Builds(j) ==
    \/ program[j] = "valid" /\ Backend[j] # "native"
    \/ program[j] = "incomplete" /\ Backend[j] = "qbe"

\* docs/CLI.md:188, determinism: without a failure of the environment the
\* verdict depends on the source and the backend alone, unless the job met
\* another on the shared paths; no other build has a say in it, even one that
\* ended earlier and left its assembly behind.
Repeatable ==
    \A j \in Job \ met :
        pc[j] = "done" /\ ~fault[j] => (result[j] = "ok" <=> Builds(j))

\* src/main.c:205: a failed build leaves no partial binary, even one that met
\* others: it leaves the output it found, or none, or a whole program. (The
\* wasm backend writes in place and does leave one: BuildWasm.)
NoPartialOutput ==
    \A j \in Job :
        pc[j] = "done" /\ result[j] = "failed" /\ Backend[j] # "wasm"
            => out[j] # Partial

\* What stops a build: the front end in all backends, the emitter in the C and
\* wasm backends, and qbe in its own, if it has seen the whole IL. (The native
\* emitter only prints a message.)
Refused(j) ==
    \/ program[j] = "rejected"
    \/ program[j] # "valid" /\ Backend[j] \in {"c", "wasm"}
    \/ program[j] = "undefined" /\ Backend[j] = "qbe" /\ ~fault[j]

\* docs/COMPILER_ARCHITECTURE.md:34: invalid input never produces an
\* executable, not even another job's, however many builds share the paths.
RejectedBuildsNothing ==
    \A j \in Job :
        Refused(j) =>
            /\ result[j] # "ok"
            /\ out[j] \notin Job
            /\ ran[j] = Absent

=============================================================================
