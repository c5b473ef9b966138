# TLA+ verification of Tiq

Tiq is a small systems language. Its repository holds a compiler in C, a second
compiler and a set of tools written in Tiq itself, and the C runtime that is
pasted into every compiled program. This directory specifies the parts of it in
which order, concurrency and failure matter, checks them with TLC on small
instances, and proves the main results with TLAPS for every value of the
constants. Paths below are relative to the repository root.

- [1. The system](#1-the-system)
- [2. Modules](#2-modules)
- [3. Channels](#3-channels)
- [4. Module loaders](#4-module-loaders)
- [5. Build driver](#5-build-driver)
- [6. Package registry](#6-package-registry)
- [7. Ownership](#7-ownership)
- [8. Lowering, optimiser and backends](#8-lowering-optimiser-and-backends)
- [9. Assembler, objects and linker](#9-assembler-objects-and-linker)
- [10. Allocators and containers](#10-allocators-and-containers)
- [11. Where code and documents disagree](#11-where-code-and-documents-disagree)
- [12. What is not modelled](#12-what-is-not-modelled)
- [13. Plan](#13-plan)
- [14. Running it](#14-running-it)

## 1. The system

| part | state it keeps | operations | interacts with | what is hard |
|---|---|---|---|---|
| channels (`include/runtime_aux.h`, `std/sync.tiq`) | ring, two condition variables, a mutex, closed flag | new, send, recv, try_recv, close, len, cap, free | threads of a compiled program | interleavings, wakeups, close against sleepers, free against late users |
| module loader (`src/module.c`) | stack of open files, list of loaded modules with their buffers | program_load, program_free | lexer, parser, file system | cycles, depth limit, ownership when a load fails half-way |
| flattener (`src/tiq/module.tiq`) | seen and stack maps, one text buffer | mod_flatten | self-hosted lexer, file system | identity of a file under several spellings |
| build driver (`src/main.c`) | temporary files, children, exit status | build, run (four backends), other commands | qbe, host C compiler, assemblers, linkers, other invocations on the machine | early returns, leftovers, shared temporary names |
| registry (`src/tiq/tools/registry.tiq`) | version files and an index per package, on disk | list, read, publish, yank | publish, yank, install, search over TCP | kills between two writes, torn files, several servers on one directory |
| installer, lock file, cache, audit (`src/tiq/tools/*.tiq`) | `.tiq-deps`, `tiq.lock`, `/tmp/.tiq-cache` | install, cache, audit | registry, git, manifest | an installation that fails half-way, stale cache entries |
| proxy, router | none between connections | serve one connection | sockets | idle peers, partial reads, size limits |
| runtime allocators (`include/runtime_prelude.h`) | arena position, pool bitmap | general, arena_create, pool_create, alloc, dealloc, reset, destroy | malloc | boundaries, stray and repeated frees |
| runtime containers (`include/runtime_aux.h`) | headers, entry and bucket arrays, texts | map_new, map_set, vec_new, vec_push, vec_set, vec_pop, str_buf_new, str_buf_append, str_buf_to_str | allocators | growth while in use, memory that runs out half-way |
| runtime event loop, sockets, processes | one static array of ready descriptors | ev_add, ev_wait, ev_ready, net_*, proc_* | kernel | stale readiness, lost results |
| ownership (`semantic.c`, `emit_c.c`) | names with their move and mutability flags; owners of each scope | check a statement; write the frees of a scope, a jump, a reassignment, a return | checker decides, emitter trusts it | a free too many, too early, or on one path only |
| lowering (`ir_lower.c`, `ir.c`) | current function and block, name table, loop and stream stacks | one operator for each construct | checked tree in, IR out | phis at joins, blocks filled out of order |
| optimiser (`opt/*.c`) | position in the module, change flag, round | fold, eliminate, simplify, in rounds | rewrites the IR in place | one pass relies on another, traps, termination |
| emitters (`emit_c.c`, `emit_wasm.c`, `emit_qbe.c`, `emit_*.c`) | text | one pass each | IR or tree in | same program, same behaviour on every backend |
| assembler (`asm_amd64.c`; `asm_arm64.c`, `asm_rv64.c`) | current section, bytes, symbols, fixups, relocations | one line after the other, then the fixups | native and qbe text in, object out | encodings, labels used before they are defined |
| objects and linkers (`elf_obj.c`, `elf_read.c`, `elf_link.c`; Mach-O, PE) | section, symbol and relocation tables, layout | write, read, link | runtime object of the host compiler | renumbered indices, layout computed twice |
| lexer, parser, types, checker | tree, scopes | one pass each | diagnostics, arena | recovery, precedence |
| compiler arena, diagnostics (`arena.c`, `diag.c`) | newest block, fatal flag | alloc, realloc, reset; report | all passes | growth in place |

What makes each of the modelled parts correct:

- *Channels*: the ring is first-in first-out, no wakeup is lost, close releases
  everybody, and each call takes effect at one instant.
- *Loaders*: each file once, after what it imports, in the documented order;
  refused only for a reason that is there; nothing leaks and nothing is
  released twice.
- *Build driver*: a build yields its own program or none, leaves nothing behind,
  never leaves half a binary, and never builds a rejected program, whatever
  fails and whatever else is building.
- *Registry*: one acknowledged publisher for a version, index and files agree,
  the installer gets the highest admissible version, every tool ends.
- *Ownership*: each owned string is freed once, after its last read, on every path.
- *Lowering and optimiser*: the IR is well formed, no rewrite drops an effect or
  strands a use, the rounds end, and every backend does what the C backend does.
- *Allocators and containers*: no two blocks share a byte, nothing in use is given
  back, nothing given out is forgotten, and the map stays a map, the vec a sequence.
- *Toolchain*: bytes mean what the line says, the object keeps symbols and
  relocations, every reference arrives where it points, no two parts overlap.

The hazards behind these properties are listed in `PROJECT.json`, each at its
line, with the property that would catch it going wrong or the reason why none
does yet.

## 2. Modules

| module | models or holds |
|---|---|
| `FifoChannel` | abstract: an atomic bounded queue |
| `Channel`, `MCChannel` | the runtime's channel, step by step; its instances |
| `ChannelProofs` | proofs about `Channel` |
| `SourceTree` | files, paths, imports, and what may be wrong with them |
| `LoadOrder` | abstract: what a module loader promises |
| `ModuleLoader`, `MCModuleLoader` | `load_module`; its instances |
| `ModuleLoaderProofs` | proofs about `ModuleLoader` |
| `FlattenLoader`, `MCFlattenLoader` | the self-hosted flattener; its instances |
| `FlattenLoaderProofs` | proofs about `FlattenLoader` |
| `BuildDriver`, `MCBuildDriver` | concurrent `tiq build` and `tiq run`; its instances |
| `BuildDriverProofs` | proofs about `BuildDriver` |
| `Semver` | version numbers and constraints |
| `Registry`, `MCRegistry` | servers, connections and client tools; its instances |
| `RegistryProofs` | proofs about `Semver` and `Registry` |
| `Cleanup` | which bindings own, and every free the C emitter writes |
| `Ownership`, `MCOwnership` | a program written, checked, emitted and run against a heap; its instances |
| `IR`, `Lowering` | the representation and its builders; `ir_lower.c` |
| `Optimizer`, `OptimizerProofs` | the pipeline, one action for each rewrite; proofs about it and `Lockstep` |
| `Words`, `Meaning`, `Machine` | machine words; what the emitted C does; what wasm and QBE do with the IR |
| `Passes`, `MCPasses` | write, compile, optimise, run in both forms; its instances |
| `Lockstep` | an optimised function run beside the one it was made from |
| `Amd64`, `Amd64Cpu` | the instruction encoder; how a processor reads its bytes |
| `Assembler` | the assembler's pass over a text |
| `Layout` | the two layouts of an executable |
| `ElfObject`, `ElfLink` | object writer and reader; linker |
| `Toolchain`, `MCToolchain` | assemble, write, read, link; its instances |
| `ToolchainProofs` | proofs about `Layout`, `Assembler` and `Toolchain` |
| `Collections` | abstract: a map with the order of its keys, a sequence, a text |
| `Allocator` | malloc, and the general, arena and pool allocators over it |
| `Containers`, `MCContainers` | map, vec and string builder over the allocators; their instances |
| `ContainersProofs` | proofs about `Allocator` and `Containers` |

`Channel` implements `FifoChannel`, both loaders implement `LoadOrder`, and
`Containers` implements `Collections`, each by an `INSTANCE` with a refinement
mapping; `Registry` is built on `Semver` and `Containers` on `Allocator`. `Lockstep` runs what `Optimizer` makes,
`Passes` composes `Lowering`, `Lockstep`, `Machine` and `Meaning`, and `Toolchain` composes `Assembler`, `ElfObject` and `ElfLink`.

Definitions named as mutations (a comment says so, or the name: `EnqueueIntoFull`,
`WriteOutputLeaving`, ...) are not part of any specification: each is an action as a
plausible slip would have it, and the property named in `PROJECT.json` fails when it
takes the action's place.

### Runs

| run | distinct states | shows |
|---|---|---|
| `channel` | 583,342 | three threads, rings of one slot and of two: safety and refinement |
| `channel_live` | 178,266 | blocked calls are released and served |
| `loader` | 354,556 | every import graph of three files, deep ones of four |
| `flatten` | 265,319 | the same promise kept by the flattener under its conditions |
| `builds` | 2,351,925 | two or three builds at once, of one backend or of several, any source, anything failing |
| `registry` | 242,048 | one server, four casts of three clients, one fault or two: safety, and every connected tool ends |
| `ownership` | 2,731,471 | no free twice, too early or missing in any small program |
| `ownership_alias` | violation | an outer name may alias an inner owner and outlive it |
| `lowering` | 199,302 | small programs lowered and optimised: well formed, and every backend agrees; small functions run in both forms: the same run |
| `lowering_carried` | violation | an accumulating loop prints different sums through C and through the IR |
| `toolchain` | 227,001 | instruction forms and small texts, assembled, written, read and linked |
| `containers` | 444,637 | map, vec and string builder over every allocator, with and without room |

Deadlock checking is off only where the system really stops: the loaders, which
return, the registry, whose tools end and whose server may stay down, the
passes and the toolchain, which come to their end, and the
containers, whose program ends when memory runs out. The
build driver has an explicit final stutter instead, and the channel's threads
can always call again.

## 3. Channels

`Channel` follows `tiq_chan_*` in `include/runtime_aux.h` statement by statement
where another thread can come in between: asking for the mutex, the test under
it, the wait (which releases the mutex and joins a wait set in one step), the
reacquisition, the effect on the ring, each signal or broadcast, and the unlock.
`mtx` is the mutex, `notEmpty` and `notFull` the wait sets of the two condition
variables, `pc`, `op`, `arg` and `ret` the call each thread is in. `Wake` and
`SpuriousWakeup` are the semantics of POSIX condition variables: a signal wakes
some sleeper if there is one, and a sleeper may wake for no reason. `sent` and
`rcvd` are history. The slots of a fresh ring hold `Garbage`, which is outside
`Int`: reading one would show in `ret` and in `rcvd`.

`chan_free` takes no lock. As the documentation demands, it is called here only
when no call is under way; the race of a late call with the release is left out,
because the code leaves it to the caller.

Properties: `Fifo` relates the history to the live part of the ring;
`NoLostWakeup` counts, while somebody sleeps, the values (free slots) against
the threads that are awake for them or about to signal; `NoSleeperPastClose`;
`Linearizable`, the refinement of `FifoChannel`, whose `queue` is the ring read
from `head` and whose `status` forgets the program counters.

*Bounds.* Three threads are the fewest that show a barging sender take the slot
of a woken one, two sleepers on one condition variable, and a close against
both. Requests for 0 and 2 slots give rings of one slot (head and tail
indistinguishable) and of two, which wraps within `MaxSends` = 3. Payload 0
looks like the result of a closed channel. The threads are symmetric. The
liveness run has one slot, one payload, two sends and no symmetry reduction.

*Fairness.* Weak fairness on the steps of a thread that is inside a call and not
blocked: threads run. Strong fairness on `Lock`: a thread that asks again and
again for a mutex that is again and again free gets it. POSIX does not promise
that, but without it nothing can be said of any program with a mutex. There is
none on calls or on spurious wakeups.

*Proofs.* `IInv` joins the type invariant with mutual exclusion (`MutexOK`: a
thread is in a critical section exactly when it owns the mutex), the equality of
the wait sets with the sleepers (`SleepOK`), what can be pending while no
channel is live (`LiveOK`) and `tail = (head + count) % cap` (`RingOK`).
`Fifo` is not inductive without `RingOK`: an enqueue writes at `tail`, and only
`RingOK` says that this is the slot behind the last value. `NoWakeupLost` is a
counting argument with the cardinalities of the helper sets; it needs `SleepOK`
to know that a signal with a non-empty wait set wakes somebody new.
`Refinement` maps each step to one step of `FifoChannel` or to none. The
theorems hold for any finite set of threads, any payloads, any capacities and
any `MaxSends`. Liveness is model-checked only.

## 4. Module loaders

A path is a spelling, `FileOf` what the file system resolves it to, and an
import operand has two candidates: beside the importer and, failing that, from
the working directory. The contents of the files (`text`) and their conditions
(`kind`: fine, unreadable, not parsing, and a lexable file whose last import
operand is not a string) are chosen initially and never change. `LoadOrder`
states the promise of `docs/LANGUAGE_SPEC.md` section 17.6: files come out one by
one, each once, after everything it imports; the load is accepted when the root
is out, and refused only with a diagnostic that the tree deserves (`Missing`,
`Cyclic` or `TooDeep`, `Broken`), all defined from the tree alone, except that a
chain is too long only as far as its files are not out yet (`TooDeep(text, done)`): a
deep file that a shorter way has brought out already must not be refused.

`ModuleLoader` makes the recursion of `load_module` an explicit stack, one frame
for each activation: file and next import. Its actions are the outcomes of one
call (`NotFound`, `Circular`, `Skip`, `NestedTooDeep`, `Unreadable`,
`ParseError`, `Descend`), `Finish` at the end of the imports, `Unwind` for each
activation that hands a failure up, and `Free` for `program_free`. `owned`
remembers which source buffers and parser arenas are allocated. `lost` remembers the
paths nobody releases: an operand that only the working directory resolves gets a second
path, `alt_path`, which the returns of `src/module.c:158`, `166` and `174` (a cycle, a
file already loaded, the depth) leave allocated (`Leave`). The order of the
guards is the code's: a cycle is found before a repeated file is skipped, and
both before the depth is looked at.

`FlattenLoader` is the second implementation in Tiq. It tells files apart by
normalised spelling, has no depth limit, and reads an unreadable file as empty.

Properties: `KeepsPromise` (the refinement), `FirstVisitOrder` (the order equals
the depth-first order computed from the imports), `OneOwner` (each buffer belongs
to one activation or to one entry of `Program.mods`, also while a failure goes
up), `Answers` (the load ends and, in C, has then released every source and parser; of
the paths it leaves none but second ones, `LeftBehind`, and of those that name one file a
successful load has released no more than the one that loaded it, and not fewer unless
another spelling or the root did). The code does not release everything, so `Answers` does
not say so; section 11 lists the leak. The mutant of `KeepsPromise` tests the depth
before it looks for the file among those loaded.

*Bounds.* All graphs of three files with up to two operands each, out of five
(each file, none, and one that only the working directory resolves), with at
most one bad file: they contain self-imports, cycles of two and three, repeated
imports and diamonds. Four sound files against a depth limit of three contain
chains that are too long, and files that are both too deep one way and loaded
another way. The flattener runs on the first family with one spelling for each
file and no unreadable file, which are the conditions under which it keeps the
promise.

*Fairness.* Weak fairness of `Next`: the loader is sequential code that runs until
it returns.

*Proofs.* `Inv` joins the type invariant, `OneOwner`, `Descending` (the frames form
an import chain from the root, each file of it sound and reachable, and every
import passed is done), `Ordered` (what is completed is reachable, fine, and
after its imports) and `RootIn` (an accepted load has completed the root). That
every refusal is deserved follows from `Descending`: an import that leads back
into the stack closes a cycle of reachable files, and a full stack is itself
the chain that is too long. `AcceptedWhole` adds that what is out is closed under
imports and therefore all that is reachable. All are proved for any finite set
of files, any resolution and any depth limit. `FirstVisitOrder` speaks of a
recursive function over the tree and is model-checked only.

For the flattener, `FlattenLoaderProofs` proves the types for any spellings, and the
refinement of `LoadOrder` from two assumptions: `OneSpelling` (no two paths name
one file) and `Readable` (a file that exists can be read). Both are needed, and
section 11 says what happens without them. Where the C loader tells what is done by
its list of modules, the flattener has a set of spellings: `Books` says that the
paths open and the paths seen are disjoint, that no path is open twice, and that
the files in the output are those of the paths seen. `Descending` is the chain of
the C loader, without a depth limit.

*Limits.* The disk does not change during a load; all spellings of a file lie in
one directory; a file that cannot be opened is one that exists and is
unreadable; the flattener's syntax errors past the imports belong to the parser
that runs after it.

## 5. Build driver

`BuildDriver` models any number of `tiq build` and `tiq run` invocations on one
machine. The IL, the generated C and the executable of `run` come from `mkstemp`
and belong to one job (`temps`). The assembly and object files of the qbe and native
backends do not: `temporary_qbe_template` returns a name that nobody makes
unique, so all jobs share two files (`disk`). Such a file has content, the set of
jobs with it open for writing, and whether two of them had it open at once. Opening
truncates it under any other writer; where two wrote, the bytes may be a mixture
(`Partial`); an unlinked file keeps nothing of what is written later.

A job steps through `build_target`, `build_qbe`, `build_native` or `build_wasm`
with every early return and what that return removes. `Breaks` is a failure of
the environment (full disk, no process, missing tool, killed child); `fault`
remembers that one happened to the job. Some failures the driver does not see:
nobody looks at the `fclose` of the IL and of the assembly (`src/main.c:375`, `725`),
nor does qbe at its own, so a disk that fills up at the last flush leaves half of the text and
the build goes on (`StartQbe`, `WriteAsm`). `met` is history: the jobs whose use of
the two shared paths overlapped another's.

What becomes of a source depends on the emitter (`Program`). The front end refuses a
rejected one for every backend. An operation that an emitter does not know stops the C and
the wasm backend. `emit_qbe` writes a comment in its place and succeeds
(`src/emit_qbe.c:499`, `523`): qbe then refuses the IL if the value is used (`undefined`) and
takes it if not (`incomplete`). `emit_native` prints a message, leaves the operation out, and succeeds
too (`src/emit_native.c:610`, `731`); its only failure is a write error that it has seen
(`NativeFails`). But its functions end in `retq` and it declares what they call with `.extern`, and the assembler
knows neither (`src/asm_amd64.c:1258`, `1402`, `1527`), so no native text assembles
(`NativeText`, `AsmRejected`); a native job gets an object only where it finds another job's text, or
half a text, in the shared file.

Properties: `OwnProgram` (what is built or run is the job's own program, or half of it
if a full disk cut it short: `Own`) and `Repeatable` (without a fault a build succeeds if and
only if its backend makes a program of the source: `Builds`) hold for jobs outside `met`,
that is for all C and wasm builds and for the others when no build overlaps theirs, even if
an earlier one left its assembly behind. For jobs that did meet, both are refuted at once (section 11),
and what is left is said by properties that hold for all: `NoPartialOutput`;
`RejectedBuildsNothing`, that a source which is refused, by whatever stops that backend (`Refused`),
yields no program, not even another's; and `TempsRemoved`, for every file but
the assembly file where `MayLeaveAsm` says that the code leaves it: a qbe build on a host that
keeps it, or a parent whose `waitpid` fails.

*Bounds.* Two jobs on the shared paths show every race of two; a job on a
backend without shared files shows that it is not affected. The run has five casts: two qbe
jobs, two native jobs, one of each, a qbe job with a C job, and a native, a qbe and a wasm
job. They run on a host that keeps the assembly file (`KeepsAsm`) under a parent that ignores
`SIGCHLD` (`WaitFails`), so that a later build can meet what an earlier one left, and each has
any of the four kinds of source. The jobs outside the cast have ended before it begins.

*Proofs.* `Cleanup` needs an account of who owes which removal: `TempsOwed` and
`DiskOwed` say, for each program counter, which files its job has yet to remove,
and that a shared file exists only while some job owes its removal or one may have
left it. The theorem holds for any number of jobs on any host. `Rejected` and
`NoPartial` rest on `Lane` (which program counters belong to which backend and
command, and that a refused source gets no further than what refuses it: the front end,
the emitter of C and wasm, or qbe) and `OutputInv` (half a binary is at an output only while
`run` has yet to remove its own file, or where half a text or another job's half-written object
was linked in a build that reports success). `OwnProgramAlways` and `RepeatableAlways` rest on
`Apart` (a job outside `met` is alone on the shared paths), `Holds` (what the two files then
contain) and `Succeeds` (how far a job without a fault can have come, by what its source is).
None of the four assumes that the emitters or the flushes work.

*Limits.* Each open, write and read of a file is one step; the integrated assembler
and linker are steps that may fail (section 9 opens them); half a text may be taken or refused by
what reads it; every job has its own output path; the
temporary directory is empty at the start; compiled programs exit 0; signals to
the driver, `EINTR`, `TIQ_QBE_LINK` and external assemblers are left out.

## 6. Package registry

`Registry` models servers (`registry.tiq`) and the tools that talk to them over
one-shot connections (`publish.tiq`, `yank.tiq`, and the two requests of
`install.tiq`). A server is `accept`, one `net_recv`, the handler, one `net_send`,
`net_close`. The handlers of publish and yank are split at every access to the disk: look for
the version's file, truncate it, write it, read the index, truncate it, write it; or
remove the file and go on with the index. A server may be killed between any two
steps, a write may fail (nobody looks at the result), and the user may interrupt
a tool or run it again. An empty request, as a deserted connection gives it,
ends the server's loop and with it the process (`HangUp`); connections in its
backlog are reset.

`acks`, `stable`, `disturbed` and `lost` are history: who was told 201 for a version
since its last removal, which versions stood acknowledged all through an
installer's run, which versions a fault struck half-way, and whose own file
could not be written.

`Semver` has `mf_semver`, which folds a version into `major * 1000000 + minor *
1000 + patch`, and the constraints decided on that number, beside what
`major.minor.patch` means (`Precedes`, `Meets`).

Properties: `Acknowledged`, `Agree`, `Highest` and, under fairness, `Ended`.
They name exactly what faults can cost: `Agree` excepts the versions struck
half-way, `Acknowledged` those whose own file was not written.

*Bounds.* Versions 1.9.0 and 1.10.0 sort the other way round as text. Two
publishers, of which one may try twice (a retry after a lost answer), a yanker of
the same version and an installer are the least that lets a version be published,
yanked and published again around an installer's two requests; the run takes them
three at a time, in the four casts of `MCRegistry`. One connection
waits at a server (`listen(fd, 1)`). One fault anywhere, and two in the cast whose
publisher has tried before; the same properties were found to hold once with all
four tools and one fault (1.2 million states) and with two (9.5 million), which is too
slow to keep, and the theorems below hold for any number of either.

*Fairness.* A server that is up runs, and a tool that was started runs. Nobody has
to start a tool or to start a server again; kills are never relied upon.

*Proofs.* For one server and any clients, commands, retries and faults. `Ledger`
carries `Acknowledged`: besides it, connections in flight are those of the
clients that dialled them and of no other (`AllFresh`), a server in the middle of a request
handles what its phase says (`Fits`), and a server past the existence check still
finds what the check found (`Kept`), which is where one server is needed.
`Catalogue` carries `Agree`: between a version's file and the index there is exactly
one version, the one in hand, on which they may differ (`Halfway`, `Coming`).
`Survey` carries `Highest`: what stood acknowledged throughout is in the index the
server answers with, and therefore in the list the installer picks from
(`Informed`, `Sure`). `Highest` further assumes `SmallNumbers`, that minor and patch
numbers are below 1000, and cites `OrderKept` and `ConstraintKept`
about `Semver`; without that assumption 1.1000.0 and 2.0.0 have one number. `Ended`
is model-checked only.

*Limits.* One package (packages share nothing). An index is a set: its order, its
repetitions and the difference between an empty and a missing file are abstracted, and
of versions with equal numbers any may be picked. A file cut short has no usable
source. The two looks of `handle_get_ver` at one file are one step. A request and
an answer each fit one `net_recv`. Answers 400 and 422 do not occur, as the tools
check what they send. Failing `mkdir` and `rm -f`, the list of all packages and
`search` are left out. A write to a server that is gone ends the tool, by a
signal or by an error; both are `unreachable`. A client that connects and then
does nothing for ever would hold the server: the fairness of `Run` excludes it, and
the hazard is listed.

## 7. Ownership

The C backend destroys an owned string where its owner's scope ends. Who is an owner
is decided from the text alone, and so is every place where a `free` is written.
`Cleanup` is that decision: `OwnerAt` says which bindings of a block own (an immutable
one that begins with a fresh string; a mutable one whose uses also leave no alias,
`MutOwnerQualifies`), and `EmitStmt` and the operators around it turn a tree of statements into flat code with
relative branches, in which `free` is an instruction like another: at the end of a
scope, at `break`, `skip` and `proc_exit`, at the reassignment of a mutable owner,
after a statement's hoisted temporaries, and between a function's result and its
return. `Ownership` writes a program item by item as a user may, checks it with the
rules of `semantic.c` that matter here (names in scope, immutability, moves,
`break` outside a loop), emits it, and runs the code against a heap whose blocks are
never used again, so that a stale pointer is recognised for what it is. A condition
goes either way, and a user function returns its argument or not.

A unit is a program, a function that returns a `str`, or one that returns an `int`;
around a function stands a caller that owns the argument and, when the compiler takes
the result for fresh, destroys the result.

Properties: `NoInvalidFree` (nothing is freed twice, and nothing that was never
allocated), `ReadsValid` (no read after the free), `OwnersDestroyed` (on every path all
owners are destroyed, as far as the documents promise it: `Promised` excepts scopes
deeper than the emitter tracks and functions whose result is neither transferred nor
free of aliases).

*Bounds.* Four statements in a program and three in a function, two names (symmetric),
and nested expressions. The limits of the emitter are lowered so that programs of this
size pass them: `MaxHoist` = 1 for `TIQ_MAX_HOIST`, `MaxScopeDepth` = 3 for
`TIQ_MAX_SCOPE_DEPTH`; each program is also emitted with a limit of one scope less than it nests, where that makes a
difference (`Depths`), so that owners in untracked scopes, and breaks and returns out of
them, are there although the programs are small. `MaxAlloc` = 2 blocks, after which loops end, gives a loop
body two turns. `EscapingAliases` = FALSE leaves out programs that assign an alias
to a name of an outer scope; `ownership_alias` lets them in, and fails.

*Limits.* Strings only, as they are what the emitter destroys; borrows, arrays, match
arms and views as sources of aliases are left out. What follows `break`, `skip` or
`exit` in its construct is dead and not written.

## 8. Lowering, optimiser and backends

A program is a sequence of statements; each is a record whose `k` is its AST kind.
`Lowering` is `ir_lower.c`: a context (the module, current function and block, name
table, loops, streams) is threaded through one operator for each construct, over the
builders of `IR`. As in the code, a function is one flat sequence of instructions and
a block a range of it, so an instruction put into a block that is no longer the last one
lands in another block's range; `WellFormed` is about that.

`Optimizer` is the pipeline of `src/opt/`: in every round, over every function,
constant folding, dead code elimination, algebraic simplification. One action is one
rewrite at the next instruction that the pass changes (`Rewrite`), the end of a pass,
one elimination, or the death of the compiler while it folds a quotient (`Trap`:
INT_MIN / -1 on x86-64). Arithmetic is the constant `Apply`.

`Meaning` is what the C text written by `emit_c.c` does: the reference. `Machine` is what
a module does: as wasm, where registers are locals that begin at 0 and the phis of a
block are assigned one after another on the way in, and as QBE, where phis are read
together, an undefined register is refused, and aggregates have no translation.
`Passes` composes them: the programmer writes statement after statement, and at any
time the compiler runs on what is there. `Lockstep` takes a function that the pipeline has
finished and runs it with some arguments together with the function as it was given, one
instruction at a time, in the way of `emit_qbe.c`: registers are defined before they are
read, the phis of a block are read together, a call or an access to memory may be
answered with any word (`Answers`), the same for both as long as both ask the same.

Properties: `WellFormed` (each register has one definition, each block ends in its only
branch, phis match predecessors, every use is supplied: before, during and after the
optimiser), `FormKept` (the same, for any function that comes well formed, wherever it comes
from), `SameRun` (at every moment both runs are at the same place and have just printed, called,
returned or built the same, with the same values, until the given function divides by zero
or reads what was not defined), `MovesOn` (every step advances round,
function, pass and instruction: the pipeline ends although a removed
instruction counts as a change in every round), `BackendsAgree` (wasm prints and
ends as C does at every level, and QBE does so or refuses; where C is undefined,
only what was printed before is compared: a quotient by zero, a sum, difference, product or negation that
overflows, a shift by a negative amount or by the width or more, or to the left of a negative value or past
the sign, as the emitted text has signed operators (`src/emit_c.c:733`) and is compiled without `-fwrapv`
(`src/main.c:80`; all this is `UndefinedInC`). A print used as a value is `printf`'s count of bytes.

*Bounds.* Words of four bits (`Width`), on which overflow, the least value and all shifts
are near; three statements at top level, each of which may hold a function, a loop
with a conditional `skip` or `break`, a match or a generator; levels 0 and 1; three rounds
instead of ten, a limit that is reached whenever something was removed; `Fuel` = 60 blocks
and calls for one run of a program, which no offered program uses up, as
`BackendsAgree` would fail if one did. `MCPasses` offers what the backends have in common; `Features`
adds the loop-carried assignment that `lowering_carried` refutes, and the
constructs that were found to diverge one by one are in section 11. It also has
1,728 functions of one parameter: forks, joins and loops, with each combination of a
few constants, comparisons and operations that every rule of the three passes applies
to, quotients that trap among them. They are given and answered three words (`Answers`:
0, 1 and the least), and their loops turn until the machine repeats a state. Programs are
not run in lockstep as well: `BackendsAgree` runs them.

*Proofs.* `OptimizerProofs` speaks of `Optimizer!Spec`, whose `Inputs` are any modules of the
type `Module` and whose `Apply` is any arithmetic with the laws of
`ApplyAssumption`; TLC evaluates that assumption for the words of `Words`. In the run `lowering`
the modules come from `Lowering` or are the small functions of `MCPasses`. The first argument is one relation:
a rewritten instruction `Becomes` one of five (two constants, a copy of an operand,
two branches), whatever pass wrote it. `Typing`, `EffectsStay` (calls, prints,
returns and branches stay where they are) and `UsesStay` (a use that had a definition
keeps it) follow from it and from the elimination's count of uses; `UsesStay` needs `EffectsKept`,
because phis and branch operands are uses too. `Progress` needs the types only.

That the rewritten function does the same needs to know why each rewrite was right, when
the instructions that justified it may be rewritten themselves or gone. The inductive
invariant `Simulated` says it with what is known, a function `K` from registers to words:
every register in `K` is defined in the *given* function by a constant, or by an instruction
that comes to its word whenever the operands agree with `K` (`Justified`); every instruction
is the given one, or removed and read by nobody, or a constant whose register `K` knows,
or a copy of an operand to which the given one always comes, or a branch to the target
that the known condition takes (`Mirror`, `Explained`). A rewrite adds at most one
register to `K`; the constants of the given function are the first. `Simulation` proves it
for every function that defines its registers once, and two theorems rest on it.
`FormStaysKept`: the form of a function survives (a branch into a block with
phis cannot settle, because no constant ever has a register that it may test).
`RunsAgree`: `LockSpec => []SameRun`, with the invariant that the two runs are side by side
(`InStep`): same place, same value in every register that the optimised
function still reads, and every value as `K` knows it. The functions, the words, the
arithmetic, the trapping quotients and the answers of the environment are arbitrary; no
bound on the length of a run is assumed. Both invariants were checked with TLC first.
`BackendsAgree` remains model-checked, because `Machine` and `Meaning` run programs recursively.

*Limits.* Integers, booleans and aggregates of them. The operands of an operator or a call, which C may
take in any order, are taken left to right. Floats, the contents of strings,
`while`, block-level `defer`, threads and the native emitter's register use are left out. In
`Lockstep` one `Apply` stands for the compiler's arithmetic and the program's: that both wrap
alike is `BackendsAgree`'s; and its runs are QBE's, not wasm's, whose registers begin at 0
and whose phis are assigned one after another.

## 9. Assembler, objects and linker

`Assembler` is the pass of `asm_amd64.c` over a text, one line after the other: sections,
symbols, labels, relocations, and the branches that wait for a label until
`ResolveFixups`. `Amd64` is its encoder, from an instruction to a sequence of pieces
(opcode byte, REX, ModR/M, SIB, number, symbol, branch); `Amd64Cpu` goes the other way as
the architecture defines it. `ElfObject` is the writer `elf_obj.c` and the reader
`elf_read.c`; a file is a map from positions to what was written there, so a header
that points to the wrong place reads something else. `ElfLink` and `Layout` are
`elf_link.c`. `Toolchain` composes them with the object of the C runtime.

Properties: `Decodes` (the bytes mean the line, except exactly in the families of
`Misencoded`), `RoundTrip` (the linker reads the symbols, sections and relocations that the
assembler had), `Reached` (every reference of program and runtime arrives at the
definition it names, or at the linkage table entry whose slot the dynamic linker
fills with that import, except exactly the references of `Astray`). Both exceptions are
equivalences: a family that were fixed, or a new one, would violate the property.

*Bounds.* Some 2,700 instruction forms: every mnemonic, with registers of which each number
class is present (RAX; RSP and RBP, which need SIB or a displacement; R12 and R13, which
need REX as well), immediates of one and four bytes and negative ones, every form of address.
Some 80,000 texts: a datum in .data, .bss or .rodata, any of the other sections present
or absent, `user_main`, and up to three free lines out of calls to the program,
the runtime and the C library, jumps over a label that comes later, addresses with and
without offset, alignment, and changes of section. A label is defined once and
instructions stand in .text, as in every text the compiler writes.

*Proofs.* `link_elf_exec` lays the file out twice: it computes addresses from sizes, and
later writes the parts with paddings of their own. `AddressesHold` shows, for all sizes
and any number of imports, that both agree and that the data segment starts at the
same place of a page in the file and in memory; `PartsApart` that no part reaches into the
next. Both rest on three lemmas on `Align`. The mutant of the padding shows in the
run, where `Reached` fails.

`TypeCorrect` (`TypeOK`) says that the assembler keeps its books, for any beginnings, any
lines that may follow and texts of any length: fields, relocations and waiting branches lie
within the bytes emitted, a relocation names a symbol of the table, a defined symbol has
a place within its section. `TypeOK` alone is not inductive, since it says nothing of
labels, which `Branch` and `ResolveFixup` subtract from, nor of the types that make
`Size` and `SymFind` meaningful. The invariant is `Kept`: the unit is an `AsmUnit`, and each of
the four books is within bounds. The argument has three layers.

1. Each encoder, whatever its operands, gives pieces of known widths: one byte, or 1, 2, 4
   or 8 for a number, and 4 for a symbol or a branch (`Code`). So the field of a piece
   that names a symbol starts four bytes or more before the end of what is put. This
   is a case for each of the encoders, memory operands and instructions without operands
   included.
2. `callq sym(%rip)` adds a second relocation two bytes after its opcode. Since at least
   an opcode and ModR/M precede the displacement, it begins three bytes or more before
   the end of the instruction: its fourth byte may lie beyond, which `TypeOK` says too.
3. A section only grows and symbols are only appended, so that what was within stays
   within. Resolution changes no length; it is a function on how many waiting branches are
   done, and every value of it is `Kept` by induction on that number.

The assumption (`ToolchainAssumption`) is that texts consist of the lines and instructions
the model describes. That a waiting branch always belongs to .text is not assumed of the
assembler, which hard-codes it (`fixup_add`), but of texts (`Written1`). `Size` counts
the set of its bytes and `Patch` is written as a function, in place of a
fold and of `:>` and `@@`: they are equal, and the prover has definitions of these only.

*Limits.* The spelling of operands, strings in `.ascii`, immediates beyond 32 bits (TLC's
integers), `.quad` in .text, relocations of .data (written, never applied by the linker:
section 11), aarch64 and riscv64, Mach-O and PE.

## 10. Allocators and containers

`Allocator` is the handle interface of `include/runtime_prelude.h` over a malloc that
gives out the lowest address it can, so that an address given back too early is soon
somebody else's. A store has the heap's blocks, the allocator behind the handle (its kind,
buffer, position or used blocks), and `mem`, what was written at which address. The sums
of `tiq_allocator_alloc` wrap at `SizeMax`. `Containers` runs the operations of
`include/runtime_aux.h` on such a store: each follows the addresses in the headers, as the
code does, and takes, fills, links in and gives back in the code's order. An allocation
that fails ends the process (`Exit`); what would follow it does not happen. Over the
process heap (handle 0) nothing outgrown is given back, and over an allocator it is. A
string that a vec overwrites or pops is left where it is; `dropped` is the history of these.

Beside the containers the program takes blocks from its allocator, gives them back,
frees addresses that are no block's (`StrayFree`, for the pool, which answers -1),
resets the allocator and destroys it; what lived in it is not used afterwards.

Properties: `NeverDangles` (what the program can reach lies in memory that is allocated to
it, no two blocks share a byte, and each is aligned), `Accounted` (what malloc and the pool
have given out is reachable or in `dropped`: what is outgrown goes back), `TypeOK` (headers
and arrays agree; a map keeps its load factor, and each key's probe arrives at its entry before a
free bucket), `Implements` (the refinement of `Collections`, read through `tiq_map_get`
and the addresses).

*Bounds.* First sizes of one entry, two buckets and four characters instead of 8, 8 and 16: each
container grows at least twice within four keys, three elements and three pieces. The keys'
hashes collide, wrap around the end of the table, and part or meet when it grows. `SizeMax` =
1023 is near enough for the arena's rounding to wrap. Two limits of malloc, an arena
and three pools stand for memory that suffices, that runs out in each growth, and blocks
that are too small. One program uses the map, one a vec of ints with blocks of its own, one
a vec of strings, one the builder; the theorems hold for any of them together.

*Proofs.* `ContainersProofs` proves all four properties, for any keys, values and
hashes, any first sizes, requests and limits of malloc. The assumptions are those of the two modules:
the first number of buckets is a power of two, and `MaxAlign` is 8 or 16. The bounds of the run
(`MaxKeys` and the like) are under no assumption.

None of the four is inductive alone. That blocks are disjoint does not say that a `free` takes
only one of them away: for that each block must have a malloc block, or a block of
the pool, to itself. That headers are well formed does not say that they stay so when another
container writes: for that the blocks must be disjoint. `IInv` joins both. `Sound(heap, x, H)` says of
the held blocks `H` that each has a `Home`, that they are disjoint, and that everything given out
is a home (`Covered`); `Fine` says it of all that the program holds, beside the well-formedness
of each container. The proof goes bottom up:

1. malloc, the arena and the pool, each with its refusals, keep a sound store sound and answer a
   block that is new (`Got`); releases, resets and the end of an allocator keep it sound without what went.
2. Each operation takes a store in which its container and other blocks `F` are held
   (`MapIn`, `VecIn`, `BufIn`), leaves it so, and writes at no address of `F` (`Agree`). So whoever
   owns `F` is undisturbed, whatever `F` is.
3. `Bucketed` survives a rebuilding because the load factor leaves a free bucket for each
   entry placed; `Hits` (a probe reaches every bucket) makes it come to it.
4. `Refinement` reads keys, values, elements and text off the memory before and after, and
   shows one step of `Collections` or none. `Vanish` is a reset or the end of an allocator.

Where the code has a loop, the model has a function defined by recursion (`Pow2`, `Placed`) or a
least number of turns (`Find`, `Doubled`). The library's induction rules take an operator, which the provers
cannot instantiate; the proofs use a least counterexample instead (`LeastNat`, from the well-foundedness of
`<`), and `Iteration` shows once that such a function exists and is what its equation says.

TLC has also checked `IInv` itself, on the states of the run.

*Limits.* One allocator at a time, made while the program holds nothing else. Elements of one word
(ints and strings). Alignments up to 2^20. Counts are no `int64_t` and do not overflow: they
would need more than 2^58 elements. Negative indices, which end the process as those beyond
the end do, and the reading operations, which change nothing, have no actions.

## 11. Where code and documents disagree

Shown by a run:

- `ownership_alias`: an alias assigned to a mutable name of an outer scope is read after
  its owner is freed (`src/emit_c.c:1901` against `docs/LANGUAGE_SPEC.md:632`).
- `lowering_carried`: no phi merges a name that a loop body assigns, so an accumulating
  loop is wrong in every IR backend (`src/ir_lower.c:780` against
  `tests/native_backend.sh:149`).

Met while the models were built, by TLC, by comparing bytes with a disassembler, or by reading,
without a run of their own:

- *Modules.* The flattener includes a file twice that has two spellings
  (`src/tiq/module.tiq:79` against `docs/LANGUAGE_SPEC.md:825`) and accepts an import
  that cannot be read (`docs/LANGUAGE_SPEC.md:826`). The C loader leaks the second path of an
  operand (`src/module.c:158`, `166`, `174`); every other return releases it.
- *Builds.* On Linux x86_64 the removal of the qbe backend's assembly file is commented out
  (`src/main.c:553` against `docs/COMPILER_ARCHITECTURE.md:36`). Builds share the names of the
  assembly and object files (`src/main.c:381`); one can succeed with another's program,
  against the determinism of `docs/CLI.md:188`. `build_wasm` leaves a partial module on a
  full disk (`src/main.c:858` against `docs/IMPLEMENTATION_STATUS.md:824`). `tiq run` reads a
  status nobody wrote when no process can be forked (`src/main.c:1193`). A flush that fails at
  `fclose` is not noticed (`src/main.c:375`, `725`): half a program may be built and reported
  as a success. `emit_native` promises to fail closed (`src/emit_native.c:13`) and goes on past what it
  does not know (lines 610 and 731), as does `emit_qbe` (`src/emit_qbe.c:499`). A native build
  does not succeed at all (`src/asm_amd64.c:1258`, `1402`, `1527` against `tests/native_backend.sh:132`).
- *Registry.* Two servers on one directory acknowledge one version to two publishers
  (`src/tiq/tools/registry.tiq:196` against `docs/CLI.md:82`). The index is written in
  place, while `docs/DOGFOODING.md:87` asks for a temporary file and a replacement;
  `Agree` says what that costs. `mf_semver` gives versions from 1000 on in a part the numbers of
  others: 1.1000.0 and 2.0.0 are one (`src/tiq/manifest.tiq:323`).
- *Ownership.* `break` and `skip` do not run the defers of the blocks they leave
  (`docs/LANGUAGE_SPEC.md:580`); a function's defers run in order and before its final
  expression (line 594 says reverse); a value moved in a loop body is accepted in
  the next turn; the last binding of a block never owns, and leaks.
- *Lowering.* The phi of a range loop names the block before its header, which is the
  wrong one after a conditional, a match, a fallback or another loop; a conditional
  inside a generator overlaps block ranges; a two-arm conditional without value
  makes a phi of no register; `while` and block defers are dropped; `s += 2` lowers as
  `s <- 2`; `&&`, `||` and `??` evaluate both sides; `e?` does not return early; a loop's bound is
  evaluated once, and in C in every turn; a print used as a value is a number of bytes in C and no register in the
  IR; an inner name overwrites an outer one of the same
  spelling; a literal inside a constructor pattern is ignored
  (`docs/LANGUAGE_SPEC.md`, section 17.1).
- *Optimiser.* Folding INT_MIN / -1 kills the compiler on x86-64; an unused division that
  would trap is removed; the rounds never settle before the tenth, since a removed
  instruction is counted again. `docs/TIQ_BOOK.md:540` says that the default level is 0,
  the code says 1.
- *Emitters.* Top-level names used in functions are accepted by the checker and missing in
  C and in the IR; QBE has no structs, arrays and fields; wasm gives 0 for the remainder
  where amd64 traps; the native emitter saves a branch's condition in slot 0, repeats its labels across
  functions, and uses directives and mnemonics that the integrated assembler rejects.
- *Assembler* (`src/asm_amd64.c:3` and `docs/CLI.md:22` promise that what is outside the
  subset is refused): the families of `Misencoded`, among them addresses with R8 to R15,
  `mov` of an immediate to and `push`/`pop` of those registers, `movz`, `movs` and `movslq` between two
  registers, which exchange them (`movzbl %al,%ecx` becomes `movzbl %cl,%eax`: `src/asm_amd64.c:827`
  has the source in ModRM.reg, under a REX made for the destination there), `add` and its kin with a four-byte
  immediate on 32-bit registers, 16-bit `imul`, `lea`, `xchg` and `div`, all `inc` and `dec`, and SSE
  conversions. A colon inside an `.ascii` string is taken for a label.
- *Allocators:* an arena aligns the offset in its buffer, not the address
  (`include/runtime_prelude.h:49`), so a request for more than malloc's own alignment may get
  a misaligned block; `NeverDangles` promises alignment up to `MaxAlign` only.
- *Containers:* a struct is pushed by `memcpy(tiq_vec_push_slot(v, ...), (T[]){ x }, ...)`
  (`src/emit_c.c:965`). C leaves the order of the two arguments open: where the slot is taken
  first, an `x` that looks at `v` finds one element too many, and one that pushes to `v`
  moves the array away, while `docs/LANGUAGE_SPEC.md`, section 19.7, makes `vec_push` a call.
- *Objects and linker:* the references of `Astray`: an offset from a symbol is lost, a field in front
  of an immediate is off by four, a symbol in .rodata or .bss is placed in another section
  unless .data and .bss are both there, a label in an empty .bss is undefined, and a
  name nobody defines links to address 0 (`include/elf_link.h:13`, `docs/CLI.md:24`).
  Relocations of .data are never applied; the program's entry is `main` itself;
  `.rodata.str1.1` and its like are not linked.

## 12. What is not modelled

`PROJECT.json` lists every part with its reason. In short:

- lexing, parsing and type inference: sequential functions from text to a tree; the models
  start from the tree;
- arm64 and riscv64 assemblers, Mach-O and PE: the frame of the x86-64 ones with other tables;
- vecs of structs and their inline push (section 11), the reads of a container
  (`map_key_at`, `vec_get`), which change nothing;
- installer, lock file, cache, proxy, router, event loop, language server: their hazards are those
  of files and sockets that the registry's programs already show, but for the
  event loop's one static array of results (`include/runtime_aux.h`), which a nested
  `ev_wait` overwrites, and the installer, whose failure at a later dependency leaves the
  earlier ones replaced;
- `chan_free` against a call still under way, which the documentation leaves to the caller;
- the self-hosted compiler, but for its flattener;
- vendored qbe, editors, site, examples and benchmarks.

Out of the prover's reach and left to TLC: liveness (`CloseReleasesAll`,
`SleepersServed`, `Answers`, `Ended`), and everything defined by recursion over programs,
trees or bytes (`FirstVisitOrder`, `BackendsAgree`, the ownership properties, `Decodes`,
`RoundTrip`, `Reached`). The type of `Ownership` is model-checked for the same reason: its
programs are trees that recursive operators check and emit. `WellFormed` is proved for
the optimiser's steps (`FormKept`) and model-checked for `ir_lower.c`, whose operators
are recursive.
The types of channels, loaders, builds and registry are theorems (`TypeCorrect`) and
not checked in a run as well.

## 13. Plan

Done, in this order: channels with their abstract queue; loaders with their abstract
promise; build driver; versions and registry; ownership and destruction; lowering,
optimiser and the meaning of programs on three backends; assembler, objects and linker;
allocators and containers with their abstract collections; proofs of channels, both
loaders, builds, versions, registry, optimiser, layout, assembler, allocators and containers.

What would come next, in the order of what it adds:

1. the installer and the build cache with kills between their steps, on top of `Registry`;
2. borrows, arrays and match arms in `Ownership`; `while` and block defers in `Lowering`
   once the code has them;
3. the native emitter's stack slots, as a third target of `Machine`, and the same text through
   `Toolchain`;
4. the self-hosted driver as one more backend of `BuildDriver`;
5. proofs: the frame of the toolchain (`RoundTrip` for symbols and sections) without its recursion.

## 14. Running it

    tlc -workers 2 -config MCChannel.cfg MCChannel
    tlc -workers 2 -config MCRegistry.cfg MCRegistry
    tlapm RegistryProofs.tla

and likewise for the other runs and proof modules; every run takes under five minutes on
two workers, and so does every proof module but `ContainersProofs`, which takes about
a quarter of an hour.
