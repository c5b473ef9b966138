------------------------------ MODULE Registry ------------------------------
(***************************************************************************)
(* The package registry (src/tiq/tools/registry.tiq) and the tools that     *)
(* talk to it: publish.tiq, yank.tiq and the registry part of install.tiq.  *)
(*                                                                          *)
(* A server is one process that handles one connection at a time.  What it  *)
(* knows is on disk: a file for each version and an index of the versions,  *)
(* written one after the other, each by truncating it first.  Servers on    *)
(* different ports share that directory.  A server may be killed between    *)
(* any two steps (it has no other way to stop, but see HangUp), a write may *)
(* fail, and the user may interrupt a tool.                                 *)
(*                                                                          *)
(* One package; packages do not interact.  An index that is missing, empty  *)
(* or cut short reads as no versions.  A version file that is empty or cut  *)
(* short is Torn; json_get finds no source in it.  The tools only send      *)
(* versions mf_check has accepted, and a source that is not empty, so the   *)
(* answers 400 and 422 do not occur, and their requests fit one net_recv.   *)
(***************************************************************************)
EXTENDS Semver, Sequences, FiniteSets

CONSTANTS
    Server,     \* the registry processes
    Client,     \* the invocations of publish, yank and install
    Home,       \* Client -> Server: the --registry option
    Version,    \* the versions in play
    Source,     \* the source URLs published
    Command,    \* Client -> what the user asks for
    Absent, Torn,   \* no such file, a file cut short
    Nobody,     \* no connection
    Backlog,    \* connections the kernel queues for a server
    MaxRuns,    \* Client -> how often the user runs the command
    MaxFaults   \* how often a process is killed or a write fails

Request == {"pending", "publish", "yank", "listing", "fetch"}

\* A connection: whose it is, and what has been sent on it.
Connection == [from : Client, dial : Nat, request : Request,
               version : Version]

ASSUME RegistryAssumption ==
    /\ Version \subseteq Versions
    /\ Nobody \notin Connection
    /\ Absent # Torn /\ {Absent, Torn} \cap Source = {}
    /\ Home \in [Client -> Server]
    /\ Command \in [Client -> [op : {"publish", "yank", "install"},
                               version : Version, source : Source,
                               wanted : SUBSET Clause]]
    /\ {Backlog, MaxFaults} \subseteq Nat /\ MaxRuns \in [Client -> Nat]

VARIABLES
    file,       \* <version>.json
    index,      \* index.json
    phase,      \* where each server is
    serving,    \* the connection it handles
    held,       \* the index it has read
    answer,     \* the response it is about to send
    queue,      \* connections waiting for accept
    stage,      \* where each client is
    dials,      \* the connections it has made
    runs,       \* how often its command was run
    reply,      \* the response on its way to it
    chosen,     \* the version the installer asks for, once it has picked one
    got,        \* the source it was given
    outcome,    \* "ok", "refused", "unreachable" or "killed"
    acks,       \* history: publishes answered 201 since the version's removal
    stable,     \* history: versions acknowledged all through a client's run
    disturbed,  \* history: versions a fault struck half-way
    lost,       \* history: versions whose own file could not be written
    faults

disk == <<file, index>>
servers == <<phase, serving, held, answer, queue>>
clients == <<stage, dials, runs, reply, chosen, got, outcome>>
history == <<acks, stable, disturbed, lost>>
vars == <<disk, servers, clients, history, faults>>

None == [code |-> "none", list |-> {}, source |-> Absent]
Answer == [code : {"none", "published", "exists", "yanked", "missing",
                   "listing", "found"},
           list : SUBSET Version, source : Source \cup {Absent, Torn}]

Init ==
    /\ file = [v \in Version |-> Absent] /\ index = {}
    /\ phase = [s \in Server |-> "accept"]
    /\ serving = [s \in Server |-> Nobody]
    /\ held = [s \in Server |-> {}]
    /\ answer = [s \in Server |-> None]
    /\ queue = [s \in Server |-> <<>>]
    /\ stage = [c \in Client |-> "idle"]
    /\ dials = [c \in Client |-> 0] /\ runs = [c \in Client |-> 0]
    /\ reply = [c \in Client |-> None]
    /\ chosen = [c \in Client |-> {}] /\ got = [c \in Client |-> Absent]
    /\ outcome = [c \in Client |-> "none"]
    /\ acks = [v \in Version |-> {}] /\ stable = [c \in Client |-> {}]
    /\ disturbed = {} /\ lost = {} /\ faults = 0

-----------------------------------------------------------------------------
\* The server.

Conn(s) == serving[s]
Now(s) == Conn(s).version
Goto(s, p) == phase' = [phase EXCEPT ![s] = p]

\* The response is ready.
Say(s, a) == /\ Goto(s, "reply")
             /\ answer' = [answer EXCEPT ![s] = a]

Code(c) == [None EXCEPT !.code = c]

Accept(s) ==
    /\ phase[s] = "accept" /\ queue[s] # <<>>
    /\ serving' = [serving EXCEPT ![s] = Head(queue[s])]
    /\ queue' = [queue EXCEPT ![s] = Tail(@)]
    /\ Goto(s, "recv")
    /\ UNCHANGED <<disk, held, answer, clients, history, faults>>

\* One net_recv; handle_get_pkg and handle_get_ver are a single read.
Receive(s) ==
    /\ phase[s] = "recv" /\ Conn(s).request # "pending"
    /\ CASE Conn(s).request = "listing" ->
              Say(s, [Code("listing") EXCEPT !.list = index])
         [] Conn(s).request = "fetch" ->
              Say(s, IF file[Now(s)] = Absent THEN Code("missing")
                     ELSE [Code("found") EXCEPT !.source = file[Now(s)]])
         [] OTHER -> Goto(s, "exists") /\ UNCHANGED answer
    /\ UNCHANGED <<disk, serving, held, queue, clients, history, faults>>

\* The client of a connection is gone, and sent nothing.
Deserted(k) == /\ k.request = "pending"
               /\ ~(stage[k.from] = "linked" /\ dials[k.from] = k.dial)

Stop(s) ==
    /\ Goto(s, "down")
    /\ serving' = [serving EXCEPT ![s] = Nobody]
    /\ queue' = [queue EXCEPT ![s] = <<>>]
    /\ held' = [held EXCEPT ![s] = {}]
    /\ answer' = [answer EXCEPT ![s] = None]

HangUpIgnored(s) ==     \* net_recv is tried again, without an end
    /\ phase[s] = "recv" /\ Deserted(Conn(s))
    /\ UNCHANGED vars

\* An empty request leaves the server's loop: the process ends.
HangUp(s) ==
    /\ phase[s] = "recv" /\ Deserted(Conn(s))
    /\ Stop(s)
    /\ UNCHANGED <<disk, clients, history, faults>>

\* The response goes to the client, if it still listens on that connection. An
\* acknowledged publish is remembered.
Reply(s) ==
    /\ phase[s] = "reply"
    /\ Goto(s, "accept")
    /\ serving' = [serving EXCEPT ![s] = Nobody]
    /\ answer' = [answer EXCEPT ![s] = None]
    /\ reply' = IF stage[Conn(s).from] = "sent" /\ dials[Conn(s).from] = Conn(s).dial
                THEN [reply EXCEPT ![Conn(s).from] = answer[s]] ELSE reply
    /\ acks' = IF answer[s].code = "published"
               THEN [acks EXCEPT ![Now(s)] =
                       @ \cup {<<Conn(s).from, Conn(s).dial>>}]
               ELSE acks
    /\ UNCHANGED <<disk, held, queue, stage, dials, runs, chosen, got, outcome,
                   stable, disturbed, lost, faults>>

-----------------------------------------------------------------------------
\* handle_publish and handle_yank.

ExistsUnlooked(s) ==    \* a publish does not look for the version's file
    /\ phase[s] = "exists"
    /\ IF Conn(s).request = "publish" THEN Goto(s, "openver") /\ UNCHANGED answer
       ELSE IF file[Now(s)] = Absent THEN Say(s, Code("missing"))
       ELSE Goto(s, "remove") /\ UNCHANGED answer
    /\ UNCHANGED <<disk, serving, held, queue, clients, history, faults>>

Exists(s) ==
    /\ phase[s] = "exists"
    /\ CASE Conn(s).request = "publish" /\ file[Now(s)] # Absent ->
              Say(s, Code("exists"))
         [] Conn(s).request = "publish" /\ file[Now(s)] = Absent ->
              Goto(s, "openver") /\ UNCHANGED answer
         [] Conn(s).request # "publish" /\ file[Now(s)] = Absent ->
              Say(s, Code("missing"))
         [] OTHER -> Goto(s, "remove") /\ UNCHANGED answer
    /\ UNCHANGED <<disk, serving, held, queue, clients, history, faults>>

\* Nobody looks at what fs_write returns.
Fault == faults < MaxFaults /\ faults' = faults + 1

OpenVersion(s) ==
    /\ phase[s] = "openver"
    /\ \/ /\ file' = [file EXCEPT ![Now(s)] = Torn]
          /\ Goto(s, "writever")
          /\ UNCHANGED <<disturbed, lost, faults>>
       \/ /\ Fault
          /\ Goto(s, "readidx")
          /\ disturbed' = disturbed \cup {Now(s)} /\ lost' = lost \cup {Now(s)}
          /\ UNCHANGED file
    /\ UNCHANGED <<index, serving, held, answer, queue, clients, acks, stable>>

WriteVersion(s) ==
    /\ phase[s] = "writever"
    /\ Goto(s, "readidx")
    /\ \/ /\ file' = [file EXCEPT ![Now(s)] = Command[Conn(s).from].source]
          /\ UNCHANGED <<disturbed, lost, faults>>
       \/ /\ Fault
          /\ disturbed' = disturbed \cup {Now(s)} /\ lost' = lost \cup {Now(s)}
          /\ UNCHANGED file
    /\ UNCHANGED <<index, serving, held, answer, queue, clients, acks, stable>>

\* proc_exec("rm -f ..."): what was acknowledged is taken back.
RemoveVersion(s) ==
    /\ phase[s] = "remove"
    /\ file' = [file EXCEPT ![Now(s)] = Absent]
    /\ Goto(s, "readidx")
    /\ acks' = [acks EXCEPT ![Now(s)] = {}]
    /\ stable' = [c \in Client |-> stable[c] \ {Now(s)}]
    /\ lost' = lost \ {Now(s)}
    /\ UNCHANGED <<index, serving, held, answer, queue, clients, disturbed,
                   faults>>

\* Where the request ends: a yank has healed what a fault did to the version.
Ends(s) ==
    /\ IF Conn(s).request = "publish"
       THEN Say(s, Code("published")) /\ UNCHANGED disturbed
       ELSE Say(s, Code("yanked")) /\ disturbed' = disturbed \ {Now(s)}

\* A yank that finds no index leaves it alone.
ReadIndex(s) ==
    /\ phase[s] = "readidx"
    /\ held' = [held EXCEPT ![s] = index]
    /\ IF Conn(s).request = "yank" /\ index = {} THEN Ends(s)
       ELSE Goto(s, "openidx") /\ UNCHANGED <<answer, disturbed>>
    /\ UNCHANGED <<disk, serving, queue, clients, acks, stable, lost, faults>>

OpenIndex(s) ==
    /\ phase[s] = "openidx"
    /\ \/ /\ index' = {}
          /\ Goto(s, "writeidx")
          /\ UNCHANGED <<answer, disturbed, faults>>
       \/ /\ Fault
          /\ Say(s, Code(IF Conn(s).request = "publish" THEN "published"
                                                        ELSE "yanked"))
          /\ disturbed' = disturbed \cup {Now(s)}
          /\ UNCHANGED index
    /\ UNCHANGED <<file, serving, held, queue, clients, acks, stable, lost>>

YankForgotten(s) == held[s] \cup {Now(s)}   \* the version stays in the list

\* The list handle_publish or handle_yank makes of the index it has read.
Revised(s) == IF Conn(s).request = "publish" THEN held[s] \cup {Now(s)}
              ELSE held[s] \ {Now(s)}

WriteIndex(s) ==
    /\ phase[s] = "writeidx"
    /\ \/ /\ index' = Revised(s)
          /\ Ends(s)
          /\ UNCHANGED faults
       \/ /\ Fault
          /\ Say(s, Code(IF Conn(s).request = "publish" THEN "published"
                                                        ELSE "yanked"))
          /\ disturbed' = disturbed \cup held[s] \cup {Now(s)}
          /\ UNCHANGED index
    /\ UNCHANGED <<file, serving, held, queue, clients, acks, stable, lost>>

\* What a kill leaves half-way: the version, and with a truncated index all
\* that the index held.
Struck(s) ==
    CASE phase[s] \in {"writever", "readidx", "openidx"} -> {Now(s)}
      [] phase[s] = "writeidx" -> held[s] \cup {Now(s)}
      [] OTHER -> {}

Kill(s) ==
    /\ phase[s] # "down" /\ Fault
    /\ Stop(s)
    /\ disturbed' = disturbed \cup Struck(s)
    /\ UNCHANGED <<disk, clients, acks, stable, lost>>

Restart(s) ==
    /\ phase[s] = "down"
    /\ Goto(s, "accept")
    /\ UNCHANGED <<disk, serving, held, answer, queue, clients, history, faults>>

-----------------------------------------------------------------------------
\* The clients.

Finish(c, o) == /\ stage' = [stage EXCEPT ![c] = "done"]
                /\ outcome' = [outcome EXCEPT ![c] = o]

\* net_connect, or the connect in net_fetch: refused when nobody listens, and
\* blocked while the backlog is full.
Refused(c) == phase[Home[c]] = "down"
Dial(c, v) ==
    /\ phase[Home[c]] # "down" /\ Len(queue[Home[c]]) < Backlog
    /\ dials' = [dials EXCEPT ![c] = @ + 1]
    /\ queue' = [queue EXCEPT ![Home[c]] = Append(@,
         [from |-> c, dial |-> dials[c] + 1, request |-> "pending", version |-> v])]
    /\ stage' = [stage EXCEPT ![c] = "linked"]

\* A new run of the command, up to its first connection.
Start(c) ==
    /\ stage[c] \in {"idle", "done"} /\ runs[c] < MaxRuns[c]
    /\ runs' = [runs EXCEPT ![c] = @ + 1]
    /\ \/ Dial(c, Command[c].version) /\ outcome' = [outcome EXCEPT ![c] = "none"]
       \/ Refused(c) /\ Finish(c, "unreachable") /\ UNCHANGED <<dials, queue>>
    /\ chosen' = [chosen EXCEPT ![c] = {}]
    /\ got' = [got EXCEPT ![c] = Absent]
    /\ stable' = [stable EXCEPT ![c] = {v \in Version : acks[v] # {}}]
    /\ UNCHANGED <<disk, phase, serving, held, answer, reply, acks, disturbed,
                   lost, faults>>

\* The installer's second connection.
Redial(c) ==
    /\ stage[c] = "dial"
    /\ \/ (\E v \in chosen[c] : Dial(c, v)) /\ UNCHANGED outcome
       \/ Refused(c) /\ Finish(c, "unreachable") /\ UNCHANGED <<dials, queue>>
    /\ UNCHANGED <<disk, phase, serving, held, answer, runs, reply, chosen, got,
                   history, faults>>

Mine(c, k) == k.from = c /\ k.dial = dials[c]
Connected(c) == \/ \E n \in DOMAIN queue[Home[c]] : Mine(c, queue[Home[c]][n])
                \/ serving[Home[c]] # Nobody /\ Mine(c, serving[Home[c]])

Asking(c) == IF Command[c].op # "install" THEN Command[c].op
             ELSE IF chosen[c] = {} THEN "listing" ELSE "fetch"

\* The bytes reach the connection wherever the server has it.
Heard(c, k) == IF k # Nobody /\ Mine(c, k) THEN [k EXCEPT !.request = Asking(c)]
               ELSE k

Send(c) ==
    /\ stage[c] = "linked"
    /\ queue' = [queue EXCEPT ![Home[c]] =
                   [n \in DOMAIN @ |-> Heard(c, @[n])]]
    /\ serving' = [serving EXCEPT ![Home[c]] = Heard(c, @)]
    /\ stage' = [stage EXCEPT ![c] = "sent"]
    /\ UNCHANGED <<disk, phase, held, answer, dials, runs, reply, chosen, got,
                   outcome, history, faults>>

\* The server went away before it answered.
Reset(c) ==
    /\ stage[c] = "sent" /\ reply[c] = None /\ ~Connected(c)
    /\ Finish(c, "unreachable")
    /\ UNCHANGED <<disk, servers, dials, runs, reply, chosen, got, history,
                   faults>>

Candidates(c) == {v \in reply[c].list : Satisfies(v, Command[c].wanted)}

BestLowest(c) ==    \* the comparison is the wrong way round
    {v \in Candidates(c) : \A w \in Candidates(c) : Encode(w) >= Encode(v)}

\* The versions of the highest number; of equal ones the first listed wins.
Best(c) ==
    {v \in Candidates(c) : \A w \in Candidates(c) : Encode(w) <= Encode(v)}

\* publish and yank look for "ok" in the answer.
Told(c) ==
    /\ reply[c].code \in {"published", "exists", "yanked", "missing"}
    /\ Finish(c, IF reply[c].code \in {"published", "yanked"} THEN "ok"
                                                              ELSE "refused")
    /\ UNCHANGED <<chosen, got>>

Pick(c) ==
    /\ reply[c].code = "listing"
    /\ \/ /\ \E v \in Best(c) : chosen' = [chosen EXCEPT ![c] = {v}]
          /\ stage' = [stage EXCEPT ![c] = "dial"]
          /\ UNCHANGED <<got, outcome>>
       \/ /\ Best(c) = {}
          /\ Finish(c, "refused")
          /\ UNCHANGED <<chosen, got>>

Resolve(c) ==
    /\ reply[c].code = "found"
    /\ got' = [got EXCEPT ![c] = reply[c].source]
    /\ Finish(c, IF reply[c].source = Torn THEN "refused" ELSE "ok")
    /\ UNCHANGED chosen

Hear(c) ==
    /\ stage[c] = "sent" /\ reply[c] # None
    /\ Told(c) \/ Pick(c) \/ Resolve(c)
    /\ reply' = [reply EXCEPT ![c] = None]
    /\ UNCHANGED <<disk, servers, dials, runs, history, faults>>

\* The user interrupts the tool; what it has sent stays sent.
Interrupt(c) ==
    /\ stage[c] \in {"dial", "linked", "sent"} /\ Fault
    /\ Finish(c, "killed")
    /\ reply' = [reply EXCEPT ![c] = None]
    /\ UNCHANGED <<disk, servers, dials, runs, chosen, got, history>>

-----------------------------------------------------------------------------
Serve(s) == \/ Accept(s) \/ Receive(s) \/ HangUp(s) \/ Reply(s) \/ Exists(s)
            \/ OpenVersion(s) \/ WriteVersion(s) \/ RemoveVersion(s)
            \/ ReadIndex(s) \/ OpenIndex(s) \/ WriteIndex(s)

Run(c) == Redial(c) \/ Send(c) \/ Reset(c) \/ Hear(c)

Next == \/ \E s \in Server : Serve(s) \/ Kill(s) \/ Restart(s)
        \/ \E c \in Client : Start(c) \/ Run(c) \/ Interrupt(c)

Spec == Init /\ [][Next]_vars

\* A server that is up runs, and so does a tool that was started; nobody has
\* to start a tool, or a server again.
FairSpec == /\ Spec
            /\ \A s \in Server : WF_vars(Serve(s))
            /\ \A c \in Client : WF_vars(Run(c))

-----------------------------------------------------------------------------
TypeOK ==
    /\ file \in [Version -> Source \cup {Absent, Torn}]
    /\ index \subseteq Version
    /\ phase \in [Server -> {"down", "accept", "recv", "exists", "openver",
                    "writever", "remove", "readidx", "openidx", "writeidx",
                    "reply"}]
    /\ serving \in [Server -> Connection \cup {Nobody}]
    /\ \A s \in Server :
         serving[s] = Nobody <=> phase[s] \in {"down", "accept"}
    /\ held \in [Server -> SUBSET Version]
    /\ answer \in [Server -> Answer]
    /\ queue \in [Server -> Seq(Connection)]
    /\ stage \in [Client -> {"idle", "dial", "linked", "sent", "done"}]
    /\ dials \in [Client -> Nat] /\ runs \in [Client -> Nat]
    /\ reply \in [Client -> Answer]
    /\ chosen \in [Client -> SUBSET Version]
    /\ got \in [Client -> Source \cup {Absent, Torn}]
    /\ outcome \in [Client -> {"none", "ok", "refused", "unreachable", "killed"}]
    /\ acks \in [Version -> SUBSET (Client \X Nat)]
    /\ stable \in [Client -> SUBSET Version]
    /\ disturbed \subseteq Version /\ lost \subseteq Version /\ faults \in Nat

\* "A duplicate version exits 1 with `version already exists`" (docs/CLI.md:82):
\* until it is yanked a version has one publisher who was told so, and holds
\* what that one published, whatever is killed and however requests are
\* retried; except where the version's own file could not be written.
Acknowledged ==
    \A v \in Version \ lost : \A a \in acks[v] :
        acks[v] = {a} /\ file[v] = Command[a[1]].source

\* Between two requests the index lists exactly the versions whose file is
\* there, but for those that a kill or a failed write struck half-way and that
\* nobody has yanked since.
Agree ==
    (\A s \in Server : phase[s] \in {"down", "accept", "recv"}) =>
        \A v \in Version \ disturbed : v \in index <=> file[v] \in Source

\* "selecting the highest version satisfying the constraint" (docs/CLI.md:76),
\* by what major.minor.patch means: an install that succeeds got no older a
\* version than any admissible one that stood acknowledged from its start to
\* its end, whatever was published, yanked or killed between its two requests.
Highest ==
    \A c \in Client : outcome[c] = "ok" /\ Command[c].op = "install" =>
        \A v \in chosen[c] :
            /\ Meets(v, Command[c].wanted)
            /\ \A w \in stable[c] \ disturbed :
                 Meets(w, Command[c].wanted) => ~Precedes(v, w)

\* A command that was started comes to its end, although servers end at a
\* deserted connection, and with them every connection that waits.
Ended == \A c \in Client : stage[c] = "linked" ~> stage[c] = "done"
=============================================================================
