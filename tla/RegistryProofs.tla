--------------------------- MODULE RegistryProofs ---------------------------
(* Theorems about Registry, for any servers, clients and commands.           *)
EXTENDS Registry, SequenceTheorems, TLAPS

-----------------------------------------------------------------------------
(* When mf_semver keeps the order of versions: while the minor and the patch  *)
(* number stay below its radix of 1000.                                      *)

Digit == 0 .. 999
Plain(v) == v.minor \in Digit /\ v.patch \in Digit

\* The number of a version is below another's exactly when the version is.
THEOREM OrderKept ==
    ASSUME NEW v \in Versions, NEW w \in Versions, Plain(v), Plain(w)
    PROVE  Encode(v) < Encode(w) <=> Precedes(v, w)
<1> DEFINE a == v.major  b == v.minor  c == v.patch
           d == w.major  e == w.minor  f == w.patch
<1>1. /\ a \in Nat /\ b \in Digit /\ c \in Digit
      /\ d \in Nat /\ e \in Digit /\ f \in Digit
  BY DEF Versions, Plain
<1>2. /\ Encode(v) = a * 1000000 + b * 1000 + c
      /\ Encode(w) = d * 1000000 + e * 1000 + f
  BY ONLY SMT DEF Encode
<1>3. Precedes(v, w) <=> a < d \/ (a = d /\ b < e) \/ (a = d /\ b = e /\ c < f)
  BY ONLY SMT DEF Precedes
<1> HIDE DEF a, b, c, d, e, f
<1> QED
  BY ONLY <1>1, <1>2, <1>3, SMT DEF Digit

LEMMA EncodeTyped == \A v \in Versions : Encode(v) \in Nat
  BY SMT DEF Versions, Encode

\* Different versions have different numbers.
LEMMA NumbersDiffer ==
    ASSUME NEW v \in Versions, NEW w \in Versions, Plain(v), Plain(w)
    PROVE  Encode(v) = Encode(w) <=> v = w
<1>1. Encode(v) = Encode(w) => ~Precedes(v, w) /\ ~Precedes(w, v)
  BY OrderKept, EncodeTyped
<1>2. ~Precedes(v, w) /\ ~Precedes(w, v)
        => v.major = w.major /\ v.minor = w.minor /\ v.patch = w.patch
  BY DEF Precedes, Versions
<1>3. v.major = w.major /\ v.minor = w.minor /\ v.patch = w.patch => v = w
  BY DEF Versions
<1> QED
  BY <1>1, <1>2, <1>3

\* mf_ver_satisfies admits the versions that the constraint means.
THEOREM ConstraintKept ==
    ASSUME NEW v \in Versions, NEW C \in SUBSET Clause, Plain(v),
           \A c \in C : Plain(c.at)
    PROVE  Satisfies(v, C) <=> Meets(v, C)
<1>1. ASSUME NEW c \in C
      PROVE  Match(Encode(v), c.op, Encode(c.at)) <=> Meets(v, {c})
  <2>1. c.op \in Operator /\ c.at \in Versions /\ Plain(c.at)
    BY DEF Clause
  <2>2. /\ Encode(v) \in Nat /\ Encode(c.at) \in Nat
        /\ Encode(v) < Encode(c.at) <=> Precedes(v, c.at)
        /\ Encode(c.at) < Encode(v) <=> Precedes(c.at, v)
        /\ Encode(v) = Encode(c.at) <=> v = c.at
    BY <2>1, OrderKept, NumbersDiffer, EncodeTyped
  <2>3. /\ Encode(v) >= Encode(c.at) <=> ~Precedes(v, c.at)
        /\ Encode(v) <= Encode(c.at) <=> ~Precedes(c.at, v)
        /\ Encode(v) > Encode(c.at) <=> Precedes(c.at, v)
    BY ONLY <2>2
  <2> QED
    BY ONLY <2>1, <2>2, <2>3 DEF Match, Meets, Operator
<1> QED
  BY <1>1 DEF Satisfies, Meets

-----------------------------------------------------------------------------
(* The steps.                                                                *)

\* What server s does, and what client c does.
ServerStep(s) == Serve(s) \/ Kill(s) \/ Restart(s)
ClientStep(c) == Start(c) \/ Run(c) \/ Interrupt(c)

LEMMA Steps ==
    Next <=> \/ \E s \in Server : ServerStep(s)
             \/ \E c \in Client : ClientStep(c)
  BY DEF Next, ServerStep, ClientStep

-----------------------------------------------------------------------------
(* Types.                                                                    *)

LEMMA Codes ==
    /\ None \in Answer
    /\ \A x \in {"none", "published", "exists", "yanked", "missing", "listing",
                 "found"} : Code(x) \in Answer /\ Code(x).code = x
    /\ \A L \in SUBSET Version : [Code("listing") EXCEPT !.list = L] \in Answer
    /\ \A x \in Source \cup {Absent, Torn} :
          [Code("found") EXCEPT !.source = x] \in Answer
  BY DEF None, Answer, Code

LEMMA Listings ==
    /\ \A L \in SUBSET Version :
          /\ [Code("listing") EXCEPT !.list = L].code = "listing"
          /\ [Code("listing") EXCEPT !.list = L].list = L
    /\ \A x \in Source \cup {Absent, Torn} :
          [Code("found") EXCEPT !.source = x].code = "found"
  BY DEF None, Code

LEMMA Commands ==
    \A c \in Client : /\ Home[c] \in Server
                      /\ Command[c].op \in {"publish", "yank", "install"}
                      /\ Command[c].version \in Version
                      /\ Command[c].source \in Source
  BY RegistryAssumption

\* A connection that hears its client is still a connection.
LEMMA HeardTyped ==
    ASSUME NEW c \in Client, NEW k \in Connection
    PROVE  /\ Heard(c, k) \in Connection
           /\ Heard(c, k).from = k.from /\ Heard(c, k).dial = k.dial
           /\ Heard(c, k).version = k.version
           /\ Heard(c, k) # k => Heard(c, k).request # "pending" /\ Mine(c, k)
  BY Commands DEF Heard, Connection, Asking, Request

LEMMA QueueTyped ==
    ASSUME NEW c \in Client, NEW q \in Seq(Connection)
    PROVE  [n \in DOMAIN q |-> Heard(c, q[n])] \in Seq(Connection)
<1>1. \A n \in 1..Len(q) : Heard(c, q[n]) \in Connection
  BY HeardTyped
<1> QED
  BY <1>1

LEMMA InitTyped == Init => TypeOK
  BY Codes, RegistryAssumption DEF Init, TypeOK

LEMMA ServerTyped ==
    ASSUME TypeOK, NEW s \in Server, ServerStep(s)
    PROVE  TypeOK'
<1> DEFINE busy == phase[s] \notin {"down", "accept"}
<1> USE DEF ServerStep, Serve, Accept, Receive, HangUp, Reply, Exists,
            OpenVersion, WriteVersion, RemoveVersion, ReadIndex, OpenIndex,
            WriteIndex, Kill, Restart, disk, servers, clients, history
<1>1. busy => Conn(s) \in Connection /\ Now(s) \in Version /\ Conn(s).from \in Client
  BY DEF TypeOK, Conn, Now, Connection
<1>2. file' \in [Version -> Source \cup {Absent, Torn}]
  BY <1>1, Commands DEF TypeOK
<1>3. index' \subseteq Version
  BY <1>1 DEF TypeOK, Revised
<1>4. phase' \in [Server -> {"down", "accept", "recv", "exists", "openver",
                    "writever", "remove", "readidx", "openidx", "writeidx",
                    "reply"}]
  BY ZenonT(60) DEF TypeOK, Goto, Say, Stop, Ends
<1>5. queue[s] # <<>> => Head(queue[s]) \in Connection /\ Tail(queue[s]) \in Seq(Connection)
  BY HeadTailProperties DEF TypeOK
<1>6. serving' \in [Server -> Connection \cup {Nobody}]
  BY <1>5 DEF TypeOK, Stop
<1>7. \A i \in Server : serving'[i] = Nobody <=> phase'[i] \in {"down", "accept"}
  <2>1. CASE Accept(s)
    BY <2>1, <1>5, RegistryAssumption DEF TypeOK, Goto
  <2>2. CASE HangUp(s) \/ Reply(s) \/ Kill(s)
    BY <2>2 DEF TypeOK, Goto, Stop
  <2>3. CASE Restart(s)
    BY <2>3 DEF TypeOK, Goto
  <2>4. CASE /\ serving' = serving /\ busy
             /\ \E p \in {"recv", "exists", "openver", "writever", "remove",
                          "readidx", "openidx", "writeidx", "reply"} :
                    phase' = [phase EXCEPT ![s] = p]
    BY <2>4 DEF TypeOK
  <2>5. Receive(s) \/ Exists(s) \/ OpenVersion(s) \/ WriteVersion(s)
          \/ RemoveVersion(s) \/ ReadIndex(s) \/ OpenIndex(s) \/ WriteIndex(s)
        => <2>4!1
    BY DEF Goto, Say, Ends
  <2> QED
    BY <2>1, <2>2, <2>3, <2>4, <2>5
<1>8. held' \in [Server -> SUBSET Version]
  BY DEF TypeOK, Stop
<1>9. answer' \in [Server -> Answer]
  <2>1. [Code("listing") EXCEPT !.list = index] \in Answer
    BY Codes DEF TypeOK
  <2>2. busy => [Code("found") EXCEPT !.source = file[Now(s)]] \in Answer
    BY <1>1, Codes DEF TypeOK
  <2>3. \/ answer' = answer
        \/ \E a \in Answer : answer' = [answer EXCEPT ![s] = a]
    BY <2>1, <2>2, Codes DEF Say, Stop, Ends
  <2> QED
    BY <2>3 DEF TypeOK
<1>10. queue' \in [Server -> Seq(Connection)]
  <2>1. <<>> \in Seq(Connection)
    OBVIOUS
  <2>2. \/ queue' = queue
        \/ \E q \in Seq(Connection) : queue' = [queue EXCEPT ![s] = q]
    BY <1>5, <2>1 DEF Stop
  <2> QED
    BY <2>2 DEF TypeOK
<1>11. /\ stage' \in [Client -> {"idle", "dial", "linked", "sent", "done"}]
       /\ dials' \in [Client -> Nat] /\ runs' \in [Client -> Nat]
       /\ chosen' \in [Client -> SUBSET Version]
       /\ got' \in [Client -> Source \cup {Absent, Torn}]
       /\ outcome' \in [Client -> {"none", "ok", "refused", "unreachable", "killed"}]
  BY DEF TypeOK
<1>12. reply' \in [Client -> Answer]
  BY DEF TypeOK
<1>13. acks' \in [Version -> SUBSET (Client \X Nat)]
  <2>1. busy => <<Conn(s).from, Conn(s).dial>> \in Client \X Nat
    BY <1>1 DEF Connection
  <2>2. \/ acks' = acks
        \/ busy /\ acks' = [acks EXCEPT ![Now(s)] = {}]
        \/ busy /\ acks' = [acks EXCEPT ![Now(s)] =
                            @ \cup {<<Conn(s).from, Conn(s).dial>>}]
    OBVIOUS
  <2>3. busy => acks[Now(s)] \subseteq Client \X Nat
    BY <1>1 DEF TypeOK
  <2>4. \/ acks' = acks
        \/ \E v \in Version, A \in SUBSET (Client \X Nat) :
              acks' = [acks EXCEPT ![v] = A]
    <3>1. ASSUME busy
          PROVE  acks[Now(s)] \cup {<<Conn(s).from, Conn(s).dial>>} \in SUBSET (Client \X Nat)
      BY ONLY <2>1, <2>3, <3>1
    <3> QED
      BY ONLY <1>1, <2>2, <3>1
  <2> QED
    BY ONLY TypeOK, <2>4 DEF TypeOK
<1>14. stable' \in [Client -> SUBSET Version]
  BY DEF TypeOK
<1>15. disturbed' \subseteq Version /\ lost' \subseteq Version
  BY <1>1 DEF TypeOK, Ends, Struck
<1>16. faults' \in Nat
  BY DEF TypeOK, Fault
<1> QED
  BY ONLY <1>2, <1>3, <1>4, <1>6, <1>7, <1>8, <1>9, <1>10, <1>11, <1>12, <1>13,
          <1>14, <1>15, <1>16 DEF TypeOK

LEMMA ClientTyped ==
    ASSUME TypeOK, NEW c \in Client, ClientStep(c)
    PROVE  TypeOK'
<1> USE DEF ClientStep, Start, Run, Redial, Send, Reset, Hear, Interrupt, disk,
            servers, clients, history
<1>1. Home[c] \in Server /\ Command[c].version \in Version
  BY Commands
<1>2. UNCHANGED <<file, index, phase, held, answer, acks, disturbed, lost>>
  OBVIOUS
<1>3. serving' \in [Server -> Connection \cup {Nobody}]
  <2>1. \/ serving' = serving
        \/ serving' = [serving EXCEPT ![Home[c]] = Heard(c, @)]
    BY DEF Dial, Finish, Told, Pick, Resolve
  <2>2. serving[Home[c]] \in Connection \cup {Nobody}
    BY <1>1 DEF TypeOK
  <2>3. Heard(c, serving[Home[c]]) \in Connection \cup {Nobody}
    BY <2>2, HeardTyped DEF Heard
  <2> QED
    BY <1>1, <2>1, <2>3 DEF TypeOK
<1>4. \A i \in Server : serving'[i] = Nobody <=> serving[i] = Nobody
  <2>1. \/ serving' = serving
        \/ serving' = [serving EXCEPT ![Home[c]] = Heard(c, @)]
    BY DEF Dial, Finish, Told, Pick, Resolve
  <2>2. serving[Home[c]] \in Connection \cup {Nobody}
    BY <1>1 DEF TypeOK
  <2>3. Heard(c, serving[Home[c]]) = Nobody <=> serving[Home[c]] = Nobody
    BY <2>2, HeardTyped, RegistryAssumption DEF Heard
  <2> QED
    BY <1>1, <2>1, <2>3 DEF TypeOK
<1>5. queue' \in [Server -> Seq(Connection)]
  <2>1. \A v \in Version, d \in Nat :
          [from |-> c, dial |-> d, request |-> "pending", version |-> v] \in Connection
    BY DEF Connection, Request
  <2>2. dials[c] + 1 \in Nat /\ chosen[c] \subseteq Version
    BY DEF TypeOK
  <2>3. \A k \in Connection : Append(queue[Home[c]], k) \in Seq(Connection)
    BY <1>1, AppendProperties DEF TypeOK
  <2>4. [n \in DOMAIN queue[Home[c]] |-> Heard(c, queue[Home[c]][n])] \in Seq(Connection)
    BY <1>1, QueueTyped DEF TypeOK
  <2>5. \/ queue' = queue
        \/ \E q \in Seq(Connection) : queue' = [queue EXCEPT ![Home[c]] = q]
    BY <1>1, <2>1, <2>2, <2>3, <2>4 DEF Dial
  <2> QED
    BY <2>5 DEF TypeOK
<1>6. stage' \in [Client -> {"idle", "dial", "linked", "sent", "done"}]
  <2>1. \/ stage' = stage
        \/ \E x \in {"idle", "dial", "linked", "sent", "done"} :
              stage' = [stage EXCEPT ![c] = x]
    BY DEF Finish, Dial, Told, Pick, Resolve
  <2> QED
    BY <2>1 DEF TypeOK
<1>7. dials' \in [Client -> Nat]
  <2>1. dials' = dials \/ dials' = [dials EXCEPT ![c] = @ + 1]
    BY DEF Dial
  <2> QED
    BY <2>1 DEF TypeOK
<1>8. runs' \in [Client -> Nat]
  <2>1. CASE Start(c)
    BY <2>1 DEF TypeOK
  <2>2. ~Start(c) => runs' = runs
    OBVIOUS
  <2> QED
    BY <2>1, <2>2 DEF TypeOK
<1>9. reply' \in [Client -> Answer]
  BY Codes DEF TypeOK
<1>10. chosen' \in [Client -> SUBSET Version]
  <2>1. reply[c].list \subseteq Version
    BY DEF TypeOK, Answer
  <2>2. Best(c) \subseteq Version
    BY <2>1 DEF Best, Candidates
  <2>3. \/ chosen' = chosen
        \/ \E C \in SUBSET Version : chosen' = [chosen EXCEPT ![c] = C]
    BY <2>2 DEF Told, Pick, Resolve
  <2> QED
    BY <2>3 DEF TypeOK
<1>11. got' \in [Client -> Source \cup {Absent, Torn}]
  <2>1. reply[c].source \in Source \cup {Absent, Torn}
    BY DEF TypeOK, Answer
  <2> QED
    BY <2>1 DEF TypeOK, Told, Pick, Resolve
<1>12. outcome' \in [Client -> {"none", "ok", "refused", "unreachable", "killed"}]
  BY DEF TypeOK, Finish, Dial, Told, Pick, Resolve
<1>13. stable' \in [Client -> SUBSET Version]
  <2>1. CASE Start(c)
    BY <2>1 DEF TypeOK
  <2>2. ~Start(c) => stable' = stable
    OBVIOUS
  <2> QED
    BY <2>1, <2>2 DEF TypeOK
<1>14. faults' \in Nat
  BY DEF TypeOK, Fault
<1> QED
  BY ONLY TypeOK, <1>2, <1>3, <1>4, <1>5, <1>6, <1>7, <1>8, <1>9, <1>10, <1>11,
          <1>12, <1>13, <1>14 DEF TypeOK

\* TypeOK holds whatever the servers, the clients and their commands are.
THEOREM TypeCorrect == Spec => []TypeOK
<1>1. TypeOK /\ [Next]_vars => TypeOK'
  <2> SUFFICES ASSUME TypeOK, [Next]_vars PROVE TypeOK'
    OBVIOUS
  <2>1. CASE Next
    BY <2>1, Steps, ServerTyped, ClientTyped
  <2>2. CASE UNCHANGED vars
    BY <2>2 DEF TypeOK, vars, disk, servers, clients, history
  <2> QED
    BY <2>1, <2>2
<1> QED
  BY InitTyped, <1>1, PTL DEF Spec
-----------------------------------------------------------------------------
(* What one server keeps.                                                    *)

\* No other server works on the directory.
OneServer == \E s \in Server : Server = {s}

\* A connection is never ahead of its client, and while the client has not sent
\* on it, nothing is on it.
Fresh(k) == /\ k.dial <= dials[k.from]
            /\ stage[k.from] = "linked" /\ dials[k.from] = k.dial
                 => k.request = "pending"

AllFresh == \A s \in Server :
    /\ serving[s] # Nobody => Fresh(serving[s])
    /\ \A n \in DOMAIN queue[s] : Fresh(queue[s][n])

\* A server works on a request that has come, and on its kind of request.
Fits(s) ==
    /\ phase[s] \notin {"down", "accept", "recv"} => Conn(s).request # "pending"
    /\ phase[s] \in {"exists", "readidx", "openidx", "writeidx"}
         => Conn(s).request \in {"publish", "yank"}
    /\ phase[s] \in {"openver", "writever"} => Conn(s).request = "publish"
    /\ phase[s] = "remove" => Conn(s).request = "yank"

\* A publish that writes finds no acknowledgement, and one that has written
\* holds what its client asked for.
Writing(s) == phase[s] \in {"openver", "writever"}
Written(s) == \/ phase[s] \in {"readidx", "openidx", "writeidx"} /\ Conn(s).request = "publish"
              \/ phase[s] = "reply" /\ answer[s].code = "published"

Kept(s) ==
    /\ Writing(s) \/ Written(s) => Now(s) \in lost \/ acks[Now(s)] = {}
    /\ Written(s) => Now(s) \in lost \/ file[Now(s)] = Command[Conn(s).from].source

Ledger == AllFresh /\ Acknowledged /\ \A s \in Server : Fits(s) /\ Kept(s)

\* Index and files agree; and so they do but for the version that the server
\* works on, the index as it was before the server cut it short.
Settled == \A v \in Version \ disturbed : v \in index <=> file[v] \in Source

Updating(s) == phase[s] \in {"readidx", "openidx", "writeidx"}
Known(s) == IF phase[s] = "writeidx" THEN held[s] ELSE index
Halfway(s) == \A v \in Version \ (disturbed \cup {Now(s)}) :
                 v \in Known(s) <=> file[v] \in Source

\* What the index is about to say of that version.
Coming(s) == IF Conn(s).request = "publish"
             THEN Now(s) \in disturbed \/ file[Now(s)] \in Source
             ELSE file[Now(s)] = Absent

Agrees(s) ==
    /\ ~Updating(s) => Settled
    /\ Writing(s) => file[Now(s)] \notin Source
    /\ Updating(s) => Halfway(s) /\ Coming(s)
    /\ phase[s] = "openidx" => held[s] = index
    /\ phase[s] = "writeidx" => index = {}

Catalogue == \A s \in Server : Agrees(s)

\* A yank at work on the index has taken everything of the version back.
TakenBack(s) == Updating(s) /\ Conn(s).request = "yank"
                  => acks[Now(s)] = {} /\ Now(s) \notin lost

\* What client c can count on: acknowledged, and not struck.
Sure(c) == stable[c] \ disturbed

\* A list on its way to a client has all that it can count on, and so had the
\* list it has picked from.
Awaits(c, s) == phase[s] = "reply" /\ Mine(c, Conn(s)) /\ stage[c] = "sent"
Informed(c) ==
    /\ \A v \in stable[c] : acks[v] # {}
    /\ reply[c] # None => stage[c] = "sent"
    /\ \A s \in Server : Awaits(c, s) /\ answer[s].code = "listing"
                           => Sure(c) \subseteq answer[s].list
    /\ reply[c].code = "listing" => Sure(c) \subseteq reply[c].list
    /\ \A v \in chosen[c] :
         /\ Satisfies(v, Command[c].wanted)
         /\ \A w \in Sure(c) : Satisfies(w, Command[c].wanted)
                                 => Encode(w) <= Encode(v)

Survey == /\ lost \subseteq disturbed
          /\ \A s \in Server : TakenBack(s)
          /\ \A c \in Client : Informed(c)

\* A server's step leaves the connections as they are, but for those it drops.
LEMMA ServerFresh ==
    ASSUME TypeOK, AllFresh, NEW s \in Server, ServerStep(s)
    PROVE  AllFresh'
<1> USE DEF ServerStep, Serve, Accept, Receive, HangUp, Reply, Exists,
            OpenVersion, WriteVersion, RemoveVersion, ReadIndex, OpenIndex,
            WriteIndex, Kill, Restart, disk, servers, clients, history
<1>1. UNCHANGED <<stage, dials>>
  OBVIOUS
<1>2. \/ queue' = queue \/ queue' = [queue EXCEPT ![s] = <<>>]
      \/ queue[s] # <<>> /\ queue' = [queue EXCEPT ![s] = Tail(@)]
  BY DEF Stop
<1>3. \/ serving' = serving \/ serving' = [serving EXCEPT ![s] = Nobody]
      \/ queue[s] # <<>> /\ serving' = [serving EXCEPT ![s] = Head(queue[s])]
  BY DEF Stop
<1>4. ASSUME NEW i \in Server, NEW n \in DOMAIN queue'[i]
      PROVE  Fresh(queue'[i][n])
  <2>1. CASE queue'[i] = queue[i]
    BY <2>1, <1>4 DEF AllFresh
  <2>2. CASE queue'[i] = <<>>
    BY <2>2, <1>4
  <2>3. CASE queue[i] # <<>> /\ queue'[i] = Tail(queue[i])
    <3>1. n \in 1..(Len(queue[i]) - 1) /\ queue'[i][n] = queue[i][n + 1]
      BY <2>3, <1>4, HeadTailProperties DEF TypeOK
    <3>2. n + 1 \in DOMAIN queue[i]
      BY <3>1 DEF TypeOK
    <3> QED
      BY <3>1, <3>2 DEF AllFresh
  <2> QED
    BY <1>2, <2>1, <2>2, <2>3 DEF TypeOK
<1>5. ASSUME NEW i \in Server, serving'[i] # Nobody
      PROVE  Fresh(serving'[i])
  <2>1. CASE serving'[i] = serving[i]
    BY <2>1, <1>5 DEF AllFresh
  <2>2. CASE queue[i] # <<>> /\ serving'[i] = Head(queue[i])
    <3>1. 1 \in DOMAIN queue[i] /\ Head(queue[i]) = queue[i][1]
      BY <2>2 DEF TypeOK
    <3> QED
      BY <2>2, <3>1 DEF AllFresh
  <2> QED
    BY <1>3, <1>5, <2>1, <2>2 DEF TypeOK
<1> QED
  BY <1>1, <1>4, <1>5 DEF AllFresh, Fresh

\* With one server its own steps are all that touch the disk.
LEMMA ServerLedger ==
    ASSUME OneServer, TypeOK, Ledger, NEW s \in Server, ServerStep(s)
    PROVE  Ledger'
<1> DEFINE a == Now(s)
           mine == Command[Conn(s).from].source
<1>1. \A i \in Server : i = s
  BY DEF OneServer
<1>2. phase[s] \notin {"down", "accept"}
        => /\ Conn(s) \in Connection /\ a \in Version /\ Conn(s).from \in Client
           /\ mine \in Source
  BY Commands DEF TypeOK, Conn, Now, Connection
<1>3. Fits(s) /\ Kept(s)
  BY DEF Ledger
<1>4. Acknowledged
  BY DEF Ledger
<1> USE DEF ServerStep, Serve, Accept, Receive, HangUp, Reply, Exists,
            OpenVersion, WriteVersion, RemoveVersion, ReadIndex, OpenIndex,
            WriteIndex, Kill, Restart, disk, servers, clients, history
<1>5. AllFresh'
  BY ServerFresh DEF Ledger
<1>6. Fits(s)'
  <2>1. CASE Accept(s) \/ HangUp(s) \/ Reply(s) \/ Kill(s) \/ Restart(s)
    BY <2>1 DEF TypeOK, Fits, Goto, Stop
  <2>2. CASE Receive(s)
    BY <2>2, <1>2 DEF TypeOK, Fits, Goto, Say, Conn, Connection, Request
  <2>3. CASE \/ Exists(s) \/ OpenVersion(s) \/ WriteVersion(s) \/ RemoveVersion(s)
             \/ ReadIndex(s) \/ OpenIndex(s) \/ WriteIndex(s)
    BY <2>3, <1>3 DEF TypeOK, Fits, Goto, Say, Ends, Conn
  <2> QED
    BY <2>1, <2>2, <2>3
<1>7. Acknowledged' /\ Kept(s)'
  <2>1. CASE Accept(s) \/ HangUp(s) \/ Kill(s) \/ Restart(s) \/ Receive(s)
    <3>1. UNCHANGED <<file, acks, lost>>
      BY <2>1
    <3>2. ~Writing(s)' /\ ~Written(s)'
      <4>1. CASE Receive(s)
        <5>1. phase'[s] \in {"exists", "reply"}
          BY <4>1 DEF TypeOK, Goto, Say
        <5>2. phase'[s] = "reply" => answer'[s].code \in {"listing", "missing", "found"}
          <6>1. /\ a \in Version /\ index \in SUBSET Version
                /\ file[a] \in Source \cup {Absent, Torn}
            BY <4>1, <1>2 DEF TypeOK
          <6>2. phase'[s] = "reply" =>
                  \/ answer'[s] = [Code("listing") EXCEPT !.list = index]
                  \/ answer'[s] = Code("missing")
                  \/ answer'[s] = [Code("found") EXCEPT !.source = file[a]]
            BY <4>1 DEF TypeOK, Goto, Say
          <6> QED
            BY <6>2 DEF Code, None
        <5> QED
          BY <5>1, <5>2 DEF Writing, Written
      <4>2. phase'[s] \in {"down", "accept", "recv"} \/ Receive(s)
        BY <2>1 DEF TypeOK, Goto, Stop
      <4> QED
        BY <4>1, <4>2 DEF Writing, Written
    <3> QED
      BY <3>1, <3>2, <1>4 DEF Acknowledged, Kept
  <2>2. CASE Reply(s)
    <3>1. UNCHANGED <<file, lost>> /\ ~Writing(s)' /\ ~Written(s)'
      BY <2>2 DEF TypeOK, Goto, Writing, Written
    <3>2. CASE answer[s].code # "published"
      BY <3>1, <3>2, <2>2, <1>4 DEF Acknowledged, Kept
    <3>3. CASE answer[s].code = "published"
      <4>1. Written(s) /\ a \in Version
        BY <3>3, <2>2, <1>2 DEF Written
      <4>2. a \in lost \/ (acks[a] = {} /\ file[a] = mine)
        BY <4>1, <1>3 DEF Kept
      <4>3. acks' = [acks EXCEPT ![a] = @ \cup {<<Conn(s).from, Conn(s).dial>>}]
        BY <3>3, <2>2
      <4>4. \A v \in Version : v # a => acks'[v] = acks[v]
        BY <4>1, <4>3 DEF TypeOK
      <4>5. acks'[a] = acks[a] \cup {<<Conn(s).from, Conn(s).dial>>}
        BY <4>1, <4>3 DEF TypeOK
      <4>6. a \notin lost => \A b \in acks'[a] :
               acks'[a] = {b} /\ file[a] = Command[b[1]].source
        BY <4>2, <4>5
      <4>7. Acknowledged'
        BY <3>1, <4>4, <4>6, <1>4 DEF Acknowledged
      <4> QED
        BY <3>1, <4>7 DEF Kept
    <3> QED
      BY <3>2, <3>3
  <2>3. CASE Exists(s)
    <3>1. UNCHANGED <<file, acks, lost, serving>> /\ ~Written(s)'
      <4>1. UNCHANGED <<file, acks, lost, serving>>
        BY <2>3
      <4>2. \/ phase'[s] \in {"openver", "remove"}
            \/ phase'[s] = "reply" /\ answer'[s] \in {Code("exists"), Code("missing")}
        BY <2>3 DEF TypeOK, Goto, Say
      <4>3. Code("exists").code # "published" /\ Code("missing").code # "published"
        BY DEF Code, None
      <4> QED
        BY <4>1, <4>2, <4>3 DEF Written
    <3>2. Writing(s)' => file[a] = Absent /\ a \in Version
      BY <2>3, <1>2 DEF TypeOK, Goto, Say, Writing
    <3>3. file[a] = Absent /\ a \in Version => a \in lost \/ acks[a] = {}
      BY <1>4, Commands, RegistryAssumption DEF Acknowledged, TypeOK
    <3> QED
      BY <3>1, <3>2, <3>3, <1>4 DEF Acknowledged, Kept, Now, Conn
  <2>4. CASE OpenVersion(s) \/ WriteVersion(s)
    <3>1. /\ a \in Version /\ mine \in Source
          /\ a \in lost \/ acks[a] = {}
      BY <2>4, <1>2, <1>3 DEF Kept, Writing
    <3>2. /\ UNCHANGED <<acks, serving>> /\ lost \subseteq lost'
          /\ \E x : file' = [file EXCEPT ![a] = x]
      BY <2>4 DEF TypeOK
    <3>3. Written(s)' => a \in lost' \/ file'[a] = mine
      BY <2>4, <3>1 DEF TypeOK, Goto, Written
    <3> QED
      BY <3>1, <3>2, <3>3, <1>4 DEF Acknowledged, Kept, Now, Conn, TypeOK
  <2>5. CASE RemoveVersion(s)
    <3>1. a \in Version /\ Conn(s).request = "yank" /\ serving' = serving
      BY <2>5, <1>2, <1>3 DEF Fits
    <3>2. ~Writing(s)' /\ ~Written(s)'
      BY <2>5, <3>1 DEF TypeOK, Goto, Writing, Written, Conn
    <3> QED
      BY <2>5, <3>1, <3>2, <1>4 DEF Acknowledged, Kept, TypeOK
  <2>6. CASE ReadIndex(s) \/ OpenIndex(s) \/ WriteIndex(s)
    <3>1. UNCHANGED <<file, acks, lost, serving>> /\ ~Writing(s)'
      BY <2>6 DEF TypeOK, Goto, Say, Ends, Writing
    <3>2. Written(s)' => Written(s)
      BY <2>6, <3>1, Codes, ZenonT(60) DEF TypeOK, Goto, Say, Ends, Written, Code, Conn
    <3> QED
      BY <3>1, <3>2, <1>3, <1>4 DEF Acknowledged, Kept, Now, Conn
  <2> QED
    BY <2>1, <2>2, <2>3, <2>4, <2>5, <2>6
<1> QED
  BY <1>1, <1>5, <1>6, <1>7 DEF Ledger

\* A client's step only adds a connection, or sends what a pending one lacks.
LEMMA ClientLedger ==
    ASSUME TypeOK, Ledger, NEW c \in Client, ClientStep(c)
    PROVE  Ledger' /\ \A s \in Server :
             /\ phase[s] \notin {"down", "accept", "recv"} => serving'[s] = serving[s]
<1> USE DEF ClientStep, Start, Run, Redial, Send, Reset, Hear, Interrupt, disk,
            servers, clients, history
<1> DEFINE h == Home[c]
           fresh(k) == /\ k.dial <= dials'[k.from]
                       /\ stage'[k.from] = "linked" /\ dials'[k.from] = k.dial
                            => k.request = "pending"
<1>1. h \in Server /\ Command[c].version \in Version
  BY Commands
<1>2. UNCHANGED <<phase, answer, file, acks, lost>>
  OBVIOUS
<1>3. /\ \A d \in Client : d # c => stage'[d] = stage[d] /\ dials'[d] = dials[d]
      /\ dials[c] \in Nat /\ dials'[c] \in Nat /\ dials'[c] >= dials[c]
  <2>1. dials' = dials \/ dials' = [dials EXCEPT ![c] = @ + 1]
    BY DEF Dial
  <2>2. \E x : stage' = [stage EXCEPT ![c] = x]
    BY DEF Dial, Finish, Told, Pick, Resolve
  <2> QED
    BY <2>1, <2>2 DEF TypeOK
<1>4. CASE \/ Start(c) /\ Dial(c, Command[c].version)
           \/ Redial(c) /\ \E v \in chosen[c] : Dial(c, v)
  <2>1. PICK v \in Version : Dial(c, v)
    BY <1>1, <1>4 DEF TypeOK
  <2> DEFINE k == [from |-> c, dial |-> dials[c] + 1, request |-> "pending",
                   version |-> v]
  <2>2. /\ serving' = serving /\ dials'[c] = dials[c] + 1
        /\ queue' = [queue EXCEPT ![h] = Append(@, k)]
    BY <2>1, <1>4 DEF Dial, TypeOK
  <2>3. fresh(k)
    BY <2>2, <1>3
  <2>4. ASSUME NEW j \in Connection, Fresh(j) PROVE fresh(j)
    BY <2>2, <2>4, <1>3 DEF Fresh, Connection
  <2>5. \A i \in Server : \A n \in DOMAIN queue'[i] : fresh(queue'[i][n])
    <3>1. \A n \in DOMAIN queue'[h] :
             \/ n \in DOMAIN queue[h] /\ queue'[h][n] = queue[h][n]
             \/ queue'[h][n] = k
      BY <1>1, <2>2 DEF TypeOK
    <3>2. \A i \in Server : i # h => queue'[i] = queue[i]
      BY <2>2 DEF TypeOK
    <3>3. \A i \in Server : \A n \in DOMAIN queue[i] : queue[i][n] \in Connection
      BY DEF TypeOK
    <3> QED
      BY <3>1, <3>2, <3>3, <2>3, <2>4 DEF Ledger, AllFresh
  <2>6. \A i \in Server : serving[i] # Nobody => fresh(serving[i])
    BY <2>4 DEF Ledger, AllFresh, TypeOK
  <2>7. AllFresh'
    BY <2>2, <2>5, <2>6 DEF AllFresh, Fresh
  <2> QED
    BY <1>2, <2>2, <2>7 DEF Ledger, Acknowledged, Fits, Kept, Writing, Written,
       Now, Conn
<1>5. CASE Send(c)
  <2>1. /\ dials' = dials /\ stage'[c] = "sent" /\ stage[c] = "linked"
        /\ serving' = [serving EXCEPT ![h] = Heard(c, @)]
        /\ queue' = [queue EXCEPT ![h] = [n \in DOMAIN @ |-> Heard(c, @[n])]]
    BY <1>5 DEF TypeOK
  <2>2. ASSUME NEW j \in Connection, Fresh(j)
        PROVE  fresh(j) /\ fresh(Heard(c, j))
    <3>1. fresh(j)
      BY <2>1, <2>2, <1>3 DEF Fresh, Connection
    <3>2. j.from = c => stage'[j.from] # "linked"
      BY <2>1
    <3>3. /\ Heard(c, j).from = j.from /\ Heard(c, j).dial = j.dial
          /\ j.from # c => Heard(c, j) = j
      BY HeardTyped DEF Mine
    <3> QED
      BY <3>1, <3>2, <3>3
  <2>3. \A i \in Server : \A n \in DOMAIN queue'[i] : fresh(queue'[i][n])
    <3>1. \A i \in Server : /\ DOMAIN queue'[i] = DOMAIN queue[i]
                            /\ \A n \in DOMAIN queue[i] :
                                 \/ queue'[i][n] = queue[i][n]
                                 \/ queue'[i][n] = Heard(c, queue[i][n])
      BY <1>1, <2>1 DEF TypeOK
    <3>2. \A i \in Server : \A n \in DOMAIN queue[i] : queue[i][n] \in Connection
      BY DEF TypeOK
    <3> QED
      BY <3>1, <3>2, <2>2 DEF Ledger, AllFresh
  <2>4. ASSUME NEW i \in Server
        PROVE  /\ serving'[i] # Nobody => fresh(serving'[i])
               /\ phase[i] \notin {"down", "accept", "recv"} => serving'[i] = serving[i]
    <3>1. serving'[i] = serving[i] \/ serving'[i] = Heard(c, serving[i])
      BY <1>1, <2>1 DEF TypeOK
    <3>2. CASE serving[i] = Nobody
      BY <3>1, <3>2 DEF Heard, TypeOK
    <3>3. CASE serving[i] # Nobody
      <4>1. serving[i] \in Connection /\ Fresh(serving[i])
        BY <3>3 DEF TypeOK, Ledger, AllFresh
      <4>2. Conn(i).request # "pending" => serving'[i] = serving[i]
        BY <4>1, <3>1, <2>1 DEF Conn, Fresh, Heard, Mine
      <4> QED
        BY <4>1, <4>2, <3>1, <2>2 DEF Ledger, Fits
    <3> QED
      BY <3>2, <3>3
  <2>5. \A i \in Server : Fits(i)' /\ Kept(i)'
    <3> SUFFICES ASSUME NEW i \in Server PROVE Fits(i)' /\ Kept(i)'
      OBVIOUS
    <3>1. CASE phase[i] \in {"down", "accept", "recv"}
      BY <3>1, <1>2 DEF Fits, Kept, Writing, Written
    <3>2. CASE serving'[i] = serving[i]
      BY <3>2, <1>2 DEF Ledger, Fits, Kept, Writing, Written, Now, Conn
    <3> QED
      BY <3>1, <3>2, <2>4
  <2> QED
    BY <1>2, <2>3, <2>4, <2>5 DEF Ledger, AllFresh, Fresh, Acknowledged
<1>6. CASE UNCHANGED <<queue, serving, dials>> /\ stage'[c] # "linked"
  <2>1. ASSUME NEW j \in Connection, Fresh(j) PROVE fresh(j)
    BY <2>1, <1>3, <1>6 DEF Fresh, Connection
  <2>2. \A i \in Server : \A n \in DOMAIN queue[i] : queue[i][n] \in Connection
    BY DEF TypeOK
  <2>3. AllFresh'
    BY <2>1, <2>2, <1>6 DEF Ledger, AllFresh, Fresh, TypeOK
  <2> QED
    BY <1>2, <1>6, <2>3 DEF Ledger, Acknowledged, Fits, Kept, Writing, Written,
       Now, Conn
<1>7. \/ Start(c) /\ Dial(c, Command[c].version)
      \/ Redial(c) /\ \E v \in chosen[c] : Dial(c, v)
      \/ Send(c)
      \/ UNCHANGED <<queue, serving, dials>> /\ stage'[c] # "linked"
  BY DEF TypeOK, Finish, Told, Pick, Resolve
<1> QED
  BY <1>4, <1>5, <1>6, <1>7

LEMMA InitLedger == Init => Ledger
  BY DEF Init, Ledger, AllFresh, Acknowledged, Fits, Kept, Writing, Written, None

LEMMA LedgerAlways ==
    ASSUME OneServer
    PROVE  Spec => []Ledger
<1>1. TypeOK /\ Ledger /\ [Next]_vars => Ledger'
  <2> SUFFICES ASSUME TypeOK, Ledger, [Next]_vars PROVE Ledger'
    OBVIOUS
  <2>1. CASE Next
    BY <2>1, Steps, ServerLedger, ClientLedger
  <2>2. CASE UNCHANGED vars
    BY <2>2 DEF vars, disk, servers, clients, history, Ledger, AllFresh, Fresh,
       Acknowledged, Fits, Kept, Writing, Written, Now, Conn
  <2> QED
    BY <2>1, <2>2
<1> QED
  BY <1>1, InitLedger, TypeCorrect, PTL DEF Spec

\* With one server a version is acknowledged to one publisher at most, whose
\* source its file holds.
THEOREM OneServerAcknowledged ==
    ASSUME OneServer
    PROVE  Spec => []Acknowledged
<1>1. Ledger => Acknowledged
  BY DEF Ledger
<1> QED
  BY <1>1, LedgerAlways, PTL

-----------------------------------------------------------------------------
(* The index and the files.                                                  *)

\* With one server the two fall out of step only while it writes them, or
\* where a fault struck.
LEMMA ServerCatalogue ==
    ASSUME OneServer, TypeOK, Ledger, Catalogue, NEW s \in Server, ServerStep(s)
    PROVE  Catalogue'
<1> DEFINE a == Now(s)
           mine == Command[Conn(s).from].source
<1>1. \A i \in Server : i = s
  BY DEF OneServer
<1>2. phase[s] \notin {"down", "accept"}
        => a \in Version /\ mine \in Source
  BY Commands DEF TypeOK, Conn, Now, Connection
<1>3. Fits(s) /\ Agrees(s)
  BY DEF Ledger, Catalogue
<1>4. Absent \notin Source /\ Torn \notin Source
  BY RegistryAssumption
<1> USE DEF ServerStep, Serve, Accept, Receive, HangUp, Reply, Exists,
            OpenVersion, WriteVersion, RemoveVersion, ReadIndex, OpenIndex,
            WriteIndex, Kill, Restart, disk, servers, clients, history
<1> SUFFICES Agrees(s)'
  BY <1>1 DEF Catalogue
<1>5. CASE \/ Accept(s) \/ Receive(s) \/ HangUp(s) \/ Reply(s) \/ Exists(s)
           \/ Restart(s)
  <2>1. UNCHANGED <<file, index, disturbed>> /\ ~Updating(s) /\ ~Updating(s)'
    BY <1>5 DEF TypeOK, Goto, Say, Stop, Updating
  <2>2. phase'[s] \notin {"openidx", "writeidx"}
    BY <2>1 DEF Updating
  <2>3. Writing(s)' => file[a] = Absent /\ Now(s)' = a
    BY <1>5 DEF TypeOK, Goto, Say, Stop, Writing, Now, Conn
  <2>4. Settled'
    BY <2>1, <1>3 DEF Agrees, Settled
  <2> QED
    BY <2>1, <2>2, <2>3, <2>4, <1>4 DEF Agrees
<1>6. CASE OpenVersion(s)
  <2>1. /\ phase[s] = "openver" /\ a \in Version /\ Conn(s).request = "publish"
        /\ index' = index /\ Conn(s)' = Conn(s) /\ Now(s)' = a
        /\ Settled /\ file[a] \notin Source
    BY <1>6, <1>2, <1>3 DEF Agrees, Updating, Writing, Fits, Now, Conn
  <2>2. CASE phase'[s] = "writever"
    <3>1. file' = [file EXCEPT ![a] = Torn] /\ disturbed' = disturbed
      BY <2>2, <1>6 DEF TypeOK, Goto
    <3>2. file'[a] = Torn /\ \A v \in Version : v # a => file'[v] = file[v]
      BY <2>1, <3>1 DEF TypeOK
    <3>3. Settled'
      BY <2>1, <3>1, <3>2, <1>4 DEF Settled
    <3>4. ~Updating(s)' /\ phase'[s] \notin {"openidx", "writeidx"}
      BY <2>2 DEF Updating
    <3> QED
      BY <2>1, <3>2, <3>3, <3>4, <1>4 DEF Agrees
  <2>3. CASE phase'[s] = "readidx"
    <3>1. file' = file /\ disturbed' = disturbed \cup {a}
      BY <2>3, <1>6 DEF TypeOK, Goto
    <3>2. Halfway(s)' /\ Coming(s)'
      BY <2>1, <2>3, <3>1 DEF Settled, Halfway, Known, Coming
    <3>3. Updating(s)' /\ ~Writing(s)'
      BY <2>3 DEF Updating, Writing
    <3> QED
      BY <2>3, <3>2, <3>3 DEF Agrees
  <2> QED
    BY <1>6, <2>2, <2>3 DEF TypeOK, Goto
<1>7. CASE WriteVersion(s)
  <2>1. /\ a \in Version /\ mine \in Source /\ Conn(s).request = "publish"
        /\ index' = index /\ Conn(s)' = Conn(s) /\ Now(s)' = a
        /\ phase'[s] = "readidx" /\ Settled
    BY <1>7, <1>2, <1>3 DEF Agrees, Updating, Fits, TypeOK, Goto, Now, Conn
  <2>2. \/ file' = [file EXCEPT ![a] = mine] /\ disturbed' = disturbed
        \/ file' = file /\ disturbed' = disturbed \cup {a}
    BY <1>7
  <2>3. /\ \A v \in Version : v # a => file'[v] = file[v]
        /\ file'[a] \in Source \/ a \in disturbed'
        /\ disturbed \subseteq disturbed'
    BY <2>1, <2>2 DEF TypeOK
  <2>4. Halfway(s)' /\ Coming(s)'
    BY <2>1, <2>3 DEF Settled, Halfway, Known, Coming
  <2>5. Updating(s)' /\ ~Writing(s)'
    BY <2>1 DEF Updating, Writing
  <2> QED
    BY <2>1, <2>4, <2>5 DEF Agrees
<1>8. CASE RemoveVersion(s)
  <2>1. /\ a \in Version /\ Conn(s).request = "yank"
        /\ Conn(s)' = Conn(s) /\ Now(s)' = a
        /\ UNCHANGED <<index, disturbed>> /\ phase'[s] = "readidx" /\ Settled
        /\ file' = [file EXCEPT ![a] = Absent]
    BY <1>8, <1>2, <1>3 DEF Agrees, Updating, Fits, TypeOK, Goto, Now, Conn
  <2>2. file'[a] = Absent /\ \A v \in Version : v # a => file'[v] = file[v]
    BY <2>1 DEF TypeOK
  <2>3. Halfway(s)' /\ Coming(s)'
    BY <2>1, <2>2 DEF Settled, Halfway, Known, Coming
  <2>4. Updating(s)' /\ ~Writing(s)'
    BY <2>1 DEF Updating, Writing
  <2> QED
    BY <2>1, <2>3, <2>4 DEF Agrees
<1>9. CASE ReadIndex(s) \/ OpenIndex(s) \/ WriteIndex(s)
  <2>1. /\ a \in Version /\ file' = file /\ Conn(s)' = Conn(s) /\ Now(s)' = a
        /\ Conn(s).request \in {"publish", "yank"}
        /\ Halfway(s) /\ Coming(s)
    BY <1>9, <1>2, <1>3 DEF Agrees, Updating, Fits, Now, Conn
  <2>2. CASE phase'[s] \in {"openidx", "writeidx"}
    <3>1. disturbed' = disturbed /\ Known(s)' = Known(s)
      BY <2>2, <1>9, <1>3 DEF TypeOK, Goto, Say, Ends, Known, Agrees
    <3>2. Halfway(s)' /\ Coming(s)'
      BY <2>1, <3>1 DEF Halfway, Coming
    <3>3. /\ phase'[s] = "openidx" => held'[s] = index'
          /\ phase'[s] = "writeidx" => index' = {}
      BY <2>2, <1>9 DEF TypeOK, Goto, Say, Ends
    <3>4. Updating(s)' /\ ~Writing(s)'
      BY <2>2 DEF Updating, Writing
    <3> QED
      BY <3>2, <3>3, <3>4 DEF Agrees
  <2>3. CASE phase'[s] = "reply"
    <3>1. ASSUME ReadIndex(s) PROVE Settled'
      <4>1. /\ Conn(s).request = "yank" /\ index = {} /\ index' = {}
            /\ disturbed' = disturbed \ {a} /\ Known(s) = index
        BY <3>1, <2>3, <2>1 DEF TypeOK, Goto, Say, Ends, Known
      <4> QED
        BY <4>1, <2>1, <1>4 DEF Settled, Halfway, Coming
    <3>2. ASSUME OpenIndex(s) PROVE Settled'
      <4>1. index' = index /\ disturbed' = disturbed \cup {a} /\ Known(s) = index
        BY <3>2, <2>3 DEF TypeOK, Goto, Say, Known
      <4> QED
        BY <4>1, <2>1 DEF Settled, Halfway
    <3>3. ASSUME WriteIndex(s) PROVE Settled'
      <4>1. Known(s) = held[s] /\ index = {}
        BY <3>3, <1>3 DEF Agrees, Known
      <4>2. CASE index' = index /\ disturbed' = disturbed \cup held[s] \cup {a}
        BY <4>1, <4>2, <2>1 DEF Settled, Halfway
      <4>3. CASE /\ index' = Revised(s)
                 /\ disturbed' = IF Conn(s).request = "publish" THEN disturbed
                                 ELSE disturbed \ {a}
        <5>1. CASE Conn(s).request = "publish"
          BY <5>1, <4>1, <4>3, <2>1 DEF Settled, Halfway, Coming, Revised
        <5>2. CASE Conn(s).request = "yank"
          BY <5>2, <4>1, <4>3, <2>1, <1>4 DEF Settled, Halfway, Coming, Revised
        <5> QED
          BY <2>1, <5>1, <5>2
      <4> QED
        BY <3>3, <4>2, <4>3 DEF Ends
    <3>4. ~Updating(s)' /\ ~Writing(s)' /\ phase'[s] \notin {"openidx", "writeidx"}
      BY <2>3 DEF Updating, Writing
    <3> QED
      BY <1>9, <3>1, <3>2, <3>3, <3>4 DEF Agrees
  <2> QED
    BY <1>9, <2>2, <2>3 DEF TypeOK, Goto, Say, Ends
<1>10. CASE Kill(s)
  <2>1. /\ UNCHANGED <<file, index>> /\ phase'[s] = "down"
        /\ disturbed' = disturbed \cup Struck(s)
    BY <1>10 DEF TypeOK, Goto, Stop
  <2>2. ~Updating(s) => Settled'
    BY <2>1, <1>3 DEF Agrees, Settled
  <2>3. ASSUME Updating(s) PROVE Settled'
    <3>1. a \in Struck(s) /\ (phase[s] = "writeidx" => held[s] \subseteq Struck(s))
      BY <2>3 DEF Updating, Struck
    <3>2. Halfway(s) /\ (phase[s] = "writeidx" => index = {})
      BY <2>3, <1>3 DEF Agrees
    <3> QED
      BY <2>1, <3>1, <3>2 DEF Settled, Halfway, Known
  <2>4. ~Updating(s)' /\ ~Writing(s)' /\ phase'[s] \notin {"openidx", "writeidx"}
    BY <2>1 DEF Updating, Writing
  <2> QED
    BY <2>2, <2>3, <2>4 DEF Agrees
<1> QED
  BY <1>5, <1>6, <1>7, <1>8, <1>9, <1>10

LEMMA ClientCatalogue ==
    ASSUME TypeOK, Ledger, Catalogue, NEW c \in Client, ClientStep(c)
    PROVE  Catalogue'
<1>1. UNCHANGED <<file, index, phase, held, disturbed>>
  BY DEF ClientStep, Start, Run, Redial, Send, Reset, Hear, Interrupt, disk,
         servers, clients, history
<1>2. \A s \in Server : Writing(s) \/ Updating(s) => serving'[s] = serving[s]
  BY ClientLedger DEF Writing, Updating
<1> QED
  BY <1>1, <1>2 DEF Catalogue, Agrees, Settled, Halfway, Known, Coming, Writing,
     Updating, Now, Conn

LEMMA CatalogueKept ==
    ASSUME OneServer, TypeOK, Ledger, Catalogue, [Next]_vars
    PROVE  Catalogue'
<1>1. CASE Next
  BY <1>1, Steps, ServerCatalogue, ClientCatalogue
<1>2. CASE UNCHANGED vars
  BY <1>2 DEF vars, disk, servers, clients, history, Catalogue, Agrees, Settled,
     Halfway, Known, Coming, Writing, Updating, Now, Conn
<1> QED
  BY <1>1, <1>2

LEMMA InitCatalogue == Init => Catalogue
  BY RegistryAssumption DEF Init, Catalogue, Agrees, Settled,
     Halfway, Known, Coming, Writing, Updating

\* With one server the index lists the versions whose files are there whenever
\* no request is being handled, but where a fault struck.
THEOREM OneServerAgrees ==
    ASSUME OneServer
    PROVE  Spec => []Agree
<1>1. Catalogue => Agree
  BY DEF Catalogue, Agrees, Updating, Settled, Agree, OneServer
<1> QED
  BY <1>1, InitCatalogue, CatalogueKept, LedgerAlways, TypeCorrect, PTL DEF Spec

-----------------------------------------------------------------------------
(* What an installer gets.                                                   *)

\* A server's step gives a client nothing more to count on, and a list it makes
\* has what the client counts on.
LEMMA ServerSurvey ==
    ASSUME OneServer, TypeOK, Ledger, Catalogue, Survey,
           NEW s \in Server, ServerStep(s)
    PROVE  Survey'
<1> DEFINE a == Now(s)
<1>1. \A i \in Server : i = s
  BY DEF OneServer
<1>2. phase[s] \notin {"down", "accept"}
        => a \in Version /\ Conn(s).from \in Client /\ Conn(s) \in Connection
  BY DEF TypeOK, Conn, Now, Connection
<1>3. Fits(s) /\ Agrees(s) /\ TakenBack(s) /\ lost \subseteq disturbed
  BY DEF Ledger, Catalogue, Survey
<1> USE DEF ServerStep, Serve, Accept, Receive, HangUp, Reply, Exists,
            OpenVersion, WriteVersion, RemoveVersion, ReadIndex, OpenIndex,
            WriteIndex, Kill, Restart, disk, servers, clients, history
<1>4. UNCHANGED <<stage, dials, chosen>>
  OBVIOUS
<1>5. /\ disturbed \ {a} \subseteq disturbed'
      /\ disturbed \subseteq disturbed' \/ (a \in Version /\ acks[a] = {} /\ a \notin lost)
  BY <1>2, <1>3 DEF Ends, TakenBack, Updating, Fits
<1>6. lost' \subseteq disturbed'
  <2>1. \/ lost' \subseteq lost
        \/ lost' = lost \cup {a} /\ disturbed' = disturbed \cup {a}
    OBVIOUS
  <2> QED
    BY <2>1, <1>3, <1>5
<1>7. TakenBack(s)'
  <2>1. CASE RemoveVersion(s)
    BY <2>1, <1>2 DEF TypeOK, TakenBack, Now, Conn
  <2>2. CASE OpenVersion(s) \/ WriteVersion(s)
    BY <2>2, <1>3 DEF TypeOK, TakenBack, Fits, Conn
  <2>3. CASE ReadIndex(s) \/ OpenIndex(s) \/ WriteIndex(s)
    <3>1. UNCHANGED <<serving, acks, lost>> /\ Updating(s)
      BY <2>3 DEF Updating
    <3> QED
      BY ONLY <3>1, <1>3 DEF TakenBack, Now, Conn
  <2>4. CASE \/ Accept(s) \/ Receive(s) \/ HangUp(s) \/ Reply(s) \/ Exists(s)
             \/ Kill(s) \/ Restart(s)
    BY <2>4 DEF TypeOK, Goto, Say, Stop, TakenBack, Updating
  <2> QED
    BY <2>1, <2>2, <2>3, <2>4
<1>8. ASSUME NEW c \in Client PROVE Informed(c)'
  <2>1. Informed(c) /\ stable[c] \subseteq Version
    BY DEF Survey, TypeOK
  <2>2. /\ stable'[c] \subseteq stable[c]
        /\ \A v \in stable'[c] : acks'[v] # {}
    <3>1. CASE RemoveVersion(s)
      <4>1. /\ a \in Version /\ stable'[c] = stable[c] \ {a}
            /\ \A v \in Version : v # a => acks'[v] = acks[v]
        BY <3>1, <1>2 DEF TypeOK
      <4> QED
        BY <4>1, <2>1 DEF Informed
    <3>2. CASE Reply(s)
      <4>1. stable' = stable /\ \A v \in Version : acks[v] \subseteq acks'[v]
        BY <3>2 DEF TypeOK
      <4> QED
        BY <4>1, <2>1 DEF Informed
    <3>3. ~RemoveVersion(s) /\ ~Reply(s) => UNCHANGED <<stable, acks>>
      OBVIOUS
    <3> QED
      BY <3>1, <3>2, <3>3, <2>1 DEF Informed
  <2>3. Sure(c)' \subseteq Sure(c)
    BY <1>5, <2>1, <2>2 DEF Sure, Informed
  <2>4. Awaits(c, s)' /\ answer'[s].code = "listing" => Sure(c) \subseteq answer'[s].list
    <3> SUFFICES ASSUME phase'[s] = "reply", answer'[s].code = "listing"
                 PROVE  Sure(c) \subseteq answer'[s].list
      BY DEF Awaits
    <3>1. CASE Receive(s)
      <4>1. Settled /\ Acknowledged
        BY <3>1, <1>3 DEF Agrees, Updating, Ledger
      <4>2. \/ answer'[s] = [Code("listing") EXCEPT !.list = index]
            \/ answer'[s] = Code("missing")
            \/ answer'[s] = [Code("found") EXCEPT !.source = file[a]]
        BY <3>1 DEF TypeOK, Goto, Say
      <4>3. answer'[s].list = index
        BY <4>2 DEF Code, None
      <4>4. ASSUME NEW v \in Sure(c) PROVE v \in index
        <5>1. v \in Version \ disturbed /\ v \notin lost /\ acks[v] # {}
          BY <4>4, <2>1, <1>3 DEF Sure, Informed
        <5>2. PICK b \in acks[v] : file[v] = Command[b[1]].source
          BY <5>1, <4>1 DEF Acknowledged
        <5>3. b[1] \in Client
          BY <5>1, <5>2 DEF TypeOK
        <5> QED
          BY <5>1, <5>2, <5>3, <4>1, Commands DEF Settled
      <4> QED
        BY <4>3, <4>4
    <3>2. CASE Exists(s) \/ ReadIndex(s) \/ OpenIndex(s) \/ WriteIndex(s)
      BY <3>2 DEF TypeOK, Goto, Say, Ends, Code, None
    <3>3. \/ Receive(s) \/ Exists(s) \/ ReadIndex(s) \/ OpenIndex(s) \/ WriteIndex(s)
      BY DEF TypeOK, Goto, Say, Stop
    <3> QED
      BY <3>1, <3>2, <3>3
  <2>5. /\ reply'[c] # None => stage'[c] = "sent"
        /\ reply'[c].code = "listing" => Sure(c) \subseteq reply'[c].list
    <3>1. CASE reply'[c] = reply[c]
      BY <3>1, <1>4, <2>1 DEF Informed
    <3>2. CASE reply'[c] # reply[c]
      <4>1. Reply(s) /\ c = Conn(s).from /\ stage[c] = "sent" /\ Mine(c, Conn(s))
            /\ reply'[c] = answer[s]
        BY <3>2, <1>2 DEF TypeOK, Mine
      <4>2. Awaits(c, s)
        BY <4>1 DEF Awaits
      <4> QED
        BY <4>1, <4>2, <1>4, <2>1 DEF Informed
    <3> QED
      BY <3>1, <3>2
  <2> QED
    BY <1>1, <1>4, <2>1, <2>2, <2>3, <2>4, <2>5 DEF Informed
<1> QED
  BY <1>1, <1>6, <1>7, <1>8 DEF Survey

\* A client counts on what was acknowledged when it started, picks the best of
\* the list it got, and forgets both when it starts again.
LEMMA ClientSurvey ==
    ASSUME TypeOK, Ledger, Survey, NEW c \in Client, ClientStep(c)
    PROVE  Survey'
<1>1. \A s \in Server : phase[s] \notin {"down", "accept", "recv"}
                          => serving'[s] = serving[s]
  BY ClientLedger
<1> USE DEF ClientStep, Start, Run, Redial, Send, Reset, Hear, Interrupt, disk,
            servers, clients, history
<1>2. UNCHANGED <<phase, answer, acks, disturbed, lost>>
  OBVIOUS
<1>3. \A s \in Server : TakenBack(s)'
  BY <1>1, <1>2 DEF Survey, TakenBack, Updating, Now, Conn
<1>4. ASSUME NEW d \in Client, d # c PROVE Informed(d)'
  <2>1. /\ stage'[d] = stage[d] /\ dials'[d] = dials[d] /\ reply'[d] = reply[d]
        /\ chosen'[d] = chosen[d] /\ stable'[d] = stable[d]
    <3>1. dials'[d] = dials[d]
      BY <1>4 DEF Dial, TypeOK
    <3>2. stage'[d] = stage[d]
      BY <1>4 DEF Dial, Finish, Told, Pick, Resolve, TypeOK
    <3>3. reply'[d] = reply[d] /\ stable'[d] = stable[d]
      BY <1>4 DEF TypeOK
    <3>4. chosen'[d] = chosen[d]
      BY <1>4 DEF Told, Pick, Resolve, TypeOK
    <3> QED
      BY <3>1, <3>2, <3>3, <3>4
  <2>2. \A s \in Server : Awaits(d, s)' => Awaits(d, s)
    BY <1>1, <1>2, <2>1 DEF Awaits, Mine, Conn
  <2> QED
    BY <1>2, <2>1, <2>2 DEF Survey, Informed, Sure
<1>5. Informed(c)
  BY DEF Survey
<1> SUFFICES Informed(c)'
  BY <1>2, <1>3, <1>4 DEF Survey
<1>6. CASE Start(c)
  <2>1. /\ stage'[c] # "sent" /\ stage[c] # "sent" /\ reply' = reply
        /\ chosen'[c] = {} /\ stable'[c] = {v \in Version : acks[v] # {}}
    BY <1>6 DEF TypeOK, Dial, Finish
  <2> QED
    BY <1>2, <1>5, <2>1 DEF Informed, Awaits, None
<1>7. CASE Redial(c) \/ Send(c) \/ Reset(c) \/ Interrupt(c)
  <2>1. /\ stable' = stable /\ chosen' = chosen
        /\ reply'[c] = None \/ (reply' = reply /\ stage[c] # "sent")
    BY <1>7 DEF TypeOK
  <2>2. reply'[c] = None
    BY <2>1, <1>5 DEF Informed
  <2>3. \A s \in Server : ~Awaits(c, s)'
    <3>1. CASE Send(c)
      <4> SUFFICES ASSUME NEW s \in Server, phase[s] = "reply", Mine(c, Conn(s))'
                   PROVE  FALSE
        BY <1>2 DEF Awaits
      <4>1. Mine(c, Conn(s)) /\ Conn(s).request # "pending" /\ serving[s] # Nobody
        BY <1>1, <3>1 DEF Mine, Conn, Ledger, Fits, TypeOK
      <4> QED
        BY <4>1, <3>1 DEF Ledger, AllFresh, Fresh, Mine, Conn
    <3>2. CASE ~Send(c)
      BY <3>2, <1>7 DEF TypeOK, Awaits, Dial, Finish
    <3> QED
      BY <3>1, <3>2
  <2> QED
    BY <1>2, <1>5, <2>1, <2>2, <2>3 DEF Informed, Sure, None
<1>8. CASE Hear(c)
  <2>1. stable' = stable /\ reply'[c] = None /\ stage'[c] # "sent"
    BY <1>8 DEF TypeOK, Told, Pick, Resolve, Finish
  <2>2. ASSUME NEW v \in chosen'[c]
        PROVE  /\ Satisfies(v, Command[c].wanted)
               /\ \A w \in Sure(c) : Satisfies(w, Command[c].wanted)
                                       => Encode(w) <= Encode(v)
    <3>1. CASE chosen' = chosen
      BY <3>1, <2>2, <1>5 DEF Informed
    <3>2. CASE reply[c].code = "listing" /\ v \in Best(c)
      BY <3>2, <1>5 DEF Informed, Best, Candidates
    <3>3. chosen' = chosen \/ (reply[c].code = "listing" /\ v \in Best(c))
      BY <1>8, <2>2 DEF TypeOK, Told, Pick, Resolve
    <3> QED
      BY <3>1, <3>2, <3>3
  <2> QED
    BY <1>2, <1>5, <2>1, <2>2 DEF Informed, Awaits, Sure, None
<1> QED
  BY <1>6, <1>7, <1>8

LEMMA SurveyKept ==
    ASSUME OneServer, TypeOK, Ledger, Catalogue, Survey, [Next]_vars
    PROVE  Survey'
<1>1. CASE Next
  BY <1>1, Steps, ServerSurvey, ClientSurvey
<1>2. CASE UNCHANGED vars
  BY <1>2 DEF vars, disk, servers, clients, history, Survey, TakenBack, Informed,
     Sure, Awaits, Updating, Now, Conn, Mine
<1> QED
  BY <1>1, <1>2

LEMMA InitSurvey == Init => Survey
  BY DEF Init, Survey, TakenBack, Informed, Sure, Awaits, Updating, None

\* The parts of the versions, and of those in constraints, fit mf_semver's radix.
SmallNumbers ==
    /\ \A v \in Version : Plain(v)
    /\ \A c \in Client : \A k \in Command[c].wanted : Plain(k.at)

\* With one server and such numbers an installer gets the highest version that
\* its constraint admits of those that stood acknowledged while it ran.
THEOREM OneServerHighest ==
    ASSUME OneServer, SmallNumbers
    PROVE  Spec => []Highest
<1>1. ASSUME TypeOK, Survey PROVE Highest
  <2> SUFFICES ASSUME NEW c \in Client, NEW v \in chosen[c]
               PROVE  /\ Meets(v, Command[c].wanted)
                      /\ \A w \in Sure(c) : Meets(w, Command[c].wanted) => ~Precedes(v, w)
    BY DEF Highest, Sure
  <2>1. /\ v \in Version /\ v \in Versions /\ Plain(v)
        /\ Satisfies(v, Command[c].wanted)
    BY <1>1, RegistryAssumption DEF TypeOK, Survey, Informed, SmallNumbers
  <2>2. /\ Command[c].wanted \in SUBSET Clause
        /\ \A k \in Command[c].wanted : Plain(k.at)
    BY RegistryAssumption DEF SmallNumbers
  <2>3. Meets(v, Command[c].wanted)
    BY <2>1, <2>2, ConstraintKept
  <2>4. ASSUME NEW w \in Sure(c), Meets(w, Command[c].wanted)
        PROVE  ~Precedes(v, w)
    <3>1. w \in Versions /\ Plain(w)
      BY <1>1, RegistryAssumption DEF TypeOK, Sure, SmallNumbers
    <3>2. Satisfies(w, Command[c].wanted)
      BY <3>1, <2>2, <2>4, ConstraintKept
    <3>3. Encode(w) <= Encode(v)
      BY <3>2, <1>1 DEF Survey, Informed
    <3> QED
      BY <3>1, <3>3, <2>1, OrderKept, EncodeTyped
  <2> QED
    BY <2>3, <2>4
<1> QED
  BY <1>1, InitSurvey, SurveyKept, InitCatalogue, CatalogueKept, LedgerAlways,
     TypeCorrect, PTL DEF Spec
=============================================================================
