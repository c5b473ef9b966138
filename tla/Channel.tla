------------------------------ MODULE Channel ------------------------------
(***************************************************************************)
(* The thread-safe channel of the emitted C runtime (TiqChan and the       *)
(* tiq_chan_* helpers of include/runtime_aux.h): a ring of cap slots behind *)
(* one mutex and two condition variables.  Each thread runs one call at a   *)
(* time; between two steps of a call any other thread may run.              *)
(*                                                                          *)
(* A condition wait releases the mutex and joins the wait set in one step;  *)
(* a waiter leaves the set when it is signalled, on a broadcast, or for no  *)
(* reason at all, and then competes for the mutex with everybody else.      *)
(***************************************************************************)
EXTENDS Integers, Sequences, FiniteSets

CONSTANTS Thread,    \* the threads that share the handle
          NoThread,  \* owner of the free mutex
          Value,     \* payloads, a subset of the i64 values
          Garbage,   \* what a slot of a fresh malloc'ed ring holds
          CapArg,    \* the arguments chan_new is called with
          NoArg,     \* payload of a call that has none, and of no call
          MaxSends   \* bound: values sent over the life of one channel

ASSUME ChannelAssumption ==
  /\ NoThread \notin Thread /\ IsFiniteSet(Thread)
  /\ Value \subseteq Int /\ Value # {}
  /\ Garbage \notin Int /\ NoArg \notin Int
  /\ CapArg \subseteq Int
  /\ MaxSends \in Nat

VARIABLES chan,      \* what the handle denotes: "null", "live" or "freed"
          cap, buf, head, tail, count, closed,   \* struct TiqChan
          mtx,                                   \* its mutex: the owner
          notEmpty, notFull,                     \* its two wait sets
          pc, op, arg, ret,                      \* the call of each thread
          sent, rcvd         \* history: values enqueued, values dequeued

ring == <<cap, buf, head, tail, count>>
conds == <<notEmpty, notFull>>
call == <<op, arg>>
hist == <<sent, rcvd>>
vars == <<chan, ring, closed, mtx, conds, pc, call, ret, hist>>

LockedOp == {"send", "recv", "try", "close", "len"}
Taking == {"recv", "try"}
Busy == {"lock", "test", "wait", "relock"}   \* the call has not taken effect

EmptyRing(c) == /\ cap' = c /\ buf' = [i \in 0..(c - 1) |-> Garbage]
                /\ head' = 0 /\ tail' = 0 /\ count' = 0

Init == /\ chan = "null"
        /\ cap = 1 /\ buf = [i \in 0..0 |-> Garbage]
        /\ head = 0 /\ tail = 0 /\ count = 0 /\ closed = FALSE
        /\ mtx = NoThread /\ notEmpty = {} /\ notFull = {}
        /\ pc = [t \in Thread |-> "idle"]
        /\ op = [t \in Thread |-> "none"]
        /\ arg = [t \in Thread |-> NoArg]
        /\ ret = [t \in Thread |-> 0]
        /\ sent = <<>> /\ rcvd = <<>>

Goto(t, l) == pc' = [pc EXCEPT ![t] = l]
Result(t, r) == ret' = [ret EXCEPT ![t] = r]

-----------------------------------------------------------------------------
(* Creation, destruction, and the calls                                     *)

New(t) == /\ pc[t] = "idle" /\ chan # "live"
          /\ \E c \in CapArg : EmptyRing(IF c <= 0 THEN 1 ELSE c)
          /\ chan' = "live" /\ closed' = FALSE
          /\ mtx' = NoThread /\ notEmpty' = {} /\ notFull' = {}
          /\ sent' = <<>> /\ rcvd' = <<>>
          /\ UNCHANGED <<pc, call, ret>>

\* Either malloc of chan_new fails: the handle is 0.
NewFails(t) == /\ pc[t] = "idle" /\ chan # "live"
               /\ chan' = "null"
               /\ UNCHANGED <<ring, closed, mtx, conds, pc, call, ret, hist>>

\* Sends that were called and have not enqueued yet count against the bound.
SendsUnderWay == Cardinality({u \in Thread :
                   op[u] = "send" /\ pc[u] \in Busy})

Call(t, o, v) == /\ pc[t] = "idle" /\ chan = "live"
                 /\ IF o = "send"
                      THEN v \in Value /\ Len(sent) + SendsUnderWay < MaxSends
                      ELSE v = NoArg
                 /\ op' = [op EXCEPT ![t] = o]
                 /\ arg' = [arg EXCEPT ![t] = v]
                 /\ Goto(t, "lock")
                 /\ UNCHANGED <<chan, ring, closed, mtx, conds, ret, hist>>

\* The early return of every helper on handle 0.
NullCall(t) == /\ pc[t] = "idle" /\ chan = "null"
               /\ \E o \in LockedOp \cup {"cap", "free"} :
                    /\ op' = [op EXCEPT ![t] = o]
                    /\ Result(t, IF o \in {"send", "close", "free"} THEN -1 ELSE 0)
               /\ Goto(t, "return")
               /\ UNCHANGED <<chan, ring, closed, mtx, conds, arg, hist>>

\* chan_cap is the one operation that takes no lock.
CapCall(t) == /\ pc[t] = "idle" /\ chan = "live"
              /\ op' = [op EXCEPT ![t] = "cap"]
              /\ Result(t, cap)
              /\ Goto(t, "return")
              /\ UNCHANGED <<chan, ring, closed, mtx, conds, arg, hist>>

\* The call is over and its locals are gone.
Return(t) == /\ pc[t] = "return"
             /\ Goto(t, "idle") /\ Result(t, 0)
             /\ op' = [op EXCEPT ![t] = "none"]
             /\ arg' = [arg EXCEPT ![t] = NoArg]
             /\ UNCHANGED <<chan, ring, closed, mtx, conds, hist>>

\* chan_free takes no lock either: the caller must know that nobody is inside.
Free == /\ chan = "live" /\ \A u \in Thread : pc[u] = "idle"
        /\ chan' = "freed"
        /\ UNCHANGED <<ring, closed, mtx, conds, pc, call, ret, hist>>

-----------------------------------------------------------------------------
(* Mutex and condition variables                                            *)

\* pthread_mutex_lock, and the re-acquisition inside pthread_cond_wait.  Both
\* lead to the test of the loop: the code waits in a while, not in an if.
Lock(t) == /\ pc[t] \in {"lock", "relock"} /\ mtx = NoThread
           /\ mtx' = t
           /\ Goto(t, "test")
           /\ UNCHANGED <<chan, ring, closed, conds, call, ret, hist>>

Unlock(t) == /\ pc[t] = "unlock"
             /\ mtx' = NoThread
             /\ Goto(t, "return")
             /\ UNCHANGED <<chan, ring, closed, conds, call, ret, hist>>

SpuriousWakeup(t) == /\ pc[t] = "wait"
                     /\ notEmpty' = notEmpty \ {t} /\ notFull' = notFull \ {t}
                     /\ Goto(t, "relock")
                     /\ UNCHANGED <<chan, ring, closed, mtx, call, ret, hist>>

\* Signal wakes one member of the set if there is any.
Wake(t, set) == IF set = {} THEN Goto(t, "unlock")
                ELSE \E w \in set : pc' = [pc EXCEPT ![w] = "relock", ![t] = "unlock"]

Woken(set) == set \ {w \in set : pc'[w] = "relock"}

\* Mutants, each the definition of its name as a plausible slip would have it.
SignalOneSet(t) == /\ pc[t] = "signal"
                   /\ Wake(t, notEmpty)
                   /\ notEmpty' = Woken(notEmpty) /\ notFull' = Woken(notFull)
                   /\ UNCHANGED <<chan, ring, closed, mtx, call, ret, hist>>

SignalNobody(t) == /\ pc[t] = "signal"
                   /\ Goto(t, "unlock")
                   /\ UNCHANGED <<chan, ring, closed, mtx, conds, call, ret, hist>>

Signal(t) == /\ pc[t] = "signal"
             /\ Wake(t, IF op[t] = "send" THEN notEmpty ELSE notFull)
             /\ notEmpty' = Woken(notEmpty) /\ notFull' = Woken(notFull)
             /\ UNCHANGED <<chan, ring, closed, mtx, call, ret, hist>>

BroadcastForgetsFull(t) ==
  /\ pc[t] = "bcastEmpty"
  /\ pc' = [u \in Thread |-> IF u = t THEN "unlock"
              ELSE IF u \in notEmpty THEN "relock" ELSE pc[u]]
  /\ notEmpty' = {}
  /\ UNCHANGED <<chan, ring, closed, mtx, notFull, call, ret, hist>>

\* Broadcast wakes them all.
Broadcast(t) == /\ pc[t] = "bcastEmpty"
                /\ pc' = [u \in Thread |-> IF u = t THEN "bcastFull"
                            ELSE IF u \in notEmpty THEN "relock" ELSE pc[u]]
                /\ notEmpty' = {}
                /\ UNCHANGED <<chan, ring, closed, mtx, notFull, call, ret, hist>>

BroadcastFull(t) == /\ pc[t] = "bcastFull"
                    /\ pc' = [u \in Thread |-> IF u = t THEN "unlock"
                                ELSE IF u \in notFull THEN "relock" ELSE pc[u]]
                    /\ notFull' = {}
                    /\ UNCHANGED <<chan, ring, closed, mtx, notEmpty, call, ret, hist>>

-----------------------------------------------------------------------------
(* The bodies, under the mutex                                              *)

In(t, ops) == pc[t] = "test" /\ op[t] \in ops

SendWait(t) == /\ In(t, {"send"}) /\ count = cap /\ ~closed
               /\ notFull' = notFull \cup {t} /\ mtx' = NoThread
               /\ Goto(t, "wait")
               /\ UNCHANGED <<chan, ring, closed, notEmpty, call, ret, hist>>

SendRefused(t) == /\ In(t, {"send"}) /\ closed
                  /\ Goto(t, "unlock") /\ Result(t, -1)
                  /\ UNCHANGED <<chan, ring, closed, mtx, conds, call, hist>>

EnqueueIntoFull(t) ==     \* waits in an if: a woken sender does not test again
  /\ In(t, {"send"}) /\ ~closed
  /\ buf' = [buf EXCEPT ![tail] = arg[t]]
  /\ tail' = (tail + 1) % cap
  /\ count' = IF count = cap THEN count ELSE count + 1
  /\ sent' = Append(sent, arg[t])
  /\ Goto(t, "signal") /\ Result(t, 0)
  /\ UNCHANGED <<chan, cap, head, closed, mtx, conds, call, rcvd>>

EnqueueIntoClosed(t) ==
  /\ In(t, {"send"}) /\ count # cap
  /\ buf' = [buf EXCEPT ![tail] = arg[t]]
  /\ tail' = (tail + 1) % cap
  /\ count' = count + 1
  /\ sent' = Append(sent, arg[t])
  /\ Goto(t, "signal") /\ Result(t, 0)
  /\ UNCHANGED <<chan, cap, head, closed, mtx, conds, call, rcvd>>

Enqueue(t) == /\ In(t, {"send"}) /\ ~closed /\ count # cap
              /\ buf' = [buf EXCEPT ![tail] = arg[t]]
              /\ tail' = (tail + 1) % cap
              /\ count' = count + 1
              /\ sent' = Append(sent, arg[t])
              /\ Goto(t, "signal") /\ Result(t, 0)
              /\ UNCHANGED <<chan, cap, head, closed, mtx, conds, call, rcvd>>

RecvWait(t) == /\ In(t, {"recv"}) /\ count = 0 /\ ~closed
               /\ notEmpty' = notEmpty \cup {t} /\ mtx' = NoThread
               /\ Goto(t, "wait")
               /\ UNCHANGED <<chan, ring, closed, notFull, call, ret, hist>>

RecvNothing(t) == /\ \/ In(t, {"recv"}) /\ closed
                     \/ In(t, {"try"})
                  /\ count = 0
                  /\ Goto(t, "unlock") /\ Result(t, 0)
                  /\ UNCHANGED <<chan, ring, closed, mtx, conds, call, hist>>

Dequeue(t) == /\ In(t, Taking) /\ count # 0
              /\ head' = (head + 1) % cap
              /\ count' = count - 1
              /\ rcvd' = Append(rcvd, buf[head])
              /\ Goto(t, "signal") /\ Result(t, buf[head])
              /\ UNCHANGED <<chan, cap, buf, tail, closed, mtx, conds, call, sent>>

CloseQuietly(t) == /\ In(t, {"close"})
                   /\ closed' = TRUE
                   /\ Goto(t, "unlock") /\ Result(t, 0)
                   /\ UNCHANGED <<chan, ring, mtx, conds, call, hist>>

Close(t) == /\ In(t, {"close"})
            /\ closed' = TRUE
            /\ Goto(t, "bcastEmpty") /\ Result(t, 0)
            /\ UNCHANGED <<chan, ring, mtx, conds, call, hist>>

Length(t) == /\ In(t, {"len"})
             /\ Goto(t, "unlock") /\ Result(t, count)
             /\ UNCHANGED <<chan, ring, closed, mtx, conds, call, hist>>

-----------------------------------------------------------------------------
Body(t) == \/ SendWait(t) \/ SendRefused(t) \/ Enqueue(t)
           \/ RecvWait(t) \/ RecvNothing(t) \/ Dequeue(t)
           \/ Close(t) \/ Length(t)

Wakeup(t) == Signal(t) \/ Broadcast(t) \/ BroadcastFull(t)

Calls(t) == \/ New(t) \/ NewFails(t) \/ NullCall(t) \/ CapCall(t)
            \/ \E o \in LockedOp, v \in Value \cup {NoArg} : Call(t, o, v)

Next == \/ \E t \in Thread :
              \/ Calls(t) \/ Return(t)
              \/ Lock(t) \/ Body(t) \/ Wakeup(t) \/ Unlock(t)
              \/ SpuriousWakeup(t)
        \/ Free

Spec == Init /\ [][Next]_vars

(***************************************************************************)
(* The holder of the mutex keeps running, and the mutex is fair: a thread   *)
(* that asks for it again and again when it is free gets it.  Nobody has to *)
(* call anything, and no spurious wakeup is ever relied upon.               *)
(***************************************************************************)
Fairness == \A t \in Thread : /\ WF_vars(Body(t) \/ Wakeup(t) \/ Unlock(t) \/ Return(t))
                              /\ SF_vars(Lock(t))

FairSpec == Spec /\ Fairness

-----------------------------------------------------------------------------
(* Properties                                                               *)

Label == {"idle", "lock", "test", "wait", "relock", "signal",
          "bcastEmpty", "bcastFull", "unlock", "return"}
Holding == {"test", "signal", "bcastEmpty", "bcastFull", "unlock"}

TypeOK == /\ chan \in {"null", "live", "freed"}
          /\ cap \in Nat \ {0}
          /\ buf \in [0..(cap - 1) -> Value \cup {Garbage}]
          /\ head \in 0..(cap - 1) /\ tail \in 0..(cap - 1)
          /\ count \in 0..cap
          /\ closed \in BOOLEAN
          /\ mtx \in Thread \cup {NoThread}
          /\ notEmpty \subseteq Thread /\ notFull \subseteq Thread
          /\ pc \in [Thread -> Label]
          /\ op \in [Thread -> LockedOp \cup {"cap", "free", "none"}]
          /\ arg \in [Thread -> Value \cup {NoArg}]
          /\ ret \in [Thread -> Int \cup {Garbage}]
          /\ sent \in Seq(Value)
          /\ rcvd \in Seq(Value \cup {Garbage})

\* The n slots from h on, oldest first, of a ring b of c slots.
Window(b, h, n, c) == [i \in 1..n |-> b[(h + i - 1) % c]]

Content == Window(buf, head, count, cap)

\* Nothing is lost, duplicated, reordered or read from a slot nobody wrote:
\* what was sent is what was received followed by what the ring still holds,
\* whatever the interleaving of senders, receivers and the wrap of the ring.
Fifo == sent = rcvd \o Content

Awake(ops) == {t \in Thread : op[t] \in ops /\ pc[t] \in {"relock", "test"}}
Signalling(ops) == {t \in Thread : op[t] \in ops /\ pc[t] = "signal"}

ValueHelpers == Awake(Taking) \cup Signalling({"send"})
SpaceHelpers == Awake({"send"}) \cup Signalling(Taking)

\* No wakeup is lost: while a receiver sleeps, every buffered value has a
\* receiver already awake for it or a sender about to signal; and while a
\* sender sleeps, so has every free slot.  (pthread_cond_signal in
\* tiq_chan_send, tiq_chan_recv and tiq_chan_try_recv.)
NoLostWakeup ==
  ~closed => /\ notEmpty # {} => count <= Cardinality(ValueHelpers)
             /\ notFull # {} => cap - count <= Cardinality(SpaceHelpers)

\* Nobody sleeps through a close: once closed, a wait set is empty unless the
\* closing thread, which holds the mutex, has yet to broadcast to it.
NoSleeperPastClose ==
  closed => /\ notEmpty # {} => \E t \in Thread : pc[t] = "bcastEmpty"
            /\ notFull # {} => \E t \in Thread : pc[t] \in {"bcastEmpty", "bcastFull"}

\* Every call that is blocked when the channel closes returns.
CloseReleasesAll ==
  \A t \in Thread : (closed /\ pc[t] = "wait") ~> (pc[t] = "idle")

\* A value does not stay in the ring while a receiver sleeps, nor a free slot
\* while a sender does.
SleepersServed ==
  /\ (notEmpty # {} /\ count > 0) ~> (notEmpty = {} \/ count = 0)
  /\ (notFull # {} /\ count < cap) ~> (notFull = {} \/ count = cap)

\* The channel is the bounded queue FifoChannel describes: a call takes effect
\* at one instant between its start and its return.
Phase(l) == IF l = "idle" THEN "idle"
            ELSE IF l \in Busy THEN "pending" ELSE "done"

Status == [t \in Thread |-> Phase(pc[t])]

Abstract == INSTANCE FifoChannel WITH queue <- Content, status <- Status

Linearizable == Abstract!Spec
=============================================================================
