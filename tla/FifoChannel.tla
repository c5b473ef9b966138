---------------------------- MODULE FifoChannel ----------------------------
(***************************************************************************)
(* What the channel builtins promise: a bounded queue of integers shared   *)
(* by threads, every operation of which takes effect at one instant between *)
(* its call and its return.  It knows no mutex, no condition variable and   *)
(* no ring of slots.  The operations and their results are those of the     *)
(* eight chan_* wrappers of std/sync.tiq.                                   *)
(***************************************************************************)
EXTENDS Integers, Sequences

CONSTANTS Thread,    \* the threads that share the handle
          Value,     \* payloads, a subset of the i64 values
          NoArg,     \* payload of a call that has none, and of no call
          CapArg     \* the arguments chan_new is called with

VARIABLES chan,      \* what the handle denotes: "null", "live" or "freed"
          cap,       \* capacity of the live channel
          queue,     \* the values sent and not yet received, oldest first
          closed,    \* chan_close was called
          status,    \* of each thread: "idle", "pending" or "done"
          op,        \* the operation of each thread's last call
          arg,       \* and its payload
          ret        \* the result the last call returned, or will return

vars == <<chan, cap, queue, closed, status, op, arg, ret>>

LockedOp == {"send", "recv", "try", "close", "len"}

Init == /\ chan = "null" /\ cap = 1 /\ queue = <<>> /\ closed = FALSE
        /\ status = [t \in Thread |-> "idle"]
        /\ op = [t \in Thread |-> "none"]
        /\ arg = [t \in Thread |-> NoArg]
        /\ ret = [t \in Thread |-> 0]

\* chan_new: a capacity below one becomes one.
New(t) == /\ status[t] = "idle" /\ chan # "live"
          /\ \E c \in CapArg : cap' = IF c <= 0 THEN 1 ELSE c
          /\ chan' = "live" /\ queue' = <<>> /\ closed' = FALSE
          /\ UNCHANGED <<status, op, arg, ret>>

NewFails(t) == /\ status[t] = "idle" /\ chan # "live"
               /\ chan' = "null"
               /\ UNCHANGED <<cap, queue, closed, status, op, arg, ret>>

Call(t) == /\ status[t] = "idle" /\ chan = "live"
           /\ \E o \in LockedOp, v \in Value \cup {NoArg} :
                /\ (o = "send") <=> (v # NoArg)
                /\ op' = [op EXCEPT ![t] = o]
                /\ arg' = [arg EXCEPT ![t] = v]
           /\ status' = [status EXCEPT ![t] = "pending"]
           /\ UNCHANGED <<chan, cap, queue, closed, ret>>

\* An operation on the null handle reports failure and does nothing else.
NullCall(t) == /\ status[t] = "idle" /\ chan = "null"
               /\ \E o \in LockedOp \cup {"cap", "free"} :
                    /\ op' = [op EXCEPT ![t] = o]
                    /\ ret' = [ret EXCEPT ![t] =
                                 IF o \in {"send", "close", "free"} THEN -1 ELSE 0]
               /\ status' = [status EXCEPT ![t] = "done"]
               /\ UNCHANGED <<chan, cap, queue, closed, arg>>

CapCall(t) == /\ status[t] = "idle" /\ chan = "live"
              /\ op' = [op EXCEPT ![t] = "cap"]
              /\ ret' = [ret EXCEPT ![t] = cap]
              /\ status' = [status EXCEPT ![t] = "done"]
              /\ UNCHANGED <<chan, cap, queue, closed, arg>>

Answer(t, r) == /\ status' = [status EXCEPT ![t] = "done"]
                /\ ret' = [ret EXCEPT ![t] = r]
                /\ UNCHANGED <<chan, cap, op, arg>>

Pending(t, ops) == status[t] = "pending" /\ op[t] \in ops

Send(t) == /\ Pending(t, {"send"}) /\ ~closed /\ Len(queue) < cap
           /\ queue' = Append(queue, arg[t])
           /\ Answer(t, 0) /\ UNCHANGED closed

SendRefused(t) == /\ Pending(t, {"send"}) /\ closed
                  /\ Answer(t, -1) /\ UNCHANGED <<queue, closed>>

Receive(t) == /\ Pending(t, {"recv", "try"}) /\ queue # <<>>
              /\ queue' = Tail(queue)
              /\ Answer(t, Head(queue)) /\ UNCHANGED closed

\* A blocking receive gives up only on a closed channel; a try never blocks.
ReceiveNothing(t) == /\ \/ Pending(t, {"recv"}) /\ closed
                        \/ Pending(t, {"try"})
                     /\ queue = <<>>
                     /\ Answer(t, 0) /\ UNCHANGED <<queue, closed>>

Close(t) == /\ Pending(t, {"close"})
            /\ closed' = TRUE
            /\ Answer(t, 0) /\ UNCHANGED queue

Length(t) == /\ Pending(t, {"len"})
             /\ Answer(t, Len(queue)) /\ UNCHANGED <<queue, closed>>

Return(t) == /\ status[t] = "done"
             /\ status' = [status EXCEPT ![t] = "idle"]
             /\ op' = [op EXCEPT ![t] = "none"]
             /\ arg' = [arg EXCEPT ![t] = NoArg]
             /\ ret' = [ret EXCEPT ![t] = 0]
             /\ UNCHANGED <<chan, cap, queue, closed>>

\* Freeing is legal only once no call is under way and none will follow.
Free == /\ chan = "live" /\ \A u \in Thread : status[u] = "idle"
        /\ chan' = "freed"
        /\ UNCHANGED <<cap, queue, closed, status, op, arg, ret>>

Next == \/ \E t \in Thread :
              \/ New(t) \/ NewFails(t) \/ Call(t) \/ NullCall(t) \/ CapCall(t)
              \/ Send(t) \/ SendRefused(t) \/ Receive(t) \/ ReceiveNothing(t)
              \/ Close(t) \/ Length(t) \/ Return(t)
        \/ Free

Spec == Init /\ [][Next]_vars
=============================================================================
