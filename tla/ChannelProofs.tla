--------------------------- MODULE ChannelProofs ---------------------------
(***************************************************************************)
(* Proofs about Channel, for any number of threads, any capacity and any    *)
(* number of sends.  The inductive invariant IInv says how the struct, the  *)
(* mutex, the wait sets and the program counters fit together; the queue     *)
(* properties and the refinement of FifoChannel follow from it.             *)
(***************************************************************************)
EXTENDS Channel, SequenceTheorems, FiniteSetTheorems, TLAPS

\* A call under way is one of the five locked operations, and a send that has
\* not taken effect still has its payload.
CallOK == \A t \in Thread :
            /\ pc[t] \in Busy => op[t] \in LockedOp
            /\ pc[t] \in Busy /\ op[t] = "send" => arg[t] \in Value
            /\ pc[t] = "signal" => op[t] \in {"send", "recv", "try"}
            /\ pc[t] \in {"bcastEmpty", "bcastFull"} => op[t] = "close"

\* Only the owner of the mutex is between lock and unlock.
MutexOK == \A t \in Thread : pc[t] \in Holding <=> mtx = t

\* The wait sets are the sleeping receivers and the sleeping senders.
SleepOK == \A t \in Thread :
             /\ t \in notEmpty <=> pc[t] = "wait" /\ op[t] = "recv"
             /\ t \in notFull <=> pc[t] = "wait" /\ op[t] = "send"
             /\ pc[t] = "wait" => op[t] \in {"send", "recv"}

\* No call is under way on a handle that is not live.
LiveOK == chan # "live" => \A t \in Thread : pc[t] \in {"idle", "return"}

\* The two indices and the count describe one stretch of the ring.
RingOK == tail = (head + count) % cap

IInv == TypeOK /\ CallOK /\ MutexOK /\ SleepOK /\ LiveOK /\ RingOK

-----------------------------------------------------------------------------
(* Arithmetic of the ring                                                   *)

\* A remainder is an index of the ring.
LEMMA ModRange ==
  ASSUME NEW n \in Nat \ {0}, NEW a \in Nat
  PROVE  a % n \in 0..(n - 1)
BY SMT

\* An index of the ring is its own remainder.
LEMMA SmallMod ==
  ASSUME NEW n \in Nat \ {0}, NEW h \in 0..(n - 1)
  PROVE  h % n = h
BY SMT

\* An empty ring starts at index 0.
LEMMA ZeroIndex ==
  ASSUME NEW n \in Nat \ {0}
  PROVE  /\ 0 \in 0..(n - 1) /\ 0 \in 0..n
         /\ 0 = (0 + 0) % n
BY SMT

\* The slot i places after h, with the wrap made explicit.
LEMMA Wrap ==
  ASSUME NEW n \in Nat \ {0}, NEW h \in 0..(n - 1), NEW i \in 0..n
  PROVE  (h + i) % n = IF h + i < n THEN h + i ELSE h + i - n
<1>1. CASE h + i < n
  BY <1>1, SMT
<1>2. CASE ~(h + i < n)
  BY <1>2, SMT
<1> QED BY <1>1, <1>2

\* Advancing the head leaves the tail where it was.
LEMMA HeadAdvance ==
  ASSUME NEW n \in Nat \ {0}, NEW h \in 0..(n - 1), NEW i \in 0..(n - 1)
  PROVE  (((h + 1) % n) + i) % n = (h + (i + 1)) % n
<1>1. CASE h + 1 < n
  <2>1. (h + 1) % n = h + 1
    BY <1>1, SMT
  <2> QED BY <2>1, SMT
<1>2. CASE ~(h + 1 < n)
  <2>1. (h + 1) % n = 0
    BY <1>2, Wrap, SMT
  <2>2. i % n = i
    BY SMT
  <2>3. (h + (i + 1)) % n = i
    BY <1>2, Wrap, SMT
  <2> QED BY <2>1, <2>2, <2>3, SMT
<1> QED BY <1>1, <1>2

\* Advancing the tail is counting one more from the head.
LEMMA TailAdvance ==
  ASSUME NEW n \in Nat \ {0}, NEW h \in 0..(n - 1), NEW c \in 0..(n - 1)
  PROVE  (((h + c) % n) + 1) % n = (h + (c + 1)) % n
<1>1. CASE h + c < n
  <2>1. (h + c) % n = h + c
    BY <1>1, SMT
  <2> QED BY <2>1, SMT
<1>2. CASE ~(h + c < n)
  <2>1. (h + c) % n = h + c - n
    BY <1>2, SMT
  <2>2. (h + (c + 1)) % n = h + c + 1 - n
    BY <1>2, SMT
  <2>3. (h + c - n + 1) % n = h + c - n + 1
    BY <1>2, SMT
  <2> QED BY <2>1, <2>2, <2>3, SMT
<1> QED BY <1>1, <1>2

\* The free slot at the tail is none of the slots that hold a value.
LEMMA SlotsDistinct ==
  ASSUME NEW n \in Nat \ {0}, NEW h \in 0..(n - 1), NEW c \in 0..(n - 1),
         NEW i \in 1..c
  PROVE  (h + i - 1) % n # (h + c) % n
<1>1. CASE h + c < n
  <2>1. (h + c) % n = h + c /\ (h + i - 1) % n = h + i - 1
    BY <1>1, SMT
  <2> QED BY <2>1, SMT
<1>2. CASE ~(h + c < n)
  <2>1. (h + c) % n = h + c - n
    BY <1>2, SMT
  <2>2. CASE h + i - 1 < n
    <3>1. (h + i - 1) % n = h + i - 1
      BY <2>2, SMT
    <3> QED BY <2>1, <3>1, SMT
  <2>3. CASE ~(h + i - 1 < n)
    <3>1. (h + i - 1) % n = h + i - 1 - n
      BY <2>3, SMT
    <3> QED BY <2>1, <3>1, SMT
  <2> QED BY <2>2, <2>3
<1> QED BY <1>1, <1>2

-----------------------------------------------------------------------------
(* The inductive invariant                                                  *)

USE ChannelAssumption

LEMMA InitInv == Init => IInv
<1> SUFFICES ASSUME Init PROVE IInv
  OBVIOUS
<1>1. TypeOK
  <2>1. <<>> \in Seq(Value) /\ <<>> \in Seq(Value \cup {Garbage})
    BY EmptySeq
  <2>2. buf \in [0..(cap - 1) -> Value \cup {Garbage}]
    BY DEF Init
  <2> QED BY <2>1, <2>2 DEF Init, TypeOK, LockedOp, Label
<1>2. CallOK /\ MutexOK /\ SleepOK /\ LiveOK
  BY DEF Init, CallOK, MutexOK, SleepOK, LiveOK, Busy, Holding
<1>3. RingOK
  BY DEF Init, RingOK
<1> QED BY <1>1, <1>2, <1>3 DEF IInv

LEMMA NextInv == IInv /\ [Next]_vars => IInv'
<1> SUFFICES ASSUME IInv, [Next]_vars PROVE IInv'
  OBVIOUS
<1> USE DEF IInv
<1>1. ASSUME NEW t \in Thread, New(t) PROVE IInv'
  <2>1. PICK c \in CapArg : EmptyRing(IF c <= 0 THEN 1 ELSE c)
    BY <1>1 DEF New
  <2>2. cap' \in Nat \ {0} /\ head' = 0 /\ tail' = 0 /\ count' = 0
    BY <2>1 DEF EmptyRing
  <2>3. buf' \in [0..(cap' - 1) -> Value \cup {Garbage}]
    BY <2>1 DEF EmptyRing
  <2>4. /\ chan' = "live" /\ closed' = FALSE
        /\ mtx' = NoThread /\ notEmpty' = {} /\ notFull' = {}
        /\ pc' = pc /\ op' = op /\ arg' = arg /\ ret' = ret
        /\ \A u \in Thread : pc[u] \in {"idle", "return"}
    BY <1>1 DEF New, call, LiveOK
  <2>5. sent' \in Seq(Value) /\ rcvd' \in Seq(Value \cup {Garbage})
    BY <1>1, EmptySeq DEF New
  <2>6. TypeOK'
    <3>1. chan' \in {"null", "live", "freed"} /\ closed' \in BOOLEAN
      BY <2>4
    <3>2. head' \in 0..(cap' - 1) /\ tail' \in 0..(cap' - 1) /\ count' \in 0..cap'
      BY <2>2, ZeroIndex, Zenon
    <3>3. mtx' \in Thread \cup {NoThread} /\ notEmpty' \subseteq Thread /\ notFull' \subseteq Thread
      BY <2>4
    <3>4. pc' \in [Thread -> Label] /\ op' \in [Thread -> LockedOp \cup {"cap", "free", "none"}]
      BY <2>4 DEF TypeOK
    <3>5. arg' \in [Thread -> Value \cup {NoArg}] /\ ret' \in [Thread -> Int \cup {Garbage}]
      BY <2>4 DEF TypeOK
    <3> QED
      BY <2>2, <2>3, <2>5, <3>1, <3>2, <3>3, <3>4, <3>5 DEF TypeOK
  <2>7. (CallOK /\ MutexOK /\ SleepOK /\ LiveOK)'
    <3>1. CallOK'
      BY <2>4 DEF CallOK
    <3>2. MutexOK'
      BY <2>4 DEF MutexOK, Holding
    <3>3. SleepOK'
      BY <2>4 DEF SleepOK
    <3>4. LiveOK'
      BY <2>4 DEF LiveOK
    <3> QED BY <3>1, <3>2, <3>3, <3>4
  <2>8. RingOK'
    BY <2>2, ZeroIndex, Zenon DEF RingOK
  <2> QED BY <2>6, <2>7, <2>8
<1>2. ASSUME NEW t \in Thread, NewFails(t) PROVE IInv'
  BY <1>2 DEF NewFails, Goto, Result, TypeOK, CallOK, MutexOK, SleepOK, LiveOK, RingOK,
     Busy, Holding, Label, LockedOp, In, Taking, ring, conds, call, hist
<1>3. ASSUME NEW t \in Thread, NullCall(t) PROVE IInv'
  BY <1>3 DEF NullCall, Goto, Result, TypeOK, CallOK, MutexOK, SleepOK, LiveOK, RingOK,
     Busy, Holding, Label, LockedOp, In, Taking, ring, conds, call, hist
<1>4. ASSUME NEW t \in Thread, CapCall(t) PROVE IInv'
  BY <1>4 DEF CapCall, Goto, Result, TypeOK, CallOK, MutexOK, SleepOK, LiveOK, RingOK,
     Busy, Holding, Label, LockedOp, In, Taking, ring, conds, call, hist
<1>5. ASSUME NEW t \in Thread, Return(t) PROVE IInv'
  BY <1>5 DEF Return, Goto, Result, TypeOK, CallOK, MutexOK, SleepOK, LiveOK, RingOK,
     Busy, Holding, Label, LockedOp, In, Taking, ring, conds, call, hist
<1>6. ASSUME NEW t \in Thread, Lock(t) PROVE IInv'
  BY <1>6 DEF Lock, Goto, Result, TypeOK, CallOK, MutexOK, SleepOK, LiveOK, RingOK,
     Busy, Holding, Label, LockedOp, In, Taking, ring, conds, call, hist
<1>7. ASSUME NEW t \in Thread, Unlock(t) PROVE IInv'
  BY <1>7 DEF Unlock, Goto, Result, TypeOK, CallOK, MutexOK, SleepOK, LiveOK, RingOK,
     Busy, Holding, Label, LockedOp, In, Taking, ring, conds, call, hist
<1>8. ASSUME NEW t \in Thread, SpuriousWakeup(t) PROVE IInv'
  BY <1>8 DEF SpuriousWakeup, Goto, Result, TypeOK, CallOK, MutexOK, SleepOK, LiveOK, RingOK,
     Busy, Holding, Label, LockedOp, In, Taking, ring, conds, call, hist
<1>9. ASSUME NEW t \in Thread, Signal(t) PROVE IInv'
  <2> DEFINE set == IF op[t] = "send" THEN notEmpty ELSE notFull
  <2>1. op[t] \in {"send", "recv", "try"} /\ mtx = t /\ pc[t] = "signal"
    BY <1>9 DEF Signal, CallOK, MutexOK, Holding
  <2>2. CASE set = {}
    <3>1. pc' = [pc EXCEPT ![t] = "unlock"]
      BY <1>9, <2>2 DEF Signal, Wake, Goto
    <3>2. notEmpty' = notEmpty /\ notFull' = notFull
      BY <1>9, <2>1, <3>1 DEF Signal, Woken, SleepOK, TypeOK
    <3> QED BY <1>9, <2>1, <3>1, <3>2 DEF Signal, TypeOK, CallOK, MutexOK, SleepOK, LiveOK, RingOK,
     Busy, Holding, Label, LockedOp, In, Taking, ring, conds, call, hist
  <2>3. CASE set # {}
    <3>1. PICK w \in set : pc' = [pc EXCEPT ![w] = "relock", ![t] = "unlock"]
      BY <1>9, <2>3 DEF Signal, Wake
    <3>2. w \in Thread /\ w # t /\ pc[w] = "wait"
      BY <2>1 DEF SleepOK, TypeOK
    <3>3. notEmpty' = notEmpty \ {w} /\ notFull' = notFull \ {w}
      BY <1>9, <2>1, <3>1, <3>2 DEF Signal, Woken, SleepOK, TypeOK
    <3> QED BY <1>9, <2>1, <3>1, <3>2, <3>3 DEF Signal, TypeOK, CallOK, MutexOK, SleepOK, LiveOK, RingOK,
     Busy, Holding, Label, LockedOp, In, Taking, ring, conds, call, hist
  <2> QED BY <2>2, <2>3
<1>10. ASSUME NEW t \in Thread, Broadcast(t) PROVE IInv'
  BY <1>10 DEF Broadcast, Goto, Result, TypeOK, CallOK, MutexOK, SleepOK, LiveOK, RingOK,
     Busy, Holding, Label, LockedOp, In, Taking, ring, conds, call, hist
<1>11. ASSUME NEW t \in Thread, BroadcastFull(t) PROVE IInv'
  BY <1>11 DEF BroadcastFull, Goto, Result, TypeOK, CallOK, MutexOK, SleepOK, LiveOK, RingOK,
     Busy, Holding, Label, LockedOp, In, Taking, ring, conds, call, hist
<1>12. ASSUME NEW t \in Thread, SendWait(t) PROVE IInv'
  BY <1>12 DEF SendWait, Goto, Result, TypeOK, CallOK, MutexOK, SleepOK, LiveOK, RingOK,
     Busy, Holding, Label, LockedOp, In, Taking, ring, conds, call, hist
<1>13. ASSUME NEW t \in Thread, SendRefused(t) PROVE IInv'
  BY <1>13 DEF SendRefused, Goto, Result, TypeOK, CallOK, MutexOK, SleepOK, LiveOK, RingOK,
     Busy, Holding, Label, LockedOp, In, Taking, ring, conds, call, hist
<1>14. ASSUME NEW t \in Thread, Enqueue(t) PROVE IInv'
  <2>1. count \in 0..(cap - 1) /\ arg[t] \in Value
    BY <1>14 DEF Enqueue, In, TypeOK, CallOK, Busy
  <2>2. tail' \in 0..(cap - 1)
    BY <1>14, ModRange DEF Enqueue, TypeOK
  <2>3. sent' \in Seq(Value)
    BY <1>14, <2>1 DEF Enqueue, TypeOK
  <2>4. TypeOK'
    BY <1>14, <2>1, <2>2, <2>3 DEF Enqueue, Goto, Result, call, conds, TypeOK, Label
  <2>5. RingOK'
    BY <1>14, <2>1, TailAdvance DEF Enqueue, TypeOK, RingOK
  <2>6. (CallOK /\ MutexOK /\ SleepOK /\ LiveOK)'
    BY <1>14 DEF Enqueue, Goto, In, call, conds, TypeOK, CallOK, MutexOK, SleepOK,
       LiveOK, Busy, Holding
  <2> QED BY <2>4, <2>5, <2>6
<1>15. ASSUME NEW t \in Thread, RecvWait(t) PROVE IInv'
  BY <1>15 DEF RecvWait, Goto, Result, TypeOK, CallOK, MutexOK, SleepOK, LiveOK, RingOK,
     Busy, Holding, Label, LockedOp, In, Taking, ring, conds, call, hist
<1>16. ASSUME NEW t \in Thread, RecvNothing(t) PROVE IInv'
  BY <1>16 DEF RecvNothing, Goto, Result, TypeOK, CallOK, MutexOK, SleepOK, LiveOK, RingOK,
     Busy, Holding, Label, LockedOp, In, Taking, ring, conds, call, hist
<1>17. ASSUME NEW t \in Thread, Dequeue(t) PROVE IInv'
  <2>1. count - 1 \in 0..(cap - 1)
    BY <1>17 DEF Dequeue, TypeOK
  <2>2. head' \in 0..(cap - 1)
    BY <1>17, ModRange DEF Dequeue, TypeOK
  <2>3. buf[head] \in Value \cup {Garbage}
    BY DEF TypeOK
  <2>4. TypeOK'
    <3>1. rcvd' \in Seq(Value \cup {Garbage})
      BY <1>17, <2>3 DEF Dequeue, TypeOK
    <3>2. ret' \in [Thread -> Int \cup {Garbage}]
      BY <1>17, <2>3 DEF Dequeue, Result, TypeOK
    <3>3. count' \in 0..cap'
      BY <1>17, <2>1 DEF Dequeue, TypeOK
    <3>4. pc' \in [Thread -> Label]
      BY <1>17 DEF Dequeue, Goto, TypeOK, Label
    <3> QED
      BY <1>17, <2>2, <3>1, <3>2, <3>3, <3>4 DEF Dequeue, call, conds, TypeOK
  <2>5. RingOK'
    <3>1. (((head + 1) % cap) + (count - 1)) % cap = (head + (count - 1 + 1)) % cap
      BY <2>1, HeadAdvance DEF TypeOK
    <3>2. count - 1 + 1 = count
      BY DEF TypeOK
    <3> QED BY <1>17, <3>1, <3>2 DEF Dequeue, RingOK
  <2>6. (CallOK /\ MutexOK /\ SleepOK /\ LiveOK)'
    BY <1>17 DEF Dequeue, Goto, In, Taking, call, conds, TypeOK, CallOK, MutexOK,
       SleepOK, LiveOK, Busy, Holding
  <2> QED BY <2>4, <2>5, <2>6
<1>18. ASSUME NEW t \in Thread, Close(t) PROVE IInv'
  BY <1>18 DEF Close, Goto, Result, TypeOK, CallOK, MutexOK, SleepOK, LiveOK, RingOK,
     Busy, Holding, Label, LockedOp, In, Taking, ring, conds, call, hist
<1>19. ASSUME NEW t \in Thread, Length(t) PROVE IInv'
  BY <1>19 DEF Length, Goto, Result, TypeOK, CallOK, MutexOK, SleepOK, LiveOK, RingOK,
     Busy, Holding, Label, LockedOp, In, Taking, ring, conds, call, hist
<1>20. ASSUME NEW t \in Thread, NEW o \in LockedOp, NEW v \in Value \cup {NoArg},
              Call(t, o, v)
       PROVE  IInv'
  BY <1>20 DEF Call, Goto, Result, TypeOK, CallOK, MutexOK, SleepOK, LiveOK, RingOK,
     Busy, Holding, Label, LockedOp, In, Taking, ring, conds, call, hist
<1>21. CASE Free
  BY <1>21 DEF Free, TypeOK, CallOK, MutexOK, SleepOK, LiveOK, RingOK,
     Busy, Holding, Label, LockedOp, In, Taking, ring, conds, call, hist
<1>22. CASE UNCHANGED vars
  BY <1>22 DEF vars, TypeOK, CallOK, MutexOK, SleepOK, LiveOK, RingOK,
     Busy, Holding, Label, LockedOp, In, Taking, ring, conds, call, hist
<1> QED
  BY <1>1, <1>2, <1>3, <1>4, <1>5, <1>6, <1>7, <1>8, <1>9, <1>10, <1>11, <1>12,
     <1>13, <1>14, <1>15, <1>16, <1>17, <1>18, <1>19, <1>20, <1>21, <1>22
  DEF Next, Calls, Body, Wakeup

\* The struct, the mutex, the wait sets and the program counters always fit
\* together: types hold, one thread at a time is inside, the wait sets are
\* exactly the sleepers, and head, tail and count agree.
THEOREM Invariance == Spec => []IInv
BY InitInv, NextInv, PTL DEF Spec

\* Every field of the struct and every local keeps its type.
THEOREM TypeCorrect == Spec => []TypeOK
<1>1. IInv => TypeOK
  BY DEF IInv
<1> QED BY Invariance, <1>1, PTL

-----------------------------------------------------------------------------
(* The ring as a sequence                                                   *)

\* Moving the first value from one part to the end of the other keeps the whole.
LEMMA MoveHead ==
  ASSUME NEW S, NEW r \in Seq(S), NEW c \in Seq(S), c # <<>>
  PROVE  Append(r, Head(c)) \o Tail(c) = r \o c
<1> DEFINE a == Append(r, Head(c)) \o Tail(c)
           b == r \o c
<1>1. /\ Head(c) \in S /\ Tail(c) \in Seq(S) /\ Len(Tail(c)) = Len(c) - 1
      /\ \A i \in 1..Len(Tail(c)) : Tail(c)[i] = c[i + 1]
      /\ Len(c) \in Nat \ {0}
  BY HeadTailProperties, EmptySeq
<1>2. /\ Append(r, Head(c)) \in Seq(S) /\ Len(Append(r, Head(c))) = Len(r) + 1
      /\ \A i \in 1..(Len(r) + 1) :
           Append(r, Head(c))[i] = IF i <= Len(r) THEN r[i] ELSE c[1]
  BY <1>1
<1>3. /\ a \in Seq(S) /\ Len(a) = Len(r) + Len(c)
      /\ \A i \in 1..(Len(r) + Len(c)) :
           a[i] = IF i <= Len(r) + 1 THEN Append(r, Head(c))[i]
                                     ELSE Tail(c)[i - (Len(r) + 1)]
  BY <1>1, <1>2, ConcatProperties
<1>4. /\ b \in Seq(S) /\ Len(b) = Len(r) + Len(c)
      /\ \A i \in 1..(Len(r) + Len(c)) :
           b[i] = IF i <= Len(r) THEN r[i] ELSE c[i - Len(r)]
  BY ConcatProperties
<1>5. ASSUME NEW i \in 1..Len(a) PROVE a[i] = b[i]
  <2> HIDE DEF a, b
  <2>1. CASE i <= Len(r)
    BY <2>1, <1>1, <1>2, <1>3, <1>4
  <2>2. CASE i = Len(r) + 1
    <3>1. a[i] = c[1]
      BY <2>2, <1>1, <1>2, <1>3
    <3>2. b[i] = c[1]
      BY <2>2, <1>1, <1>4
    <3> QED BY <3>1, <3>2
  <2>3. CASE i > Len(r) + 1
    <3>1. i - (Len(r) + 1) \in 1..Len(Tail(c)) /\ i - (Len(r) + 1) + 1 = i - Len(r)
      BY <2>3, <1>1, <1>3
    <3>2. a[i] = c[i - Len(r)]
      BY <2>3, <3>1, <1>1, <1>3
    <3> QED BY <2>3, <3>2, <1>3, <1>4
  <2> QED BY <2>1, <2>2, <2>3, <1>3
<1> HIDE DEF a, b
<1>6. a = b
  BY <1>3, <1>4, <1>5, SeqEqual
<1> QED BY <1>6 DEF a, b

\* A window of the ring is a sequence of the values in its slots.
LEMMA WindowSeq ==
  ASSUME NEW S, NEW c \in Nat \ {0}, NEW b \in [0..(c - 1) -> S],
         NEW h \in 0..(c - 1), NEW n \in 0..c
  PROVE  /\ Window(b, h, n, c) \in Seq(S)
         /\ Len(Window(b, h, n, c)) = n
         /\ \A i \in 1..n : Window(b, h, n, c)[i] = b[(h + i - 1) % c]
<1>1. ASSUME NEW i \in 1..n PROVE b[(h + i - 1) % c] \in S
  <2>1. h + i - 1 \in Nat
    OBVIOUS
  <2>2. (h + i - 1) % c \in 0..(c - 1)
    BY <2>1, ModRange
  <2> QED BY <2>2
<1>2. n \in Nat
  OBVIOUS
<1> QED BY <1>1, <1>2 DEF Window

\* So is the content, before and after a step.
LEMMA ContentSeq ==
  ASSUME IInv, [Next]_vars
  PROVE  /\ Content \in Seq(Value \cup {Garbage}) /\ Len(Content) = count
         /\ \A i \in 1..count : Content[i] = buf[(head + i - 1) % cap]
         /\ Content' \in Seq(Value \cup {Garbage}) /\ Len(Content') = count'
         /\ \A i \in 1..count' : Content'[i] = buf'[(head' + i - 1) % cap']
<1>1. TypeOK /\ TypeOK'
  BY NextInv DEF IInv
<1>2. /\ Content \in Seq(Value \cup {Garbage}) /\ Len(Content) = count
      /\ \A i \in 1..count : Content[i] = buf[(head + i - 1) % cap]
  <2>1. /\ cap \in Nat \ {0} /\ buf \in [0..(cap - 1) -> Value \cup {Garbage}]
        /\ head \in 0..(cap - 1) /\ count \in 0..cap
    BY <1>1 DEF TypeOK
  <2>2. Content \in Seq(Value \cup {Garbage}) /\ Len(Content) = count
    BY ONLY <2>1, WindowSeq DEF Content
  <2>3. \A i \in 1..count : Content[i] = buf[(head + i - 1) % cap]
    BY ONLY <2>1 DEF Content, Window
  <2> QED BY <2>2, <2>3
<1>3. /\ Content' \in Seq(Value \cup {Garbage}) /\ Len(Content') = count'
      /\ \A i \in 1..count' : Content'[i] = buf'[(head' + i - 1) % cap']
  <2>1. /\ cap' \in Nat \ {0} /\ buf' \in [0..(cap' - 1) -> Value \cup {Garbage}]
        /\ head' \in 0..(cap' - 1) /\ count' \in 0..cap'
    BY <1>1 DEF TypeOK
  <2> QED BY ONLY <2>1, WindowSeq DEF Content
<1> QED BY <1>2, <1>3

\* Enqueueing appends to the content.
LEMMA EnqueueContent ==
  ASSUME IInv, NEW t \in Thread, Enqueue(t)
  PROVE  Content' = Append(Content, arg[t])
<1> DEFINE S == Value \cup {Garbage}
           C == Content
           D == Content'
           v == arg[t]
<1>1. [Next]_vars
  BY DEF Next, Body
<1>2. v \in S /\ count \in 0..(cap - 1)
  BY DEF IInv, CallOK, TypeOK, Enqueue, In, Busy
<1>3. /\ C \in Seq(S) /\ Len(C) = count
      /\ \A i \in 1..count : C[i] = buf[(head + i - 1) % cap]
  BY <1>1, ContentSeq
<1>4. /\ D \in Seq(S) /\ Len(D) = count + 1
      /\ \A i \in 1..(count + 1) : D[i] = buf'[(head + i - 1) % cap]
  <2>1. count' = count + 1 /\ head' = head /\ cap' = cap
    BY DEF Enqueue
  <2> QED BY <1>1, <2>1, ContentSeq
<1>5. /\ Append(C, v) \in Seq(S) /\ Len(Append(C, v)) = count + 1
      /\ \A i \in 1..count : Append(C, v)[i] = C[i]
      /\ Append(C, v)[count + 1] = v
  BY <1>2, <1>3, AppendProperties
<1>6. ASSUME NEW i \in 1..(count + 1) PROVE D[i] = Append(C, v)[i]
  <2> HIDE DEF C, D
  <2>1. CASE i \in 1..count
    <3>1. (head + i - 1) % cap # tail
      BY <2>1, <1>2, SlotsDistinct DEF IInv, TypeOK, RingOK
    <3>2. D[i] = buf[(head + i - 1) % cap]
      BY <3>1, <1>4 DEF Enqueue, IInv, TypeOK
    <3> QED BY <3>2, <2>1, <1>3, <1>5
  <2>2. CASE i = count + 1
    <3>1. (head + i - 1) % cap = tail
      <4>1. head + i - 1 = head + count
        BY <2>2 DEF IInv, TypeOK
      <4> QED BY <4>1 DEF IInv, RingOK
    <3>2. D[i] = v
      BY <3>1, <1>4 DEF Enqueue, IInv, TypeOK
    <3> QED BY <3>2, <2>2, <1>5
  <2>3. i \in 1..count \/ i = count + 1
    BY <1>2 DEF IInv, TypeOK
  <2> QED BY <2>1, <2>2, <2>3
<1> HIDE DEF C, D, v
<1>7. D = Append(C, v)
  BY <1>4, <1>5, <1>6, SeqEqual
<1> QED BY <1>7 DEF C, D, v

\* Dequeueing takes the first value of the content.
LEMMA DequeueContent ==
  ASSUME IInv, NEW t \in Thread, Dequeue(t)
  PROVE  Content # <<>> /\ buf[head] = Head(Content) /\ Content' = Tail(Content)
<1> DEFINE S == Value \cup {Garbage}
           C == Content
           D == Content'
<1>1. [Next]_vars
  BY DEF Next, Body
<1>2. count \in 1..cap
  BY DEF IInv, TypeOK, Dequeue
<1>3. /\ C \in Seq(S) /\ Len(C) = count
      /\ \A i \in 1..count : C[i] = buf[(head + i - 1) % cap]
  BY <1>1, ContentSeq
<1>4. /\ D \in Seq(S) /\ Len(D) = count - 1
      /\ \A i \in 1..(count - 1) : D[i] = buf[(head' + i - 1) % cap]
  <2>1. count' = count - 1 /\ buf' = buf /\ cap' = cap
    BY DEF Dequeue
  <2> QED BY <1>1, <2>1, ContentSeq
<1> HIDE DEF C, D
<1>5. C # <<>>
  BY <1>2, <1>3, EmptySeq
<1>6. buf[head] = Head(C)
  <2>1. (head + 1 - 1) % cap = head
    <3>1. head + 1 - 1 = head /\ head < cap /\ head \in Nat
      BY DEF IInv, TypeOK
    <3>2. cap \in Nat \ {0} /\ head \in 0..(cap - 1)
      BY DEF IInv, TypeOK
    <3>3. head % cap = head
      BY ONLY <3>1, <3>2, SmallMod
    <3> QED BY <3>1, <3>3
  <2>2. C[1] = buf[head]
    BY <2>1, <1>2, <1>3
  <2> QED BY <2>2, <1>3, <1>5
<1>7. /\ Tail(C) \in Seq(S) /\ Len(Tail(C)) = count - 1
      /\ \A i \in 1..(count - 1) : Tail(C)[i] = C[i + 1]
  BY <1>3, <1>5, HeadTailProperties
<1>8. ASSUME NEW i \in 1..(count - 1) PROVE D[i] = Tail(C)[i]
  <2>1. i - 1 \in 0..(cap - 1) /\ i + 1 \in 1..count
    BY <1>2 DEF IInv, TypeOK
  <2>2. (((head + 1) % cap) + (i - 1)) % cap = (head + (i - 1 + 1)) % cap
    BY <2>1, HeadAdvance DEF IInv, TypeOK
  <2>3. head' = (head + 1) % cap /\ head' \in Int
    BY <1>1, NextInv DEF Dequeue, IInv, TypeOK
  <2>4. head' + i - 1 = head' + (i - 1) /\ head + (i - 1 + 1) = head + (i + 1) - 1
    BY <2>3 DEF IInv, TypeOK
  <2>5. D[i] = buf[(head + (i + 1) - 1) % cap]
    BY <1>4, <2>2, <2>3, <2>4
  <2> QED BY <2>1, <2>5, <1>3, <1>7
<1>9. D = Tail(C)
  BY <1>4, <1>7, <1>8, SeqEqual
<1> QED BY <1>5, <1>6, <1>9 DEF C, D

\* A new channel is empty.
LEMMA NewContent ==
  ASSUME NEW t \in Thread, New(t)
  PROVE  Content' = <<>> /\ sent' = <<>> /\ rcvd' = <<>>
<1>1. count' = 0 /\ sent' = <<>> /\ rcvd' = <<>>
  BY DEF New, EmptyRing
<1>2. Content' = <<>>
  BY <1>1 DEF Content, Window
<1> QED BY <1>1, <1>2

\* The other steps leave the ring and the history alone.
Quiet(t) == \/ NewFails(t) \/ NullCall(t) \/ CapCall(t) \/ Return(t)
            \/ \E o \in LockedOp, v \in Value \cup {NoArg} : Call(t, o, v)
            \/ Lock(t) \/ Unlock(t) \/ SpuriousWakeup(t)
            \/ Signal(t) \/ Broadcast(t) \/ BroadcastFull(t)
            \/ SendWait(t) \/ SendRefused(t) \/ RecvWait(t) \/ RecvNothing(t)
            \/ Close(t) \/ Length(t)

LEMMA QuietContent ==
  ASSUME \/ \E t \in Thread : Quiet(t)
         \/ Free
         \/ UNCHANGED vars
  PROVE  Content' = Content /\ sent' = sent /\ rcvd' = rcvd /\ cap' = cap
<1>1. UNCHANGED <<ring, hist>>
  BY DEF Quiet, NewFails, NullCall, CapCall, Return, Lock, Unlock, SpuriousWakeup, Signal, Broadcast,
     BroadcastFull, SendWait, SendRefused, RecvWait, RecvNothing, Close, Length, Call, Free, vars
<1> QED BY <1>1 DEF ring, hist, Content

LEMMA Steps ==
  ASSUME [Next]_vars
  PROVE  \/ \E t \in Thread : New(t) \/ Enqueue(t) \/ Dequeue(t) \/ Quiet(t)
         \/ Free
         \/ UNCHANGED vars
BY DEF Next, Calls, Body, Wakeup, Quiet

\* First in, first out: for every schedule the values received, followed by the
\* values still buffered, are the values sent, in the order they were sent.
THEOREM FifoOrder == Spec => []Fifo
<1>1. Init => Fifo
  <2> SUFFICES ASSUME Init PROVE Fifo
    OBVIOUS
  <2>1. Content = <<>>
    BY DEF Init, Content, Window
  <2>2. <<>> \o <<>> = <<>>
    BY EmptySeq, ConcatEmptySeq
  <2> QED BY <2>1, <2>2 DEF Init, Fifo
<1>2. ASSUME IInv, Fifo, [Next]_vars PROVE Fifo'
  <2> DEFINE S == Value \cup {Garbage}
  <2>1. /\ Content \in Seq(S) /\ rcvd \in Seq(S)
        /\ sent = rcvd \o Content
    BY <1>2, ContentSeq DEF IInv, TypeOK, Fifo
  <2> HIDE DEF S
  <2>2. ASSUME NEW t \in Thread, New(t) PROVE Fifo'
    <3>1. <<>> \o <<>> = <<>>
      BY EmptySeq, ConcatEmptySeq
    <3> QED BY <2>2, <3>1, NewContent DEF Fifo
  <2>3. ASSUME NEW t \in Thread, Enqueue(t) PROVE Fifo'
    <3>1. PICK v \in S : v = arg[t]
      BY <1>2, <2>3 DEF IInv, CallOK, TypeOK, Enqueue, In, Busy, S
    <3>2. Append(rcvd \o Content, v) = rcvd \o Append(Content, v)
      <4>1. <<v>> \in Seq(S)
        OBVIOUS
      <4>2. (rcvd \o Content) \o <<v>> = rcvd \o (Content \o <<v>>)
        BY <2>1, <4>1, ConcatAssociative
      <4>3. Append(rcvd \o Content, v) = (rcvd \o Content) \o <<v>>
        BY <2>1, ConcatProperties, AppendIsConcat
      <4>4. Append(Content, v) = Content \o <<v>>
        BY <2>1, AppendIsConcat
      <4> QED BY <4>2, <4>3, <4>4, Zenon
    <3>3. Content' = Append(Content, arg[t])
      BY <1>2, <2>3, EnqueueContent
    <3>4. sent' = Append(sent, arg[t]) /\ rcvd' = rcvd
      BY <2>3 DEF Enqueue
    <3> QED BY <2>1, <3>1, <3>2, <3>3, <3>4, Zenon DEF Fifo
  <2>4. ASSUME NEW t \in Thread, Dequeue(t) PROVE Fifo'
    <3>1. /\ Content # <<>> /\ buf[head] = Head(Content)
          /\ Content' = Tail(Content)
      BY <1>2, <2>4, DequeueContent
    <3>2. Append(rcvd, Head(Content)) \o Tail(Content) = rcvd \o Content
      BY <2>1, <3>1, MoveHead
    <3>3. sent' = sent /\ rcvd' = Append(rcvd, buf[head])
      BY <2>4 DEF Dequeue
    <3> QED BY <2>1, <3>1, <3>2, <3>3, Zenon DEF Fifo
  <2>5. ASSUME (\E t \in Thread : Quiet(t)) \/ Free \/ UNCHANGED vars PROVE Fifo'
    BY <1>2, <2>5, QuietContent DEF Fifo
  <2> QED BY <1>2, <2>2, <2>3, <2>4, <2>5, Steps
<1> QED BY Invariance, <1>1, <1>2, PTL DEF Spec

-----------------------------------------------------------------------------
(* Closing                                                                  *)

\* No thread goes on sleeping once the channel is closed, except in the two
\* steps in which the closing thread has not broadcast yet.
THEOREM CloseWakes == Spec => []NoSleeperPastClose
<1>1. Init => NoSleeperPastClose
  BY DEF Init, NoSleeperPastClose
<1>2. ASSUME IInv, NoSleeperPastClose, [Next]_vars PROVE NoSleeperPastClose'
  <2> USE <1>2 DEF NoSleeperPastClose
  <2>1. ASSUME NEW t \in Thread, New(t) PROVE NoSleeperPastClose'
    BY <2>1 DEF New, IInv, TypeOK, CallOK, MutexOK, SleepOK, LiveOK,
       Busy, Holding, In, Taking, Goto, Result, ring, conds, call, hist
  <2>2. ASSUME NEW t \in Thread, NewFails(t) PROVE NoSleeperPastClose'
    BY <2>2 DEF NewFails, IInv, TypeOK, CallOK, MutexOK, SleepOK, LiveOK,
       Busy, Holding, In, Taking, Goto, Result, ring, conds, call, hist
  <2>3. ASSUME NEW t \in Thread, NullCall(t) PROVE NoSleeperPastClose'
    BY <2>3 DEF NullCall, IInv, TypeOK, CallOK, MutexOK, SleepOK, LiveOK,
       Busy, Holding, In, Taking, Goto, Result, ring, conds, call, hist
  <2>4. ASSUME NEW t \in Thread, CapCall(t) PROVE NoSleeperPastClose'
    BY <2>4 DEF CapCall, IInv, TypeOK, CallOK, MutexOK, SleepOK, LiveOK,
       Busy, Holding, In, Taking, Goto, Result, ring, conds, call, hist
  <2>5. ASSUME NEW t \in Thread, Return(t) PROVE NoSleeperPastClose'
    BY <2>5 DEF Return, IInv, TypeOK, CallOK, MutexOK, SleepOK, LiveOK,
       Busy, Holding, In, Taking, Goto, Result, ring, conds, call, hist
  <2>6. ASSUME NEW t \in Thread, Lock(t) PROVE NoSleeperPastClose'
    BY <2>6 DEF Lock, IInv, TypeOK, CallOK, MutexOK, SleepOK, LiveOK,
       Busy, Holding, In, Taking, Goto, Result, ring, conds, call, hist
  <2>7. ASSUME NEW t \in Thread, Unlock(t) PROVE NoSleeperPastClose'
    BY <2>7 DEF Unlock, IInv, TypeOK, CallOK, MutexOK, SleepOK, LiveOK,
       Busy, Holding, In, Taking, Goto, Result, ring, conds, call, hist
  <2>8. ASSUME NEW t \in Thread, SpuriousWakeup(t) PROVE NoSleeperPastClose'
    BY <2>8 DEF SpuriousWakeup, IInv, TypeOK, CallOK, MutexOK, SleepOK, LiveOK,
       Busy, Holding, In, Taking, Goto, Result, ring, conds, call, hist
  <2>9. ASSUME NEW t \in Thread, Broadcast(t) PROVE NoSleeperPastClose'
    BY <2>9 DEF Broadcast, IInv, TypeOK, CallOK, MutexOK, SleepOK, LiveOK,
       Busy, Holding, In, Taking, Goto, Result, ring, conds, call, hist
  <2>10. ASSUME NEW t \in Thread, BroadcastFull(t) PROVE NoSleeperPastClose'
    BY <2>10 DEF BroadcastFull, IInv, TypeOK, CallOK, MutexOK, SleepOK, LiveOK,
       Busy, Holding, In, Taking, Goto, Result, ring, conds, call, hist
  <2>11. ASSUME NEW t \in Thread, SendWait(t) PROVE NoSleeperPastClose'
    BY <2>11 DEF SendWait, IInv, TypeOK, CallOK, MutexOK, SleepOK, LiveOK,
       Busy, Holding, In, Taking, Goto, Result, ring, conds, call, hist
  <2>12. ASSUME NEW t \in Thread, SendRefused(t) PROVE NoSleeperPastClose'
    BY <2>12 DEF SendRefused, IInv, TypeOK, CallOK, MutexOK, SleepOK, LiveOK,
       Busy, Holding, In, Taking, Goto, Result, ring, conds, call, hist
  <2>13. ASSUME NEW t \in Thread, Enqueue(t) PROVE NoSleeperPastClose'
    BY <2>13 DEF Enqueue, IInv, TypeOK, CallOK, MutexOK, SleepOK, LiveOK,
       Busy, Holding, In, Taking, Goto, Result, ring, conds, call, hist
  <2>14. ASSUME NEW t \in Thread, RecvWait(t) PROVE NoSleeperPastClose'
    BY <2>14 DEF RecvWait, IInv, TypeOK, CallOK, MutexOK, SleepOK, LiveOK,
       Busy, Holding, In, Taking, Goto, Result, ring, conds, call, hist
  <2>15. ASSUME NEW t \in Thread, RecvNothing(t) PROVE NoSleeperPastClose'
    BY <2>15 DEF RecvNothing, IInv, TypeOK, CallOK, MutexOK, SleepOK, LiveOK,
       Busy, Holding, In, Taking, Goto, Result, ring, conds, call, hist
  <2>16. ASSUME NEW t \in Thread, Dequeue(t) PROVE NoSleeperPastClose'
    BY <2>16 DEF Dequeue, IInv, TypeOK, CallOK, MutexOK, SleepOK, LiveOK,
       Busy, Holding, In, Taking, Goto, Result, ring, conds, call, hist
  <2>17. ASSUME NEW t \in Thread, Close(t) PROVE NoSleeperPastClose'
    BY <2>17 DEF Close, IInv, TypeOK, CallOK, MutexOK, SleepOK, LiveOK,
       Busy, Holding, In, Taking, Goto, Result, ring, conds, call, hist
  <2>18. ASSUME NEW t \in Thread, Length(t) PROVE NoSleeperPastClose'
    BY <2>18 DEF Length, IInv, TypeOK, CallOK, MutexOK, SleepOK, LiveOK,
       Busy, Holding, In, Taking, Goto, Result, ring, conds, call, hist
  <2>19. ASSUME NEW t \in Thread, Signal(t) PROVE NoSleeperPastClose'
    <3>1. notEmpty' \subseteq notEmpty /\ notFull' \subseteq notFull
      BY <2>19 DEF Signal, Woken
    <3>2. closed' = closed /\ mtx = t /\ pc[t] = "signal"
      BY <2>19 DEF Signal, IInv, MutexOK, Holding
    <3>3. \A u \in Thread : pc[u] \notin {"bcastEmpty", "bcastFull"}
      BY <3>2 DEF IInv, MutexOK, Holding
    <3> QED BY <3>1, <3>2, <3>3
  <2>20. ASSUME NEW t \in Thread, NEW o \in LockedOp,
             NEW v \in Value \cup {NoArg}, Call(t, o, v)
       PROVE  NoSleeperPastClose'
    BY <2>20 DEF Call, IInv, TypeOK, CallOK, MutexOK, SleepOK, LiveOK,
       Busy, Holding, In, Taking, Goto, Result, ring, conds, call, hist
  <2>21. CASE Free
    BY <2>21 DEF Free, conds
  <2>22. CASE UNCHANGED vars
    BY <2>22 DEF vars, conds
  <2> QED
    BY <2>1, <2>2, <2>3, <2>4, <2>5, <2>6, <2>7, <2>8, <2>9, <2>10, <2>11, <2>12,
       <2>13, <2>14, <2>15, <2>16, <2>17, <2>18, <2>19, <2>20, <2>21, <2>22
    DEF Next, Calls, Body, Wakeup
<1> QED BY Invariance, <1>1, <1>2, PTL DEF Spec

-----------------------------------------------------------------------------
(* Refinement of the bounded queue                                          *)

\* A step that moves one thread moves the status of that thread alone.
LEMMA StatusGoto ==
  ASSUME IInv, NEW t \in Thread, NEW l, Goto(t, l)
  PROVE  Status' = [Status EXCEPT ![t] = Phase(l)]
BY DEF Goto, Status, IInv, TypeOK

\* A step under the mutex that changes no phase is invisible to the queue.
LEMMA Invisible ==
  ASSUME IInv, NEW t \in Thread,
         \/ Lock(t) \/ Unlock(t) \/ SpuriousWakeup(t) \/ Signal(t)
         \/ Broadcast(t) \/ BroadcastFull(t) \/ SendWait(t) \/ RecvWait(t)
  PROVE  UNCHANGED Abstract!vars
<1>1. UNCHANGED <<chan, ring, closed, call, ret>>
  BY DEF Lock, Unlock, SpuriousWakeup, Signal, Broadcast, BroadcastFull,
     SendWait, RecvWait
<1>2. \A u \in Thread : Phase(pc'[u]) = Phase(pc[u])
  <2> USE DEF IInv, TypeOK, SleepOK, CallOK, Phase, Busy, Goto
  <2>1. CASE Lock(t)
    BY <2>1 DEF Lock
  <2>2. CASE Unlock(t)
    BY <2>2 DEF Unlock
  <2>3. CASE SpuriousWakeup(t)
    BY <2>3 DEF SpuriousWakeup
  <2>4. CASE Signal(t)
    <3> DEFINE set == IF op[t] = "send" THEN notEmpty ELSE notFull
    <3>1. set \subseteq {u \in Thread : pc[u] = "wait"}
      OBVIOUS
    <3>2. \/ pc' = [pc EXCEPT ![t] = "unlock"]
          \/ \E w \in set : pc' = [pc EXCEPT ![w] = "relock", ![t] = "unlock"]
      BY <2>4 DEF Signal, Wake
    <3> HIDE DEF set
    <3>3. pc[t] = "signal"
      BY <2>4 DEF Signal
    <3>4. CASE pc' = [pc EXCEPT ![t] = "unlock"]
      BY <3>3, <3>4
    <3>5. ASSUME NEW w \in set, pc' = [pc EXCEPT ![w] = "relock", ![t] = "unlock"]
          PROVE  \A u \in Thread : Phase(pc'[u]) = Phase(pc[u])
      <4>1. w \in Thread /\ pc[w] = "wait"
        BY <3>1
      <4> QED BY <3>3, <3>5, <4>1
    <3> QED BY <3>2, <3>4, <3>5
  <2>5. CASE Broadcast(t)
    BY <2>5 DEF Broadcast
  <2>6. CASE BroadcastFull(t)
    BY <2>6 DEF BroadcastFull
  <2>7. CASE SendWait(t)
    BY <2>7 DEF SendWait, In
  <2>8. CASE RecvWait(t)
    BY <2>8 DEF RecvWait, In
  <2> QED BY <2>1, <2>2, <2>3, <2>4, <2>5, <2>6, <2>7, <2>8
<1>3. Status' = Status
  BY <1>2 DEF Status
<1>4. Content' = Content
  BY <1>1 DEF ring, Content
<1> QED BY <1>1, <1>3, <1>4 DEF Abstract!vars, call, ring

\* Every operation of the ring takes effect at one step of its critical
\* section: the channel implements the bounded queue of FifoChannel.
THEOREM Refinement == Spec => Linearizable
<1>1. Init => Abstract!Init
  <2> SUFFICES ASSUME Init PROVE Abstract!Init
    OBVIOUS
  <2>1. Content = <<>>
    BY DEF Init, Content, Window
  <2>2. Status = [t \in Thread |-> "idle"]
    BY DEF Init, Status, Phase
  <2> QED BY <2>1, <2>2 DEF Init, Abstract!Init
<1>2. ASSUME IInv, [Next]_vars PROVE [Abstract!Next]_(Abstract!vars)
  <2> USE <1>2
  <2>0. /\ Content \in Seq(Value \cup {Garbage}) /\ Len(Content) = count
        /\ count \in 0..cap /\ cap \in Nat \ {0}
        /\ Status \in [Thread -> {"idle", "pending", "done"}]
        /\ \A t \in Thread : Status[t] = Phase(pc[t])
    BY ContentSeq DEF IInv, TypeOK, Status, Phase
  <2>1. ASSUME NEW t \in Thread, New(t) PROVE Abstract!New(t)
    <3>1. Status' = Status /\ UNCHANGED <<op, arg, ret>>
      BY <2>1 DEF New, Status, call
    <3>2. PICK c \in CapArg : EmptyRing(IF c <= 0 THEN 1 ELSE c)
      BY <2>1 DEF New
    <3>3. cap' = IF c <= 0 THEN 1 ELSE c
      BY <3>2 DEF EmptyRing
    <3>4. Status[t] = "idle"
      BY <2>0, <2>1 DEF New, Phase
    <3> QED BY <2>1, <3>1, <3>3, <3>4, NewContent DEF New, Abstract!New
  <2>2. ASSUME NEW t \in Thread, NewFails(t) PROVE Abstract!NewFails(t)
    BY <2>0, <2>2 DEF NewFails, Abstract!NewFails, Status, Phase, call, ring, Content
  <2>3. ASSUME NEW t \in Thread, NullCall(t) PROVE Abstract!NullCall(t)
    <3>1. Status' = [Status EXCEPT ![t] = "done"]
      BY <2>3, StatusGoto DEF NullCall, Phase, Busy
    <3> QED
      BY <2>0, <2>3, <3>1
      DEF NullCall, Abstract!NullCall, Abstract!LockedOp, LockedOp, Result, Phase, ring, Content
  <2>4. ASSUME NEW t \in Thread, CapCall(t) PROVE Abstract!CapCall(t)
    <3>1. Status' = [Status EXCEPT ![t] = "done"]
      BY <2>4, StatusGoto DEF CapCall, Phase, Busy
    <3> QED
      BY <2>0, <2>4, <3>1 DEF CapCall, Abstract!CapCall, Result, Phase, ring, Content
  <2>5. ASSUME NEW t \in Thread, Return(t) PROVE Abstract!Return(t)
    <3>1. Status' = [Status EXCEPT ![t] = "idle"]
      BY <2>5, StatusGoto DEF Return, Phase
    <3> QED
      BY <2>0, <2>5, <3>1 DEF Return, Abstract!Return, Result, Phase, Busy, ring, Content
  <2>6. ASSUME NEW t \in Thread, NEW o \in LockedOp, NEW v \in Value \cup {NoArg},
               Call(t, o, v)
        PROVE  Abstract!Call(t)
    <3>1. Status' = [Status EXCEPT ![t] = "pending"]
      BY <2>6, StatusGoto DEF Call, Phase, Busy
    <3>2. (o = "send") <=> (v # NoArg)
      BY <2>6, ChannelAssumption DEF Call
    <3> QED
      BY <2>0, <2>6, <3>1, <3>2
      DEF Call, Abstract!Call, Abstract!LockedOp, LockedOp, Phase, ring, Content
  <2>7. ASSUME NEW t \in Thread, Enqueue(t) PROVE Abstract!Send(t)
    <3>1. Status' = [Status EXCEPT ![t] = "done"] /\ Status[t] = "pending"
      BY <2>0, <2>7, StatusGoto DEF Enqueue, In, Phase, Busy
    <3>2. Content' = Append(Content, arg[t])
      BY <2>7, EnqueueContent
    <3> QED
      BY <2>0, <2>7, <3>1, <3>2
      DEF Enqueue, Abstract!Send, Abstract!Pending, Abstract!Answer, In, Result, call
  <2>8. ASSUME NEW t \in Thread, SendRefused(t) PROVE Abstract!SendRefused(t)
    <3>1. Status' = [Status EXCEPT ![t] = "done"] /\ Status[t] = "pending"
      BY <2>0, <2>8, StatusGoto DEF SendRefused, In, Phase, Busy
    <3>2. Content' = Content
      BY <2>8 DEF SendRefused, ring, Content
    <3> QED
      BY <2>8, <3>1, <3>2
      DEF SendRefused, Abstract!SendRefused, Abstract!Pending, Abstract!Answer, In,
          Result, call, ring
  <2>9. ASSUME NEW t \in Thread, Dequeue(t) PROVE Abstract!Receive(t)
    <3>1. Status' = [Status EXCEPT ![t] = "done"] /\ Status[t] = "pending"
      BY <2>0, <2>9, StatusGoto DEF Dequeue, In, Taking, Phase, Busy
    <3>2. Content # <<>> /\ buf[head] = Head(Content) /\ Content' = Tail(Content)
      BY <2>9, DequeueContent
    <3> QED
      BY <2>9, <3>1, <3>2
      DEF Dequeue, Abstract!Receive, Abstract!Pending, Abstract!Answer, In, Result,
          Taking, call
  <2>10. ASSUME NEW t \in Thread, RecvNothing(t) PROVE Abstract!ReceiveNothing(t)
    <3>1. Status' = [Status EXCEPT ![t] = "done"] /\ Status[t] = "pending"
      BY <2>0, <2>10, StatusGoto DEF RecvNothing, In, Phase, Busy
    <3>2. Content' = Content
      BY <2>10 DEF RecvNothing, ring, Content
    <3>3. Content = <<>>
      BY <2>0, <2>10, EmptySeq DEF RecvNothing
    <3> QED
      BY <2>10, <3>1, <3>2, <3>3
      DEF RecvNothing, Abstract!ReceiveNothing, Abstract!Pending, Abstract!Answer, In,
          Result, call, ring
  <2>11. ASSUME NEW t \in Thread, Close(t) PROVE Abstract!Close(t)
    <3>1. Status' = [Status EXCEPT ![t] = "done"] /\ Status[t] = "pending"
      BY <2>0, <2>11, StatusGoto DEF Close, In, Phase, Busy
    <3>2. Content' = Content
      BY <2>11 DEF Close, ring, Content
    <3> QED
      BY <2>11, <3>1, <3>2
      DEF Close, Abstract!Close, Abstract!Pending, Abstract!Answer, In, Result, call, ring
  <2>12. ASSUME NEW t \in Thread, Length(t) PROVE Abstract!Length(t)
    <3>1. Status' = [Status EXCEPT ![t] = "done"] /\ Status[t] = "pending"
      BY <2>0, <2>12, StatusGoto DEF Length, In, Phase, Busy
    <3>2. Content' = Content
      BY <2>12 DEF Length, ring, Content
    <3> QED
      BY <2>0, <2>12, <3>1, <3>2
      DEF Length, Abstract!Length, Abstract!Pending, Abstract!Answer, In, Result, call, ring
  <2>13. ASSUME Free PROVE Abstract!Free
    BY <2>0, <2>13 DEF Free, Abstract!Free, Status, Phase, call, ring, Content
  <2>14. CASE UNCHANGED vars
    BY <2>14 DEF vars, Abstract!vars, Status, call, ring, Content
  <2>15. ASSUME NEW t \in Thread, Calls(t) \/ Return(t) PROVE Abstract!Next
    BY <2>1, <2>2, <2>3, <2>4, <2>5, <2>6, <2>15 DEF Calls, Abstract!Next
  <2>16. ASSUME NEW t \in Thread, Lock(t) \/ Wakeup(t) \/ Unlock(t) \/ SpuriousWakeup(t)
         PROVE  UNCHANGED Abstract!vars
    BY <2>16, Invisible DEF Wakeup
  <2>17. ASSUME NEW t \in Thread, Body(t)
         PROVE  Abstract!Next \/ UNCHANGED Abstract!vars
    <3>1. CASE SendWait(t) \/ RecvWait(t)
      BY <3>1, Invisible
    <3>2. CASE ~(SendWait(t) \/ RecvWait(t))
      BY <2>7, <2>8, <2>9, <2>10, <2>11, <2>12, <2>17, <3>2 DEF Body, Abstract!Next
    <3> QED BY <3>1, <3>2
  <2>18. CASE Next
    BY <2>13, <2>15, <2>16, <2>17, <2>18 DEF Next, Abstract!Next
  <2> QED BY <2>14, <2>18
<1> QED BY Invariance, <1>1, <1>2, PTL DEF Spec, Linearizable, Abstract!Spec

-----------------------------------------------------------------------------
(* Wakeups                                                                  *)

\* Sets of threads are finite, and a larger set has no fewer members.
LEMMA ThreadSets ==
  ASSUME NEW A \in SUBSET Thread
  PROVE  /\ IsFiniteSet(A) /\ Cardinality(A) \in Nat
         /\ \A B \in SUBSET A : Cardinality(B) <= Cardinality(A)
<1>1. IsFiniteSet(A)
  BY FS_Subset
<1> QED BY <1>1, FS_Subset, FS_CardinalityType

LEMMA HelperSets ==
  /\ ValueHelpers \in SUBSET Thread /\ SpaceHelpers \in SUBSET Thread
  /\ ValueHelpers' \in SUBSET Thread /\ SpaceHelpers' \in SUBSET Thread
BY DEF ValueHelpers, SpaceHelpers, Awake, Signalling

\* A step that leaves the ring alone, puts nobody to sleep and takes no helper
\* from those who still sleep keeps both halves.
LEMMA EnoughHelpers ==
  ASSUME IInv, NoLostWakeup, closed' = closed, UNCHANGED ring,
         notEmpty' \subseteq notEmpty, notFull' \subseteq notFull,
         notEmpty' = {} \/ Cardinality(ValueHelpers) <= Cardinality(ValueHelpers'),
         notFull' = {} \/ Cardinality(SpaceHelpers) <= Cardinality(SpaceHelpers')
  PROVE  NoLostWakeup'
<1>1. /\ Cardinality(ValueHelpers) \in Nat /\ Cardinality(ValueHelpers') \in Nat
      /\ Cardinality(SpaceHelpers) \in Nat /\ Cardinality(SpaceHelpers') \in Nat
  BY HelperSets, ThreadSets
<1>2. count \in Nat /\ cap \in Nat /\ count' = count /\ cap' = cap
  BY DEF IInv, TypeOK, ring
<1>3. notEmpty' # {} => notEmpty # {}
  OBVIOUS
<1>4. notFull' # {} => notFull # {}
  OBVIOUS
<1> QED BY <1>1, <1>2, <1>3, <1>4 DEF NoLostWakeup

LEMMA MoreHelpers ==
  ASSUME IInv, NoLostWakeup, closed' = closed, UNCHANGED ring,
         notEmpty' \subseteq notEmpty, notFull' \subseteq notFull,
         ValueHelpers \subseteq ValueHelpers', SpaceHelpers \subseteq SpaceHelpers'
  PROVE  NoLostWakeup'
<1>1. /\ Cardinality(ValueHelpers) <= Cardinality(ValueHelpers')
      /\ Cardinality(SpaceHelpers) <= Cardinality(SpaceHelpers')
  BY HelperSets, ThreadSets
<1> QED BY <1>1, EnoughHelpers

\* Trading one helper for another keeps their number.
LEMMA Exchange ==
  ASSUME NEW A \in SUBSET Thread, NEW t \in A, NEW w \in Thread \ A
  PROVE  Cardinality((A \ {t}) \cup {w}) = Cardinality(A)
<1>1. IsFiniteSet(A) /\ Cardinality(A) \in Nat
  BY ThreadSets
<1>2. IsFiniteSet(A \ {t}) /\ Cardinality(A \ {t}) = Cardinality(A) - 1
  BY <1>1, FS_RemoveElement
<1>3. Cardinality((A \ {t}) \cup {w}) = Cardinality(A \ {t}) + 1
  BY <1>2, FS_AddElement
<1> QED BY <1>1, <1>2, <1>3

\* While a receiver sleeps on an open channel, every buffered value has a
\* receiver awake for it or a signal on its way; while a sender sleeps, every
\* free slot has.  So a value and a sleeping receiver never wait for each other.
THEOREM NoWakeupLost == Spec => []NoLostWakeup
<1>1. Init => NoLostWakeup
  BY DEF Init, NoLostWakeup
<1>2. ASSUME IInv, NoLostWakeup, [Next]_vars PROVE NoLostWakeup'
  <2> USE <1>2
  <2> DEFINE V == ValueHelpers
             W == SpaceHelpers
  <2>0. /\ V \in SUBSET Thread /\ IsFiniteSet(V) /\ Cardinality(V) \in Nat
        /\ W \in SUBSET Thread /\ IsFiniteSet(W) /\ Cardinality(W) \in Nat
        /\ count \in Nat /\ cap \in Nat
        /\ Cardinality(V') \in Nat /\ Cardinality(W') \in Nat
    BY HelperSets, ThreadSets DEF IInv, TypeOK
  \* The calls, the lock and the spurious wakeups only add helpers.
  <2>1. ASSUME NEW t \in Thread, New(t) PROVE NoLostWakeup'
    BY <2>1 DEF New, NoLostWakeup
  <2>2. ASSUME NEW t \in Thread,
               NewFails(t) \/ NullCall(t) \/ CapCall(t) \/ Return(t) \/ Lock(t)
               \/ Unlock(t) \/ SpuriousWakeup(t) \/ Length(t)
        PROVE  NoLostWakeup'
    <3>1. /\ closed' = closed /\ UNCHANGED ring
          /\ notEmpty' \subseteq notEmpty /\ notFull' \subseteq notFull
      BY <2>2 DEF NewFails, NullCall, CapCall, Return, Lock, Unlock, SpuriousWakeup,
                  Length, conds
    <3>2. ASSUME NewFails(t) \/ NullCall(t) \/ CapCall(t) \/ Return(t)
          PROVE  V \subseteq V' /\ W \subseteq W'
      BY <3>2 DEF NewFails, NullCall, CapCall, Return, Goto, call, IInv, TypeOK,
                  ValueHelpers, SpaceHelpers, Awake, Signalling
    <3>3. ASSUME Lock(t) \/ Unlock(t) \/ SpuriousWakeup(t) \/ Length(t)
          PROVE  V \subseteq V' /\ W \subseteq W'
      BY <3>3 DEF Lock, Unlock, SpuriousWakeup, Length, In, Goto, call, IInv, TypeOK,
                  ValueHelpers, SpaceHelpers, Awake, Signalling, Taking
    <3>4. V \subseteq V' /\ W \subseteq W'
      BY <2>2, <3>2, <3>3
    <3> QED BY <3>1, <3>4, MoreHelpers
  <2>3. ASSUME NEW t \in Thread, NEW o \in LockedOp, NEW v \in Value \cup {NoArg},
               Call(t, o, v)
        PROVE  NoLostWakeup'
    <3>1. V \subseteq V' /\ W \subseteq W'
      BY <2>3 DEF Call, Goto, IInv, TypeOK, ValueHelpers, SpaceHelpers,
                    Awake, Signalling
    <3> QED BY <2>3, <3>1, MoreHelpers DEF Call, conds
  <2>4. ASSUME Free \/ UNCHANGED vars PROVE NoLostWakeup'
    <3>1. V \subseteq V' /\ W \subseteq W'
      BY <2>4 DEF Free, vars, call, ValueHelpers, SpaceHelpers, Awake, Signalling
    <3> QED BY <2>4, <3>1, MoreHelpers DEF Free, vars, conds
  \* The closing thread leaves nobody asleep, and a closed channel owes nothing.
  <2>5. ASSUME NEW t \in Thread, Close(t) \/ SendRefused(t) PROVE NoLostWakeup'
    BY <2>5 DEF Close, SendRefused, NoLostWakeup
  <2>6. ASSUME NEW t \in Thread, Broadcast(t) \/ BroadcastFull(t) PROVE NoLostWakeup'
    <3>1. op[t] = "close"
      BY <2>6 DEF Broadcast, BroadcastFull, IInv, CallOK
    <3>2. V \subseteq V' /\ W \subseteq W'
      BY <2>6, <3>1 DEF Broadcast, BroadcastFull, IInv, TypeOK, SleepOK, call,
                        ValueHelpers, SpaceHelpers, Awake, Signalling, Taking
    <3>3. /\ closed' = closed /\ UNCHANGED ring
          /\ notEmpty' \subseteq notEmpty /\ notFull' \subseteq notFull
      BY <2>6 DEF Broadcast, BroadcastFull
    <3> QED BY <3>2, <3>3, MoreHelpers
  \* A signal hands the place of the signalling thread to the one it wakes.
  <2>7. ASSUME NEW t \in Thread, Signal(t) PROVE NoLostWakeup'
    <3> DEFINE set == IF op[t] = "send" THEN notEmpty ELSE notFull
    <3>1. /\ op[t] \in {"send", "recv", "try"} /\ pc[t] = "signal"
          /\ UNCHANGED <<ring, closed, op>>
          /\ notEmpty' \subseteq notEmpty /\ notFull' \subseteq notFull
      BY <2>7 DEF Signal, Woken, IInv, CallOK, call
    <3>2. CASE set = {}
      <4>1. pc' = [pc EXCEPT ![t] = "unlock"]
        BY <2>7, <3>2 DEF Signal, Wake, Goto
      <4>2. CASE op[t] = "send"
        <5>1. notEmpty' = {} /\ W \subseteq W'
          BY <3>1, <3>2, <4>1, <4>2 DEF IInv, TypeOK, ValueHelpers, SpaceHelpers,
                    Awake, Signalling, Taking
        <5>2. Cardinality(W) <= Cardinality(W')
          BY <5>1, HelperSets, ThreadSets
        <5> QED BY <3>1, <5>1, <5>2, EnoughHelpers
      <4>3. CASE op[t] # "send"
        <5>1. notFull' = {} /\ V \subseteq V'
          BY <3>1, <3>2, <4>1, <4>3 DEF IInv, TypeOK, ValueHelpers, SpaceHelpers,
                    Awake, Signalling, Taking
        <5>2. Cardinality(V) <= Cardinality(V')
          BY <5>1, HelperSets, ThreadSets
        <5> QED BY <3>1, <5>1, <5>2, EnoughHelpers
      <4> QED BY <4>2, <4>3
    <3>3. CASE set # {}
      <4>1. PICK w \in set : pc' = [pc EXCEPT ![w] = "relock", ![t] = "unlock"]
        BY <2>7, <3>3 DEF Signal, Wake
      <4>2. w \in Thread /\ w # t /\ pc[w] = "wait"
        BY <3>1 DEF IInv, SleepOK, TypeOK
      <4>3. CASE op[t] = "send"
        <5>1. op[w] = "recv"
          BY <4>2, <4>3 DEF IInv, SleepOK
        <5>2. V' = (V \ {t}) \cup {w} /\ t \in V /\ w \notin V /\ W \subseteq W'
          BY <3>1, <4>1, <4>2, <4>3, <5>1 DEF IInv, TypeOK, ValueHelpers, SpaceHelpers,
                    Awake, Signalling, Taking
        <5>3. Cardinality(V') = Cardinality(V) /\ Cardinality(W) <= Cardinality(W')
          BY <4>2, <5>2, Exchange, HelperSets, ThreadSets
        <5> QED BY <2>0, <3>1, <5>3, EnoughHelpers
      <4>4. CASE op[t] # "send"
        <5>1. op[w] = "send"
          BY <4>2, <4>4 DEF IInv, SleepOK
        <5>2. W' = (W \ {t}) \cup {w} /\ t \in W /\ w \notin W /\ V \subseteq V'
          BY <3>1, <4>1, <4>2, <4>4, <5>1 DEF IInv, TypeOK, ValueHelpers, SpaceHelpers,
                    Awake, Signalling, Taking
        <5>3. Cardinality(W') = Cardinality(W) /\ Cardinality(V) <= Cardinality(V')
          BY <4>2, <5>2, Exchange, HelperSets, ThreadSets
        <5> QED BY <2>0, <3>1, <5>3, EnoughHelpers
      <4> QED BY <4>3, <4>4
    <3> QED BY <3>2, <3>3
  \* A thread goes to sleep, or gives up, only when the other half owes nothing.
  <2>8. ASSUME NEW t \in Thread, SendWait(t) PROVE NoLostWakeup'
    <3>1. V \subseteq V'
      BY <2>8 DEF SendWait, In, Goto, call, IInv, TypeOK, ValueHelpers, SpaceHelpers,
                    Awake, Signalling, Taking
    <3>2. Cardinality(V) <= Cardinality(V')
      BY <3>1, HelperSets, ThreadSets
    <3>3. count' = count /\ cap' = cap /\ cap - count = 0 /\ notEmpty' = notEmpty
          /\ closed' = closed
      BY <2>0, <2>8 DEF SendWait, ring
    <3> QED BY <2>0, <3>2, <3>3 DEF NoLostWakeup
  <2>9. ASSUME NEW t \in Thread, RecvWait(t) \/ RecvNothing(t) PROVE NoLostWakeup'
    <3>1. W \subseteq W'
      BY <2>9 DEF RecvWait, RecvNothing, In, Goto, call, IInv, TypeOK, ValueHelpers, SpaceHelpers, Awake,
                  Signalling, Taking
    <3>2. Cardinality(W) <= Cardinality(W')
      BY <3>1, HelperSets, ThreadSets
    <3>3. count' = count /\ cap' = cap /\ count = 0 /\ notFull' = notFull
          /\ closed' = closed
      BY <2>9 DEF RecvWait, RecvNothing, ring, conds
    <3> QED BY <2>0, <3>2, <3>3 DEF NoLostWakeup
  \* The thread that changes the count pays for it: it stops being a helper of
  \* one half and starts being one of the other.
  <2>10. ASSUME NEW t \in Thread, Enqueue(t) PROVE NoLostWakeup'
    <3>1. V' = V \cup {t} /\ t \notin V /\ W' = W \ {t} /\ t \in W
      BY <2>10 DEF Enqueue, In, Goto, call, IInv, TypeOK, ValueHelpers, SpaceHelpers,
                    Awake, Signalling, Taking
    <3>2. Cardinality(V') = Cardinality(V) + 1 /\ Cardinality(W') = Cardinality(W) - 1
      BY <2>0, <3>1, FS_AddElement, FS_RemoveElement
    <3>3. count' = count + 1 /\ cap' = cap /\ UNCHANGED conds /\ closed' = closed
      BY <2>10 DEF Enqueue
    <3> QED BY <2>0, <3>2, <3>3 DEF NoLostWakeup, conds
  <2>11. ASSUME NEW t \in Thread, Dequeue(t) PROVE NoLostWakeup'
    <3>1. W' = W \cup {t} /\ t \notin W /\ V' = V \ {t} /\ t \in V
      BY <2>11 DEF Dequeue, In, Goto, call, IInv, TypeOK, ValueHelpers, SpaceHelpers,
                    Awake, Signalling, Taking
    <3>2. Cardinality(W') = Cardinality(W) + 1 /\ Cardinality(V') = Cardinality(V) - 1
      BY <2>0, <3>1, FS_AddElement, FS_RemoveElement
    <3>3. count' = count - 1 /\ cap' = cap /\ UNCHANGED conds /\ closed' = closed
      BY <2>11 DEF Dequeue
    <3> QED BY <2>0, <3>2, <3>3 DEF NoLostWakeup, conds
  <2> QED
    BY <2>1, <2>2, <2>3, <2>4, <2>5, <2>6, <2>7, <2>8, <2>9, <2>10, <2>11
    DEF Next, Calls, Body, Wakeup
<1> QED BY Invariance, <1>1, <1>2, PTL DEF Spec
=============================================================================
