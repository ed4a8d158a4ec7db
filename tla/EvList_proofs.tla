---------------------------- MODULE EvList_proofs ----------------------------
(***************************************************************************)
(* Proofs about EvList, for every list size, every set of descriptors and  *)
(* any number of push_evlist calls.                                        *)
(***************************************************************************)
EXTENDS EvList, TLAPS

\* The worker's labels inside a critical section.
WorkerInside == {"check", "unlock", "popBody", "popUnlock", "updBody", "updUnlock",
                 "popFailed"}

\* Who holds the mutex, as far as the program counters tell. A scheduler outside
\* its critical section may hold it too, after an overflow.
LockInv ==
  /\ pc["worker"] \in WorkerInside => mutex_lock = "worker"
  /\ pc["iosched"] \in {"pushBody", "pushUnlock"} => mutex_lock = "iosched"
  /\ cv_barrier # {} => pc["worker"] = "asleep"

\* What the worker still knows of n_ev after its unlocked read: only it counts down.
LoopInv == pc["worker"] \in {"popLock", "popBody"} => n_ev > 0

\* The scheduler has an event in hand while it pushes.
ArgInv == pc["iosched"] \in {"pushLock", "pushBody"} => fd \in Fd

\* Where the indices stand until the first MAX_EVENT_QUEUE events are popped.
IndexInv ==
  /\ i1_ev = Len(popped)
  /\ Len(popped) <= MAX_EVENT_QUEUE =>
       i2_ev = IF Len(pushed) <= MAX_EVENT_QUEUE THEN Len(pushed)
                                                 ELSE Len(pushed) - MAX_EVENT_QUEUE

ControlInv == LockInv /\ LoopInv /\ ArgInv /\ NoLostWakeup
DataInv    == CountExact /\ IndexInv /\ PendingStored /\ FifoUntilWrap
IInv       == TypeOK /\ ControlInv /\ DataInv

USE MaxQueueAssumption, MaxPushAssumption

\* A step that leaves the list and the histories alone keeps what is said of them.
LEMMA DataFrame == DataInv /\ UNCHANGED <<list, hist>> => DataInv'
BY DEF DataInv, CountExact, IndexInv, PendingStored, FifoUntilWrap, SlotOf, list, hist

\* A slot of an event that waits is a slot of the array.
LEMMA SlotOfPending ==
  ASSUME TypeOK, CountExact, NEW k \in Len(popped) + 1 .. Len(pushed)
  PROVE  SlotOf(k) \in Slot
BY DEF TypeOK, CountExact, SlotOf, Slot

\* Two events that wait are in two slots.
LEMMA SlotOfInjective ==
  ASSUME TypeOK, CountExact,
         NEW j \in Len(popped) + 1 .. Len(pushed),
         NEW k \in Len(popped) + 1 .. Len(pushed),
         j # k
  PROVE  SlotOf(j) # SlotOf(k)
BY DEF TypeOK, CountExact, SlotOf

\* The worker and the scheduler start outside their critical sections.
LEMMA InitIInv == Init => IInv
<1> SUFFICES ASSUME Init PROVE IInv
  OBVIOUS
<1>1. TypeOK
  BY DEF Init, TypeOK, Slot, Thread, IoschedLabel, WorkerLabel
<1>2. ControlInv
  BY DEF Init, ControlInv, LockInv, LoopInv, ArgInv, NoLostWakeup, Thread, WorkerInside
<1>3. DataInv
  BY DEF Init, DataInv, CountExact, IndexInv, PendingStored, FifoUntilWrap
<1> QED
  BY <1>1, <1>2, <1>3 DEF IInv

\* push_evlist's insertion keeps the data invariant: the free slot it writes holds no
\* event that waits, and n_ev counts the new event.
LEMMA InsertData == IInv /\ PushInsert => DataInv' /\ n_ev' \in 1 .. MAX_EVENT_QUEUE
                                          /\ i2_ev' \in 0 .. MAX_EVENT_QUEUE
                                          /\ q_ev' \in [Slot -> Fd \union {0}]
                                          /\ pushed' \in Seq(Fd)
<1> SUFFICES ASSUME IInv, PushInsert
             PROVE  /\ DataInv'
                    /\ n_ev' \in 1 .. MAX_EVENT_QUEUE
                    /\ i2_ev' \in 0 .. MAX_EVENT_QUEUE
                    /\ q_ev' \in [Slot -> Fd \union {0}]
                    /\ pushed' \in Seq(Fd)
  OBVIOUS
<1>t. TypeOK /\ CountExact /\ IndexInv /\ PendingStored /\ FifoUntilWrap
  BY DEF IInv, DataInv
<1>f. fd \in Fd
  BY DEF IInv, ControlInv, ArgInv, PushInsert, Goto
<1>n. n_ev < MAX_EVENT_QUEUE /\ n_ev' = n_ev + 1
  BY <1>t DEF TypeOK, PushInsert, PushFull
<1>e. EndIndex \in Slot /\ i2_ev' = EndIndex + 1
  BY <1>t DEF TypeOK, PushInsert, EndIndex, Slot
<1>p. /\ pushed \in Seq(Fd) /\ pushed' = Append(pushed, fd) /\ pushed' \in Seq(Fd)
      /\ Len(pushed') = Len(pushed) + 1
      /\ pushed'[Len(pushed) + 1] = fd
      /\ \A k \in 1 .. Len(pushed) : pushed'[k] = pushed[k]
  BY <1>t, <1>f DEF TypeOK, PushInsert
<1>o. popped \in Seq(Fd \union {0, Garbage}) /\ Len(popped) \in Nat /\ Len(pushed) \in Nat
  BY <1>t DEF TypeOK
<1>u. UNCHANGED <<i1_ev, popped>>
  BY DEF PushInsert
<1>1. CountExact'
  BY <1>t, <1>n, <1>p, <1>u, <1>o DEF CountExact
<1>2. IndexInv'
  BY <1>t, <1>n, <1>e, <1>p, <1>u, <1>o DEF IndexInv, CountExact, EndIndex, TypeOK
<1>3. PendingStored'
  <2> SUFFICES ASSUME NEW k \in Len(popped') + 1 .. Len(pushed')
               PROVE  (q_ev[SlotOf(k)])' = pushed'[k]
    BY DEF PendingStored
  <2>q. q_ev \in [Slot -> Fd \union {0}] /\ q_ev' = [q_ev EXCEPT ![EndIndex] = fd]
    BY <1>t DEF TypeOK, PushInsert
  <2>1. CASE k = Len(pushed) + 1
    <3>1. SlotOf(k)' = EndIndex
      BY <2>1, <1>e, <1>p, <1>o DEF SlotOf, Slot
    <3> QED
      BY <3>1, <2>1, <2>q, <1>e, <1>p
  <2>2. CASE k # Len(pushed) + 1
    <3>1. k \in Len(popped) + 1 .. Len(pushed)
      BY <2>2, <1>p, <1>o, <1>u
    <3>2. SlotOf(k) \in Slot
      BY <3>1, <1>t, SlotOfPending
    <3>3. SlotOf(k)' = SlotOf(k) /\ SlotOf(k) # EndIndex
      <4> DEFINE d == Len(pushed) - k
      <4>0. n_ev = Len(pushed) - Len(popped) /\ n_ev < MAX_EVENT_QUEUE
        BY <1>t, <1>n DEF CountExact
      <4>1. d \in 0 .. MAX_EVENT_QUEUE - 2 /\ Len(pushed') - k = d + 1
        BY <4>0, <3>1, <1>p, <1>o
      <4> HIDE DEF d
      <4>2. i2_ev \in 0 .. MAX_EVENT_QUEUE
        BY <1>t DEF TypeOK
      <4>3. CASE i2_ev = MAX_EVENT_QUEUE
        BY <4>1, <4>2, <4>3, <1>e DEF SlotOf, EndIndex, d
      <4>4. CASE i2_ev # MAX_EVENT_QUEUE
        BY <4>1, <4>2, <4>4, <1>e DEF SlotOf, EndIndex, d
      <4> QED
        BY <4>3, <4>4
    <3> QED
      BY <3>1, <3>2, <3>3, <2>q, <1>t, <1>p, <1>e, <1>o DEF PendingStored
  <2> QED
    BY <2>1, <2>2
<1>4. FifoUntilWrap'
  BY <1>t, <1>p, <1>u, <1>o, <1>n DEF FifoUntilWrap, CountExact, TypeOK
<1>5. q_ev' \in [Slot -> Fd \union {0}]
  BY <1>t, <1>f DEF TypeOK, PushInsert
<1> QED
  BY <1>1, <1>2, <1>3, <1>4, <1>5, <1>t, <1>n, <1>e, <1>p DEF DataInv, TypeOK, Slot

\* pop_evlist on a list that is not empty keeps the data invariant: until the first
\* MAX_EVENT_QUEUE pops, i1_ev is the slot of the oldest event that waits.
LEMMA TakeData == IInv /\ PopBody => /\ DataInv'
                                     /\ n_ev' = n_ev - 1 /\ n_ev > 0
                                     /\ i1_ev' = i1_ev + 1
                                     /\ popped' \in Seq(Fd \union {0, Garbage})
                                     /\ pc' = [pc EXCEPT !["worker"] = "popUnlock"]
                                     /\ UNCHANGED <<i2_ev, q_ev, mutex_lock, cv_barrier, fd,
                                                    i, n_seen, calls, pushed>>
<1> SUFFICES ASSUME IInv, PopBody
             PROVE  /\ DataInv'
                    /\ n_ev' = n_ev - 1 /\ n_ev > 0
                    /\ i1_ev' = i1_ev + 1
                    /\ popped' \in Seq(Fd \union {0, Garbage})
                    /\ pc' = [pc EXCEPT !["worker"] = "popUnlock"]
                    /\ UNCHANGED <<i2_ev, q_ev, mutex_lock, cv_barrier, fd,
                                   i, n_seen, calls, pushed>>
  OBVIOUS
<1>t. TypeOK /\ CountExact /\ IndexInv /\ PendingStored /\ FifoUntilWrap
  BY DEF IInv, DataInv
<1>w. pc["worker"] = "popBody"
  BY DEF PopBody, Goto
<1>n. n_ev > 0
  BY <1>w DEF IInv, ControlInv, LoopInv
<1>b. /\ n_ev' = n_ev - 1 /\ i1_ev' = i1_ev + 1
      /\ pc' = [pc EXCEPT !["worker"] = "popUnlock"]
      /\ \E ret \in PopRead(i1_ev) : popped' = Append(popped, ret)
      /\ UNCHANGED <<i2_ev, q_ev, mutex_lock, cv_barrier, fd, i, n_seen, calls, pushed>>
  BY <1>n, <1>t DEF PopBody, Goto, TypeOK
<1>r. PICK ret \in PopRead(i1_ev) : popped' = Append(popped, ret)
  BY <1>b
<1>o. popped \in Seq(Fd \union {0, Garbage}) /\ Len(popped) \in Nat /\ Len(pushed) \in Nat
  BY <1>t DEF TypeOK
<1>x. ret \in Fd \union {0, Garbage}
  BY <1>r, <1>t DEF PopRead, TypeOK
<1>p. /\ popped' \in Seq(Fd \union {0, Garbage})
      /\ Len(popped') = Len(popped) + 1
      /\ popped'[Len(popped) + 1] = ret
      /\ \A k \in 1 .. Len(popped) : popped'[k] = popped[k]
  BY <1>r, <1>x, <1>o
<1>1. CountExact'
  BY <1>t, <1>b, <1>p, <1>o DEF CountExact
<1>2. IndexInv'
  BY <1>t, <1>b, <1>p, <1>o DEF IndexInv
<1>3. PendingStored'
  <2>1. \A k : SlotOf(k)' = SlotOf(k)
    BY <1>b DEF SlotOf
  <2> QED
    BY <2>1, <1>t, <1>b, <1>p, <1>o DEF PendingStored
<1>4. FifoUntilWrap'
  <2> SUFFICES ASSUME NEW k \in 1 .. Len(popped'), k <= MAX_EVENT_QUEUE
               PROVE  popped'[k] = pushed'[k]
    BY DEF FifoUntilWrap
  <2>1. CASE k \in 1 .. Len(popped)
    BY <2>1, <1>t, <1>b, <1>p DEF FifoUntilWrap
  <2>2. CASE k = Len(popped) + 1
    <3>1. k \in Len(popped) + 1 .. Len(pushed)
      BY <2>2, <1>n, <1>t, <1>o DEF CountExact
    <3>2. i1_ev = k - 1 /\ i1_ev \in Slot
      BY <2>2, <1>t, <1>o DEF IndexInv, Slot
    <3>3. SlotOf(k) = i1_ev
      <4>1. n_ev = Len(pushed) - Len(popped) /\ n_ev \in 1 .. MAX_EVENT_QUEUE
        BY <1>t, <1>n DEF CountExact, TypeOK
      <4>2. i2_ev = IF Len(pushed) <= MAX_EVENT_QUEUE THEN Len(pushed)
                                                      ELSE Len(pushed) - MAX_EVENT_QUEUE
        BY <2>2, <1>t, <1>o DEF IndexInv
      <4>3. CASE Len(pushed) <= MAX_EVENT_QUEUE
        BY <4>2, <4>3, <3>1, <3>2, <1>o DEF SlotOf
      <4>4. CASE Len(pushed) > MAX_EVENT_QUEUE
        <5>1. i2_ev - 1 - (Len(pushed) - k) = k - 1 - MAX_EVENT_QUEUE
          BY <4>2, <4>4, <3>1, <1>o
        <5> QED
          BY <5>1, <3>1, <3>2, <1>o DEF SlotOf
      <4> QED
        BY <4>3, <4>4, <1>o
    <3>4. ret = q_ev[i1_ev]
      BY <3>2, <1>r DEF PopRead
    <3> QED
      BY <3>1, <3>3, <3>4, <2>2, <1>p, <1>b, <1>t DEF PendingStored
  <2> QED
    BY <2>1, <2>2, <1>p, <1>o
<1> QED
  BY <1>1, <1>2, <1>3, <1>4, <1>b, <1>n, <1>p DEF DataInv

\* Every step keeps the inductive invariant.
LEMMA StepIInv == IInv /\ [Next]_vars => IInv'
<1> SUFFICES ASSUME IInv, [Next]_vars PROVE IInv'
  OBVIOUS
<1>t. TypeOK /\ ControlInv /\ DataInv
  BY DEF IInv
<1>1. CASE PushCall
  <2>1. TypeOK'
    BY <1>1, <1>t DEF PushCall, Goto, MUTEX_LOCK, MUTEX_UNLOCK, list, hist, TypeOK, Thread,
                   IoschedLabel, WorkerLabel
  <2>2. ControlInv'
    BY <1>1, <1>t DEF PushCall, Goto, MUTEX_LOCK, MUTEX_UNLOCK, list, TypeOK, Thread,
                   ControlInv, LockInv, LoopInv, ArgInv, NoLostWakeup, WorkerInside
  <2>3. DataInv'
    BY <1>1, <1>t, DataFrame DEF PushCall, list, hist
  <2> QED
    BY <2>1, <2>2, <2>3 DEF IInv
<1>2. CASE PushLock
  <2>1. TypeOK'
    BY <1>2, <1>t DEF PushLock, Goto, MUTEX_LOCK, MUTEX_UNLOCK, list, hist, TypeOK, Thread,
                   IoschedLabel, WorkerLabel
  <2>2. ControlInv'
    BY <1>2, <1>t DEF PushLock, Goto, MUTEX_LOCK, MUTEX_UNLOCK, list, TypeOK, Thread,
                   ControlInv, LockInv, LoopInv, ArgInv, NoLostWakeup, WorkerInside
  <2>3. DataInv'
    BY <1>2, <1>t, DataFrame DEF PushLock, list, hist
  <2> QED
    BY <2>1, <2>2, <2>3 DEF IInv
<1>3. CASE PushOverflow
  <2>1. TypeOK'
    BY <1>3, <1>t DEF PushOverflow, Goto, MUTEX_LOCK, MUTEX_UNLOCK, list, hist, TypeOK, Thread,
                   IoschedLabel, WorkerLabel
  <2>2. ControlInv'
    BY <1>3, <1>t DEF PushOverflow, Goto, MUTEX_LOCK, MUTEX_UNLOCK, list, TypeOK, Thread,
                   ControlInv, LockInv, LoopInv, ArgInv, NoLostWakeup, WorkerInside
  <2>3. DataInv'
    BY <1>3, <1>t, DataFrame DEF PushOverflow, list, hist
  <2> QED
    BY <2>1, <2>2, <2>3 DEF IInv
<1>4. CASE PushInsert
  <2>1. /\ DataInv'
        /\ n_ev' \in 1 .. MAX_EVENT_QUEUE
        /\ i2_ev' \in 0 .. MAX_EVENT_QUEUE
        /\ q_ev' \in [Slot -> Fd \union {0}]
        /\ pushed' \in Seq(Fd)
    BY <1>4, InsertData
  <2>2. TypeOK'
    BY <2>1, <1>4, <1>t DEF PushInsert, Wakened, Goto, TypeOK, IoschedLabel, Thread
  <2>3. ControlInv'
    <3>1. n_ev' = n_ev + 1 /\ cv_barrier' = Wakened(n_ev + 1) /\ n_ev \in Nat
      BY <1>4, <1>t DEF PushInsert, TypeOK
    <3>2. NoLostWakeup'
      BY <3>1, <1>t DEF Wakened, ControlInv, NoLostWakeup
    <3>3. LockInv' /\ LoopInv' /\ ArgInv'
      BY <3>1, <1>4, <1>t DEF PushInsert, Goto, Wakened, TypeOK, Thread, ControlInv, LockInv,
                             LoopInv, ArgInv, WorkerInside
    <3> QED
      BY <3>2, <3>3 DEF ControlInv
  <2> QED
    BY <2>1, <2>2, <2>3 DEF IInv
<1>5. CASE PushUnlock
  <2>1. TypeOK'
    BY <1>5, <1>t DEF PushUnlock, Goto, MUTEX_LOCK, MUTEX_UNLOCK, list, hist, TypeOK, Thread,
                   IoschedLabel, WorkerLabel
  <2>2. ControlInv'
    BY <1>5, <1>t DEF PushUnlock, Goto, MUTEX_LOCK, MUTEX_UNLOCK, list, TypeOK, Thread,
                   ControlInv, LockInv, LoopInv, ArgInv, NoLostWakeup, WorkerInside
  <2>3. DataInv'
    BY <1>5, <1>t, DataFrame DEF PushUnlock, list, hist
  <2> QED
    BY <2>1, <2>2, <2>3 DEF IInv
<1>6. CASE WorkerLock
  <2>1. TypeOK'
    BY <1>6, <1>t DEF WorkerLock, Goto, MUTEX_LOCK, MUTEX_UNLOCK, list, hist, TypeOK, Thread,
                   IoschedLabel, WorkerLabel
  <2>2. ControlInv'
    BY <1>6, <1>t DEF WorkerLock, Goto, MUTEX_LOCK, MUTEX_UNLOCK, list, TypeOK, Thread,
                   ControlInv, LockInv, LoopInv, ArgInv, NoLostWakeup, WorkerInside
  <2>3. DataInv'
    BY <1>6, <1>t, DataFrame DEF WorkerLock, list, hist
  <2> QED
    BY <2>1, <2>2, <2>3 DEF IInv
<1>7. CASE WorkerSleep
  <2>1. TypeOK'
    BY <1>7, <1>t DEF WorkerSleep, Goto, MUTEX_LOCK, MUTEX_UNLOCK, list, hist, TypeOK, Thread,
                   IoschedLabel, WorkerLabel
  <2>2. ControlInv'
    BY <1>7, <1>t DEF WorkerSleep, Goto, MUTEX_LOCK, MUTEX_UNLOCK, list, TypeOK, Thread,
                   ControlInv, LockInv, LoopInv, ArgInv, NoLostWakeup, WorkerInside
  <2>3. DataInv'
    BY <1>7, <1>t, DataFrame DEF WorkerSleep, list, hist
  <2> QED
    BY <2>1, <2>2, <2>3 DEF IInv
<1>8. CASE SpuriousWakeup
  <2>1. TypeOK'
    BY <1>8, <1>t DEF SpuriousWakeup, Goto, MUTEX_LOCK, MUTEX_UNLOCK, list, hist, TypeOK, Thread,
                   IoschedLabel, WorkerLabel
  <2>2. ControlInv'
    BY <1>8, <1>t DEF SpuriousWakeup, Goto, MUTEX_LOCK, MUTEX_UNLOCK, list, TypeOK, Thread,
                   ControlInv, LockInv, LoopInv, ArgInv, NoLostWakeup, WorkerInside
  <2>3. DataInv'
    BY <1>8, <1>t, DataFrame DEF SpuriousWakeup, list, hist
  <2> QED
    BY <2>1, <2>2, <2>3 DEF IInv
<1>9. CASE WorkerWake
  <2>1. TypeOK'
    BY <1>9, <1>t DEF WorkerWake, Goto, MUTEX_LOCK, MUTEX_UNLOCK, list, hist, TypeOK, Thread,
                   IoschedLabel, WorkerLabel
  <2>2. ControlInv'
    BY <1>9, <1>t DEF WorkerWake, Goto, MUTEX_LOCK, MUTEX_UNLOCK, list, TypeOK, Thread,
                   ControlInv, LockInv, LoopInv, ArgInv, NoLostWakeup, WorkerInside
  <2>3. DataInv'
    BY <1>9, <1>t, DataFrame DEF WorkerWake, list, hist
  <2> QED
    BY <2>1, <2>2, <2>3 DEF IInv
<1>10. CASE WorkerNoWait
  <2>1. TypeOK'
    BY <1>10, <1>t DEF WorkerNoWait, Goto, MUTEX_LOCK, MUTEX_UNLOCK, list, hist, TypeOK, Thread,
                   IoschedLabel, WorkerLabel
  <2>2. ControlInv'
    BY <1>10, <1>t DEF WorkerNoWait, Goto, MUTEX_LOCK, MUTEX_UNLOCK, list, TypeOK, Thread,
                   ControlInv, LockInv, LoopInv, ArgInv, NoLostWakeup, WorkerInside
  <2>3. DataInv'
    BY <1>10, <1>t, DataFrame DEF WorkerNoWait, list, hist
  <2> QED
    BY <2>1, <2>2, <2>3 DEF IInv
<1>11. CASE WorkerUnlock
  <2>1. TypeOK'
    BY <1>11, <1>t DEF WorkerUnlock, Goto, MUTEX_LOCK, MUTEX_UNLOCK, list, hist, TypeOK, Thread,
                   IoschedLabel, WorkerLabel
  <2>2. ControlInv'
    BY <1>11, <1>t DEF WorkerUnlock, Goto, MUTEX_LOCK, MUTEX_UNLOCK, list, TypeOK, Thread,
                   ControlInv, LockInv, LoopInv, ArgInv, NoLostWakeup, WorkerInside
  <2>3. DataInv'
    BY <1>11, <1>t, DataFrame DEF WorkerUnlock, list, hist
  <2> QED
    BY <2>1, <2>2, <2>3 DEF IInv
<1>12. CASE WorkerLoop
  <2>1. TypeOK'
    BY <1>12, <1>t DEF WorkerLoop, Goto, MUTEX_LOCK, MUTEX_UNLOCK, list, hist, TypeOK, Thread,
                   IoschedLabel, WorkerLabel
  <2>2. ControlInv'
    BY <1>12, <1>t DEF WorkerLoop, Goto, MUTEX_LOCK, MUTEX_UNLOCK, list, TypeOK, Thread,
                   ControlInv, LockInv, LoopInv, ArgInv, NoLostWakeup, WorkerInside
  <2>3. DataInv'
    BY <1>12, <1>t, DataFrame DEF WorkerLoop, list, hist
  <2> QED
    BY <2>1, <2>2, <2>3 DEF IInv
<1>13. CASE PopLock
  <2>1. TypeOK'
    BY <1>13, <1>t DEF PopLock, Goto, MUTEX_LOCK, MUTEX_UNLOCK, list, hist, TypeOK, Thread,
                   IoschedLabel, WorkerLabel
  <2>2. ControlInv'
    BY <1>13, <1>t DEF PopLock, Goto, MUTEX_LOCK, MUTEX_UNLOCK, list, TypeOK, Thread,
                   ControlInv, LockInv, LoopInv, ArgInv, NoLostWakeup, WorkerInside
  <2>3. DataInv'
    BY <1>13, <1>t, DataFrame DEF PopLock, list, hist
  <2> QED
    BY <2>1, <2>2, <2>3 DEF IInv
<1>14. CASE PopBody
  <2>1. /\ DataInv'
        /\ n_ev' = n_ev - 1 /\ n_ev > 0
        /\ i1_ev' = i1_ev + 1
        /\ popped' \in Seq(Fd \union {0, Garbage})
        /\ pc' = [pc EXCEPT !["worker"] = "popUnlock"]
        /\ UNCHANGED <<i2_ev, q_ev, mutex_lock, cv_barrier, fd, i, n_seen, calls, pushed>>
    BY <1>14, TakeData
  <2>2. TypeOK'
    BY <2>1, <1>t DEF TypeOK, WorkerLabel, Thread
  <2>3. ControlInv'
    BY <2>1, <1>14, <1>t DEF PopBody, Goto, TypeOK, Thread, ControlInv, LockInv, LoopInv,
                             ArgInv, NoLostWakeup, WorkerInside
  <2> QED
    BY <2>1, <2>2, <2>3 DEF IInv
<1>15. CASE PopUnlock
  <2>1. TypeOK'
    BY <1>15, <1>t DEF PopUnlock, Goto, MUTEX_LOCK, MUTEX_UNLOCK, list, hist, TypeOK, Thread,
                   IoschedLabel, WorkerLabel
  <2>2. ControlInv'
    BY <1>15, <1>t DEF PopUnlock, Goto, MUTEX_LOCK, MUTEX_UNLOCK, list, TypeOK, Thread,
                   ControlInv, LockInv, LoopInv, ArgInv, NoLostWakeup, WorkerInside
  <2>3. DataInv'
    BY <1>15, <1>t, DataFrame DEF PopUnlock, list, hist
  <2> QED
    BY <2>1, <2>2, <2>3 DEF IInv
<1>16. CASE WorkerRecv
  <2>1. TypeOK'
    BY <1>16, <1>t DEF WorkerRecv, Goto, MUTEX_LOCK, MUTEX_UNLOCK, list, hist, TypeOK, Thread,
                   IoschedLabel, WorkerLabel
  <2>2. ControlInv'
    BY <1>16, <1>t DEF WorkerRecv, Goto, MUTEX_LOCK, MUTEX_UNLOCK, list, TypeOK, Thread,
                   ControlInv, LockInv, LoopInv, ArgInv, NoLostWakeup, WorkerInside
  <2>3. DataInv'
    BY <1>16, <1>t, DataFrame DEF WorkerRecv, list, hist
  <2> QED
    BY <2>1, <2>2, <2>3 DEF IInv
<1>17. CASE UpdateLock
  <2>1. TypeOK'
    BY <1>17, <1>t DEF UpdateLock, Goto, MUTEX_LOCK, MUTEX_UNLOCK, list, hist, TypeOK, Thread,
                   IoschedLabel, WorkerLabel
  <2>2. ControlInv'
    BY <1>17, <1>t DEF UpdateLock, Goto, MUTEX_LOCK, MUTEX_UNLOCK, list, TypeOK, Thread,
                   ControlInv, LockInv, LoopInv, ArgInv, NoLostWakeup, WorkerInside
  <2>3. DataInv'
    BY <1>17, <1>t, DataFrame DEF UpdateLock, list, hist
  <2> QED
    BY <2>1, <2>2, <2>3 DEF IInv
<1>18. CASE UpdateBody
  <2>1. TypeOK'
    BY <1>18, <1>t DEF UpdateBody, Goto, MUTEX_LOCK, MUTEX_UNLOCK, list, hist, TypeOK, Thread,
                   IoschedLabel, WorkerLabel
  <2>2. ControlInv'
    BY <1>18, <1>t DEF UpdateBody, Goto, MUTEX_LOCK, MUTEX_UNLOCK, list, TypeOK, Thread,
                   ControlInv, LockInv, LoopInv, ArgInv, NoLostWakeup, WorkerInside
  <2>3. DataInv'
    BY <1>18, <1>t, DataFrame DEF UpdateBody, list, hist
  <2> QED
    BY <2>1, <2>2, <2>3 DEF IInv
<1>19. CASE UpdateUnlock
  <2>1. TypeOK'
    BY <1>19, <1>t DEF UpdateUnlock, Goto, MUTEX_LOCK, MUTEX_UNLOCK, list, hist, TypeOK, Thread,
                   IoschedLabel, WorkerLabel
  <2>2. ControlInv'
    BY <1>19, <1>t DEF UpdateUnlock, Goto, MUTEX_LOCK, MUTEX_UNLOCK, list, TypeOK, Thread,
                   ControlInv, LockInv, LoopInv, ArgInv, NoLostWakeup, WorkerInside
  <2>3. DataInv'
    BY <1>19, <1>t, DataFrame DEF UpdateUnlock, list, hist
  <2> QED
    BY <2>1, <2>2, <2>3 DEF IInv
<1>20. CASE UNCHANGED vars
  <2>1. DataInv'
    BY <1>20, <1>t, DataFrame DEF vars
  <2>2. TypeOK' /\ ControlInv'
    BY <1>20, <1>t DEF vars, list, hist, TypeOK, ControlInv, LockInv, LoopInv, ArgInv,
                   NoLostWakeup
  <2> QED
    BY <2>1, <2>2 DEF IInv
<1> QED
  BY <1>1, <1>2, <1>3, <1>4, <1>5, <1>6, <1>7, <1>8, <1>9, <1>10, <1>11, <1>12, <1>13, <1>14, <1>15, <1>16, <1>17, <1>18, <1>19, <1>20 DEF Next, Iosched, Worker

\* The inductive invariant holds in every reachable state.
THEOREM Invariance == Spec => []IInv
BY InitIInv, StepIInv, PTL DEF Spec

\* The fields of the list keep their types and ranges: n_ev stays between 0 and
\* MAX_EVENT_QUEUE and i2_ev never passes the end of q_ev.
THEOREM TypeCorrect == Spec => []TypeOK
<1>1. IInv => TypeOK
  BY DEF IInv
<1> QED
  BY <1>1, Invariance, PTL

\* n_ev counts exactly the events that wait, whatever the interleaving of push_evlist,
\* pop_evlist and start_worker's own critical sections.
THEOREM CountCorrect == Spec => []CountExact
<1>1. IInv => CountExact
  BY DEF IInv, DataInv
<1> QED
  BY <1>1, Invariance, PTL

\* pop_evlist is never called on an empty list, so its error return, which would keep
\* the mutex locked, is unreachable.
THEOREM UnderflowFree == Spec => []NoUnderflow
<1>1. IInv => NoUnderflow
  BY DEF IInv, ControlInv, LoopInv, NoUnderflow
<1> QED
  BY <1>1, Invariance, PTL

\* The worker never sleeps while events wait in its list.
THEOREM WakeupNotLost == Spec => []NoLostWakeup
<1>1. IInv => NoLostWakeup
  BY DEF IInv, ControlInv
<1> QED
  BY <1>1, Invariance, PTL

\* An event that waits is never overwritten by push_evlist.
THEOREM NothingOverwritten == Spec => []PendingStored
<1>1. IInv => PendingStored
  BY DEF IInv, DataInv
<1> QED
  BY <1>1, Invariance, PTL

\* The first MAX_EVENT_QUEUE events leave the list in the order they entered it.
THEOREM FifoCorrect == Spec => []FifoUntilWrap
<1>1. IInv => FifoUntilWrap
  BY DEF IInv, DataInv
<1> QED
  BY <1>1, Invariance, PTL

\* Read back from i2_ev, the slots hold what was pushed and not popped.
WaitingIs ==
  /\ Waiting \in Seq(Fd) /\ Len(Waiting) = n_ev
  /\ \A k \in 1 .. n_ev : Waiting[k] = pushed[Len(popped) + k]

LEMMA WaitingEvents == IInv => WaitingIs
<1> SUFFICES ASSUME IInv PROVE WaitingIs
  OBVIOUS
<1>1. TypeOK /\ CountExact /\ PendingStored
  BY DEF IInv, DataInv
<1>2. /\ n_ev \in Nat /\ Len(popped) \in Nat /\ Len(pushed) \in Nat /\ pushed \in Seq(Fd)
      /\ n_ev = Len(pushed) - Len(popped)
  BY <1>1 DEF TypeOK, CountExact
<1>3. ASSUME NEW k \in 1 .. n_ev
      PROVE  Waiting[k] = pushed[Len(popped) + k] /\ Waiting[k] \in Fd
  <2>1. PICK j \in Len(popped) + 1 .. Len(pushed) : j = Len(popped) + k
    BY <1>2
  <2>2. Len(pushed) - j = n_ev - k
    BY <1>2, <2>1
  <2>3. Waiting[k] = q_ev[SlotOf(j)]
    BY <2>2 DEF Waiting, SlotOf
  <2>4. pushed[j] \in Fd
    BY <1>2, <2>1
  <2> QED BY <1>1, <2>1, <2>3, <2>4 DEF PendingStored
<1>4. DOMAIN Waiting = 1 .. n_ev /\ Waiting = [k \in 1 .. n_ev |-> Waiting[k]]
  BY DEF Waiting
<1>5. Waiting \in Seq(Fd) /\ Len(Waiting) = n_ev
  BY <1>2, <1>3, <1>4
<1> QED BY <1>3, <1>5 DEF WaitingIs

LEMMA WaitingEventsNext == IInv' => WaitingIs'
BY WaitingEvents, PTL

\* An insertion is a Put.
LEMMA InsertPuts ==
  ASSUME IInv, IInv', PushInsert
  PROVE  Fifo!Put
<1>1. /\ n_ev \in Nat /\ n_ev < MAX_EVENT_QUEUE /\ n_ev' = n_ev + 1 /\ popped' = popped /\ fd \in Fd
      /\ pushed \in Seq(Fd) /\ pushed' = Append(pushed, fd) /\ Len(pushed) = Len(popped) + n_ev
      /\ Len(popped) \in Nat
  BY DEF IInv, TypeOK, PushInsert, PushFull, ControlInv, ArgInv, Goto, DataInv, CountExact
<1>2. /\ Waiting \in Seq(Fd) /\ Len(Waiting) = n_ev
      /\ \A k \in 1 .. n_ev : Waiting[k] = pushed[Len(popped) + k]
  BY WaitingEvents DEF WaitingIs
<1>3. /\ Waiting' \in Seq(Fd) /\ Len(Waiting') = n_ev + 1
      /\ \A k \in 1 .. n_ev + 1 : Waiting'[k] = pushed'[Len(popped) + k]
  <2>1. /\ Waiting' \in Seq(Fd) /\ Len(Waiting') = n_ev'
        /\ \A k \in 1 .. n_ev' : Waiting'[k] = pushed'[Len(popped') + k]
    BY WaitingEventsNext DEF WaitingIs
  <2> QED BY <1>1, <2>1
<1>4. ASSUME NEW k \in 1 .. n_ev + 1 PROVE Waiting'[k] = Append(Waiting, fd)[k]
  <2>1. CASE k = n_ev + 1
    <3>1. Len(popped) + k = Len(pushed) + 1
      BY <1>1, <2>1
    <3>2. pushed'[Len(pushed) + 1] = fd
      BY <1>1
    <3>3. Append(Waiting, fd)[n_ev + 1] = fd
      BY <1>1, <1>2
    <3> QED BY <1>3, <2>1, <3>1, <3>2, <3>3
  <2>2. CASE k # n_ev + 1
    <3>1. k \in 1 .. n_ev /\ Len(popped) + k \in 1 .. Len(pushed)
      BY <1>1, <2>2
    <3>2. pushed'[Len(popped) + k] = pushed[Len(popped) + k]
      BY <1>1, <3>1
    <3> QED BY <1>1, <1>2, <1>3, <3>1, <3>2
  <2> QED BY <2>1, <2>2
<1>5. Append(Waiting, fd) \in Seq(Fd) /\ Len(Append(Waiting, fd)) = n_ev + 1
  BY <1>1, <1>2
<1>6. Waiting' = Append(Waiting, fd)
  BY <1>1, <1>3, <1>4, <1>5
<1> QED BY <1>1, <1>2, <1>6 DEF Fifo!Put

\* A pop is a Take.
LEMMA PopTakes ==
  ASSUME IInv, IInv', PopBody
  PROVE  Fifo!Take
<1>1. n_ev \in Nat /\ n_ev > 0 /\ n_ev' = n_ev - 1 /\ pushed' = pushed /\ Len(popped) \in Nat
  BY TakeData DEF IInv, TypeOK
<1>2. PICK ret \in PopRead(i1_ev) : popped' = Append(popped, ret)
  BY <1>1 DEF PopBody
<1>3. /\ popped \in Seq(Fd \union {0, Garbage}) /\ Len(popped') = Len(popped) + 1
      /\ popped'[Len(popped) + 1] = ret
  BY <1>2, TakeData DEF IInv, TypeOK
<1>4. /\ Waiting \in Seq(Fd) /\ Len(Waiting) = n_ev
      /\ \A k \in 1 .. n_ev : Waiting[k] = pushed[Len(popped) + k]
  BY WaitingEvents DEF WaitingIs
<1>5. /\ Waiting' \in Seq(Fd) /\ Len(Waiting') = n_ev - 1
      /\ \A k \in 1 .. n_ev - 1 : Waiting'[k] = pushed[Len(popped) + 1 + k]
  <2>1. /\ Waiting' \in Seq(Fd) /\ Len(Waiting') = n_ev'
        /\ \A k \in 1 .. n_ev' : Waiting'[k] = pushed'[Len(popped') + k]
    BY WaitingEventsNext DEF WaitingIs
  <2> QED BY <1>1, <1>3, <2>1
<1>6. Waiting' = Tail(Waiting)
  <2>1. Tail(Waiting) \in Seq(Fd) /\ Len(Tail(Waiting)) = n_ev - 1
    BY <1>1, <1>4
  <2>2. ASSUME NEW k \in 1 .. n_ev - 1 PROVE Waiting'[k] = Tail(Waiting)[k]
    <3>1. k + 1 \in 1 .. n_ev /\ Len(popped) + (k + 1) = Len(popped) + 1 + k
      BY <1>1
    <3>2. Tail(Waiting)[k] = Waiting[k + 1]
      BY <1>1, <1>4
    <3> QED BY <1>4, <1>5, <3>1, <3>2, SMTT(20)
  <2> QED BY <1>1, <1>5, <2>1, <2>2
<1>7. Head(Waiting) = pushed[Len(popped) + 1] /\ Head(Waiting) \in Fd /\ Waiting # << >>
  BY <1>1, <1>4
<1>8. Len(popped) < MAX_EVENT_QUEUE => ret = Head(Waiting)
  <2>1. FifoUntilWrap'
    BY DEF IInv, DataInv
  <2>2. Len(popped) < MAX_EVENT_QUEUE => popped'[Len(popped) + 1] = pushed[Len(popped) + 1]
    BY <1>1, <1>3, <2>1 DEF FifoUntilWrap
  <2> QED BY <1>3, <1>7, <2>2
<1>9. ret \in Fd \union {Garbage}
  <2>1. CASE i1_ev \in Slot
    <3>1. Len(popped) < MAX_EVENT_QUEUE
      BY <1>1, <2>1 DEF IInv, DataInv, IndexInv, Slot
    <3> QED BY <1>7, <1>8, <3>1
  <2>2. CASE i1_ev \notin Slot
    BY <1>2, <2>2 DEF PopRead
  <2> QED BY <2>1, <2>2
<1> QED BY <1>2, <1>6, <1>7, <1>8, <1>9 DEF Fifo!Take

\* What leaves the list and the histories alone does not show in the queue.
LEMMA WaitingFrame ==
  ASSUME UNCHANGED <<list, hist>>
  PROVE  UNCHANGED <<Waiting, popped>>
BY DEF list, hist, Waiting

LEMMA FifoStep ==
  ASSUME IInv, IInv', [Next]_vars
  PROVE  [Fifo!Put \/ Fifo!Take]_<<Waiting, popped>>
<1>1. CASE PushInsert
  BY <1>1, InsertPuts
<1>2. CASE PopBody
  BY <1>2, PopTakes
<1>3. CASE ~PushInsert /\ ~PopBody
  <2>1. UNCHANGED <<list, hist>>
    BY <1>3 DEF Next, Iosched, Worker, PushCall, PushLock, PushOverflow, PushUnlock, WorkerLock,
                WorkerSleep, SpuriousWakeup, WorkerWake, WorkerNoWait, WorkerUnlock, WorkerLoop,
                PopLock, PopUnlock, WorkerRecv, UpdateLock, UpdateBody, UpdateUnlock, vars
  <2> QED BY <2>1, WaitingFrame
<1> QED BY <1>1, <1>2, <1>3

\* For every list size, set of descriptors and number of calls the list implements the
\* bounded FIFO of EventFifo, the queue being what its slots hold.
THEOREM FifoRefined == Spec => ImplementsFifo
<1>1. Init => Fifo!FifoInit
  BY DEF Init, Fifo!FifoInit, Waiting
<1>2. IInv /\ IInv' /\ [Next]_vars => [Fifo!Put \/ Fifo!Take]_<<Waiting, popped>>
  BY FifoStep
<1> QED BY <1>1, <1>2, Invariance, PTL DEF Spec, ImplementsFifo, Fifo!FifoSpec
=============================================================================
