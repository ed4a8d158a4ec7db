------------------------------- MODULE EvList -------------------------------
(***************************************************************************)
(* One EVLIST of the threaded epoll server: the bounded event list between *)
(* the I/O scheduler thread, which calls push_evlist (mng_io.c), and the   *)
(* one worker thread that owns the list and drains it with pop_evlist      *)
(* (start_worker, mng_thread.c).                                           *)
(*                                                                         *)
(* The fields of struct evlist are the variables i1_ev, i2_ev, n_ev, q_ev, *)
(* mutex_lock and cv_barrier. Each section between MUTEX_LOCK and          *)
(* MUTEX_UNLOCK is three steps (lock, body, unlock), because the worker's  *)
(* loop condition reads n_ev without the lock. cv_barrier is the set of    *)
(* threads asleep in pthread_cond_wait, and a sleeper may wake spuriously, *)
(* as POSIX allows and as the code's single "if" before CV_WAIT permits.   *)
(***************************************************************************)
EXTENDS Integers, Sequences

CONSTANTS
  Fd,               \* descriptors an event may carry
  Garbage,          \* a value found in memory past the end of q_ev
  MAX_EVENT_QUEUE,  \* slots of q_ev (200 in the code)
  MaxPush           \* bound: push_evlist calls the scheduler makes

ASSUME MaxQueueAssumption == MAX_EVENT_QUEUE \in Nat \ {0}
ASSUME MaxPushAssumption  == MaxPush \in Nat
ASSUME GarbageAssumption  == Garbage \notin Fd

VARIABLES
  i1_ev,      \* start index of the queue, advanced by pop
  i2_ev,      \* end index of the queue, advanced by push
  n_ev,       \* number of events in the queue
  q_ev,       \* the slots
  mutex_lock, \* the thread that holds the list's mutex, or "none"
  cv_barrier, \* threads asleep on the condition variable
  pc,         \* where each thread is
  fd,         \* the scheduler's argument of push_evlist
  i,          \* the worker's loop counter
  n_seen,     \* the worker's local n_ev, read before its loop
  calls,      \* push_evlist calls made so far
  pushed,     \* history: events inserted, in order
  popped      \* history: what pop_evlist returned, in order

list == <<i1_ev, i2_ev, n_ev, q_ev>>
hist == <<pushed, popped>>
vars == <<list, mutex_lock, cv_barrier, pc, fd, i, n_seen, calls, hist>>

Thread == {"iosched", "worker"}
Slot   == 0 .. MAX_EVENT_QUEUE - 1

IoschedLabel == {"idle", "pushLock", "pushBody", "pushUnlock"}
WorkerLabel  == {"lock", "check", "asleep", "unlock", "loop", "popLock",
                 "popBody", "popUnlock", "recv", "updLock", "updBody",
                 "updUnlock", "popFailed"}

Goto(t, from, to) == pc[t] = from /\ pc' = [pc EXCEPT ![t] = to]

\* MUTEX_LOCK and MUTEX_UNLOCK: a default pthread mutex is not recursive, so a
\* thread that locks one it already holds waits for ever.
MUTEX_LOCK(t)   == mutex_lock = "none" /\ mutex_lock' = t
MUTEX_UNLOCK(t) == mutex_lock = t /\ mutex_lock' = "none"

\* alloc_resources: the list is one calloc, so every field is zero.
Init ==
  /\ i1_ev = 0 /\ i2_ev = 0 /\ n_ev = 0
  /\ q_ev = [s \in Slot |-> 0]
  /\ mutex_lock = "none" /\ cv_barrier = {}
  /\ pc = [t \in Thread |-> IF t = "iosched" THEN "idle" ELSE "lock"]
  /\ fd = 0 /\ i = 0 /\ n_seen = 0 /\ calls = 0
  /\ pushed = << >> /\ popped = << >>
-----------------------------------------------------------------------------
(* The scheduler: push_evlist                                              *)

\* start_iosched's distribution loop calls push_evlist with the next event.
PushCall ==
  /\ calls < MaxPush
  /\ Goto("iosched", "idle", "pushLock")
  /\ \E f \in Fd : fd' = f
  /\ calls' = calls + 1
  /\ UNCHANGED <<list, mutex_lock, cv_barrier, i, n_seen, hist>>

PushLock ==
  /\ Goto("iosched", "pushLock", "pushBody")
  /\ MUTEX_LOCK("iosched")
  /\ UNCHANGED <<list, cv_barrier, fd, i, n_seen, calls, hist>>

\* Mutant of PushFull: the overflow test one event too late.
PushFullLate == n_ev = MAX_EVENT_QUEUE + 1

\* if (evl->n_ev == MAX_EVENT_QUEUE), the overflow check.
PushFull == n_ev = MAX_EVENT_QUEUE

\* The overflow check returns -1 from inside the critical section; the caller
\* logs the error and goes on. The mutex stays locked.
PushOverflow ==
  /\ PushFull
  /\ Goto("iosched", "pushBody", "idle")
  /\ UNCHANGED <<list, mutex_lock, cv_barrier, fd, i, n_seen, calls, hist>>

\* Mutants of EndIndex: the wrap test forgotten, and made one slot too early.
EndIndexNoWrap    == i2_ev
EndIndexEarlyWrap == IF i2_ev >= MAX_EVENT_QUEUE - 1 THEN 0 ELSE i2_ev

\* The end index after the "recalculate index" test.
EndIndex == IF i2_ev = MAX_EVENT_QUEUE THEN 0 ELSE i2_ev

\* Mutant of Wakened: the broadcast is sent for the second event, not the first.
WakenedLate(n) == IF n = 2 THEN {} ELSE cv_barrier

\* CV_SIGNAL is pthread_cond_broadcast, sent when the list stops being empty.
Wakened(n) == IF n = 1 THEN {} ELSE cv_barrier

PushInsert ==
  /\ ~PushFull
  /\ Goto("iosched", "pushBody", "pushUnlock")
  /\ q_ev' = [q_ev EXCEPT ![EndIndex] = fd]
  /\ i2_ev' = EndIndex + 1
  /\ n_ev' = n_ev + 1
  /\ cv_barrier' = Wakened(n_ev + 1)
  /\ pushed' = Append(pushed, fd)
  /\ UNCHANGED <<i1_ev, mutex_lock, fd, i, n_seen, calls, popped>>

PushUnlock ==
  /\ Goto("iosched", "pushUnlock", "idle")
  /\ MUTEX_UNLOCK("iosched")
  /\ UNCHANGED <<list, cv_barrier, fd, i, n_seen, calls, hist>>
-----------------------------------------------------------------------------
(* The worker: start_worker and pop_evlist                                 *)

WorkerLock ==
  /\ Goto("worker", "lock", "check")
  /\ MUTEX_LOCK("worker")
  /\ UNCHANGED <<list, cv_barrier, fd, i, n_seen, calls, hist>>

\* CV_WAIT releases the mutex and sleeps in one step.
WorkerSleep ==
  /\ n_ev = 0
  /\ Goto("worker", "check", "asleep")
  /\ MUTEX_UNLOCK("worker")
  /\ cv_barrier' = cv_barrier \union {"worker"}
  /\ UNCHANGED <<list, fd, i, n_seen, calls, hist>>

\* pthread_cond_wait may return although nobody signalled.
SpuriousWakeup ==
  /\ "worker" \in cv_barrier
  /\ cv_barrier' = cv_barrier \ {"worker"}
  /\ UNCHANGED <<list, mutex_lock, pc, fd, i, n_seen, calls, hist>>

\* Back from CV_WAIT with the mutex; n_ev is not tested again.
WorkerWake ==
  /\ "worker" \notin cv_barrier
  /\ Goto("worker", "asleep", "unlock")
  /\ MUTEX_LOCK("worker")
  /\ n_seen' = n_ev
  /\ UNCHANGED <<list, cv_barrier, fd, i, calls, hist>>

WorkerNoWait ==
  /\ n_ev # 0
  /\ Goto("worker", "check", "unlock")
  /\ n_seen' = n_ev
  /\ UNCHANGED <<list, mutex_lock, cv_barrier, fd, i, calls, hist>>

\* Leaves the critical section and enters the loop with i = 0.
WorkerUnlock ==
  /\ Goto("worker", "unlock", "loop")
  /\ MUTEX_UNLOCK("worker")
  /\ i' = 0
  /\ UNCHANGED <<list, cv_barrier, fd, n_seen, calls, hist>>

\* Mutant of WorkerLoop: one iteration too many.
WorkerLoopOffByOne ==
  /\ Goto("worker", "loop", IF i <= n_ev THEN "popLock" ELSE "updLock")
  /\ UNCHANGED <<list, mutex_lock, cv_barrier, fd, i, n_seen, calls, hist>>

\* for (i=0; i<p_evl->n_ev; i++): n_ev is read again, and without the lock,
\* before every iteration.
WorkerLoop ==
  /\ Goto("worker", "loop", IF i < n_ev THEN "popLock" ELSE "updLock")
  /\ UNCHANGED <<list, mutex_lock, cv_barrier, fd, i, n_seen, calls, hist>>

PopLock ==
  /\ Goto("worker", "popLock", "popBody")
  /\ MUTEX_LOCK("worker")
  /\ UNCHANGED <<list, cv_barrier, fd, i, n_seen, calls, hist>>

\* ret = q_ev[i1_ev++]: i1_ev is never wrapped, and past the last slot the read
\* returns whatever the memory holds.
PopRead(index) == IF index \in Slot THEN {q_ev[index]} ELSE Fd \union {Garbage}

\* An empty list makes pop_evlist return -1 with the mutex still locked, and the
\* worker goes on with get_fdlistbyfd(-1).
PopBody ==
  IF n_ev = 0
  THEN /\ Goto("worker", "popBody", "popFailed")
       /\ UNCHANGED <<list, mutex_lock, cv_barrier, fd, i, n_seen, calls, hist>>
  ELSE /\ Goto("worker", "popBody", "popUnlock")
       /\ \E ret \in PopRead(i1_ev) : popped' = Append(popped, ret)
       /\ i1_ev' = i1_ev + 1
       /\ n_ev' = n_ev - 1
       /\ UNCHANGED <<i2_ev, q_ev, mutex_lock, cv_barrier, fd, i, n_seen, calls, pushed>>

PopUnlock ==
  /\ Goto("worker", "popUnlock", "recv")
  /\ MUTEX_UNLOCK("worker")
  /\ UNCHANGED <<list, cv_barrier, fd, i, n_seen, calls, hist>>

\* recv() on the slot of the popped descriptor, then i++. The socket is blocking, so that
\* recv may never return; what it does to the connection is in EpollServer.
WorkerRecv ==
  /\ Goto("worker", "recv", "loop")
  /\ i' = i + 1
  /\ UNCHANGED <<list, mutex_lock, cv_barrier, fd, n_seen, calls, hist>>

UpdateLock ==
  /\ Goto("worker", "updLock", "updBody")
  /\ MUTEX_LOCK("worker")
  /\ UNCHANGED <<list, cv_barrier, fd, i, n_seen, calls, hist>>

\* The last critical section only prints: "p_evl->n_ev -= n_ev" is commented out,
\* because pop_evlist has already counted the events down.
UpdateBody ==
  /\ Goto("worker", "updBody", "updUnlock")
  /\ UNCHANGED <<list, mutex_lock, cv_barrier, fd, i, n_seen, calls, hist>>

UpdateUnlock ==
  /\ Goto("worker", "updUnlock", "lock")
  /\ MUTEX_UNLOCK("worker")
  /\ UNCHANGED <<list, cv_barrier, fd, i, n_seen, calls, hist>>
-----------------------------------------------------------------------------
Iosched == PushLock \/ PushOverflow \/ PushInsert \/ PushUnlock

Worker ==
  \/ WorkerLock \/ WorkerSleep \/ WorkerWake \/ WorkerNoWait \/ WorkerUnlock
  \/ WorkerLoop \/ PopLock \/ PopBody \/ PopUnlock
  \/ UpdateLock \/ UpdateBody \/ UpdateUnlock

Next == PushCall \/ Iosched \/ Worker \/ WorkerRecv \/ SpuriousWakeup

Spec == Init /\ [][Next]_vars

\* Both threads keep running once they can; events need not keep coming, spurious
\* wakeups need not happen and a recv need not return.
FairSpec == Spec /\ WF_vars(Iosched) /\ WF_vars(Worker)
-----------------------------------------------------------------------------
(* Correctness                                                             *)

TypeOK ==
  /\ i1_ev \in Nat
  /\ i2_ev \in 0 .. MAX_EVENT_QUEUE
  /\ n_ev \in 0 .. MAX_EVENT_QUEUE
  /\ q_ev \in [Slot -> Fd \union {0}]
  /\ mutex_lock \in Thread \union {"none"}
  /\ cv_barrier \in SUBSET {"worker"}
  /\ pc \in [Thread -> IoschedLabel \union WorkerLabel]
  /\ pc["iosched"] \in IoschedLabel /\ pc["worker"] \in WorkerLabel
  /\ fd \in Fd \union {0}
  /\ i \in Nat /\ n_seen \in Nat /\ calls \in 0 .. MaxPush
  /\ pushed \in Seq(Fd)
  /\ popped \in Seq(Fd \union {0, Garbage})

\* n_ev always counts the events inserted and not yet popped: the unlocked reads of
\* start_worker and its two other critical sections never disturb the count.
CountExact == n_ev = Len(pushed) - Len(popped)

\* pop_evlist never meets an empty list, although start_worker decides to call it
\* from an n_ev read without the lock: the error return that keeps the mutex
\* locked is never taken.
NoUnderflow == pc["worker"] = "popBody" => n_ev > 0

\* The worker never sleeps on cv_barrier while events wait: push_evlist's broadcast
\* on n_ev == 1 and the worker's test under the mutex leave no gap.
NoLostWakeup == "worker" \in cv_barrier => n_ev = 0

\* The slot that holds event k of those pushed, counted back from i2_ev.
SlotOf(k) == LET s == i2_ev - 1 - (Len(pushed) - k)
             IN  IF s >= 0 THEN s ELSE s + MAX_EVENT_QUEUE

\* push_evlist never overwrites an event that waits: each one is still in its slot,
\* also after i2_ev has wrapped any number of times.
PendingStored ==
  \A k \in Len(popped) + 1 .. Len(pushed) : q_ev[SlotOf(k)] = pushed[k]

\* Until pop_evlist has run MAX_EVENT_QUEUE times it returns the events in the order
\* push_evlist inserted them.
FifoUntilWrap ==
  \A k \in 1 .. Len(popped) : k <= MAX_EVENT_QUEUE => popped[k] = pushed[k]

\* What the slots hold, the oldest event first, read back from i2_ev.
Waiting == [k \in 1 .. n_ev |-> LET s == i2_ev - 1 - (n_ev - k)
                                IN  q_ev[IF s >= 0 THEN s ELSE s + MAX_EVENT_QUEUE]]

Fifo == INSTANCE EventFifo WITH Event <- Fd, Junk <- Garbage, Size <- MAX_EVENT_QUEUE,
                                queue <- Waiting, got <- popped

\* Seen through its slots the list is a bounded FIFO: each critical section of push_evlist
\* or pop_evlist puts one event behind the others or takes the oldest, and nothing else in
\* either thread shows. This is what EpollServer takes a list for.
ImplementsFifo == Fifo!FifoSpec

\* push_evlist returned -1 with the mutex locked.
LockLeaked == mutex_lock = "iosched" /\ pc["iosched"] \in {"idle", "pushLock"}

\* No recv of start_worker blocks for good.
RecvReturns == []<>(pc["worker"] # "recv")

\* As long as every recv of start_worker returns, each event that push_evlist inserted is
\* popped in the end, unless the overflow return has left the mutex locked for ever; and
\* a recv that never returns is the only other thing that stops the list.
EventuallyPopped ==
  RecvReturns =>
    \A k \in 1 .. MaxPush : (Len(pushed) >= k) ~> (Len(popped) >= k \/ LockLeaked)
=============================================================================
