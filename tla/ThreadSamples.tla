--------------------------- MODULE ThreadSamples ---------------------------
(***************************************************************************)
(* The thread samples of 8.pthread.  Every program creates its threads,    *)
(* joins them in order, destroys its lock and returns:                     *)
(*   "rand"       pthread_rand: no lock at all                             *)
(*   "shared"     pthread_mutex: two processes, one mutex in shared memory *)
(*   "trylock"    pthread_mutex_trylock                                    *)
(*   "normal", "recursive", "errorcheck"                                   *)
(*                pthread_mutex_type: the mutex is locked twice            *)
(*   "attr", "attr_twice", "attr_check", "attr_check_twice"                *)
(*                pthread_mutexattr, with and without USE_MUTEXATTR and    *)
(*                ERRORCHECK_MUTEX                                         *)
(*   "spin", "rwlock", "barrier"                                           *)
(* Only the shared mutex has a second process.  pthread_create may fail,   *)
(* which ends the process.                                                 *)
(***************************************************************************)
EXTENDS Integers, FiniteSets

CONSTANTS MutexThreads,   \* MAX_THREAD of the mutex samples (3)
          OtherThreads,   \* MAX_THREAD of the others (5)
          Seeds           \* what the spinlock sample adds (tv_usec % 4)

ASSUME ThreadAssumption == /\ {MutexThreads, OtherThreads} \subseteq Nat \ {0}
                           /\ Seeds \subseteq Nat

VARIABLES prog,
          mode,      \* process -> argument: "c" creates the mutex, "a" attaches to it
          tmain,     \* process -> where main is
          tnext,     \* process -> the thread that main creates or joins next
          tpc,       \* thread -> where it is
          round,     \* thread -> rounds of its loop
          tseg,      \* process -> the segment (or the heap) its lock lives in
          keyed,     \* the segment that MY_SHM_KEY leads to, 0 for none
          lk,        \* segment -> the lock
          i_data,    \* segment -> the shared data
          tmp,       \* thread -> the value it read or left
          cleared,   \* history: segments cleared when threads had their lock in use
          quit       \* history: processes that ended before their threads

thrvars == <<prog, mode, tmain, tnext, tpc, round, tseg, keyed, lk, i_data, tmp, cleared, quit>>

Doubled == {"normal", "recursive", "errorcheck", "attr_twice", "attr_check_twice"}
Mutexes == Doubled \union {"attr", "attr_check", "shared"}
Programs == Mutexes \union {"rand", "trylock", "spin", "rwlock", "barrier"}

MAX_THREAD == IF prog \in Mutexes \union {"trylock"} THEN MutexThreads ELSE OtherThreads

Process == {1, 2}
Idx     == 0 .. MAX_THREAD - 1
Thread  == Process \X Idx
Heap    == 3          \* calloc'ed or static: one process only
Segs    == {1, 2, Heap}
Nobody  == <<0, 0>>
Lock(k) == [kind |-> k, owner |-> Nobody, count |-> 0, readers |-> {}]

\* pthread_mutexattr_settype, as each program is built.
MutexType(g) == CASE g \in {"errorcheck", "attr_check", "attr_check_twice"} -> "errorcheck"
                  [] g = "recursive" -> "recursive"
                  [] OTHER -> "normal"

Twice == prog \in Doubled

\* for (i=0; i<2; i++) of the spinlock and the rwlock sample.
Rounds == IF prog \in {"spin", "rwlock"} THEN 2 ELSE 1

\* Mutant of TakesRead: the first thread is not told from the others.
TakesReadAll(t) == prog = "rwlock"
\* The threads but the first take the rwlock for reading.
TakesRead(t) == prog = "rwlock" /\ t[2] # 0

ThrAt(g, at) ==
  /\ prog = g
  /\ mode = [p \in Process |-> "c"]
  /\ tmain = [p \in Process |-> IF p = 1 \/ g = "shared" THEN at ELSE "returned"]
  /\ tnext = [p \in Process |-> 0]
  /\ tpc = [t \in Thread |-> "none"] /\ round = [t \in Thread |-> 0]
  /\ tseg = [p \in Process |-> IF g = "shared" THEN 0 ELSE Heap] /\ keyed = 0
  /\ lk = [s \in Segs |-> Lock(IF s = Heap THEN MutexType(g) ELSE "zero")]
  /\ i_data = [s \in Segs |-> 0] /\ tmp = [t \in Thread |-> 0]
  /\ cleared = {} /\ quit = {}

ThrInit == \E g \in Programs : ThrAt(g, IF g = "shared" THEN "shmget" ELSE "create")

Attached(p) == tmain[p] \in {"clear", "init", "create", "join", "destroy"}
\* Threads that have begun to use the lock in segment s.
Using(s) == {t \in Thread : tseg[t[1]] = s /\ tpc[t] \notin {"none", "done", "gone"}}
----------------------------------------------------------------------------
(* main                                                                    *)

\* sysv_shmget: with IPC_EXCL a new segment full of zeros, if the key has none ...
ShmGet(p) ==
  /\ tmain[p] = "shmget"
  /\ IF keyed # 0 THEN tmain' = [tmain EXCEPT ![p] = "exist"] /\ UNCHANGED <<tseg, keyed>>
     ELSE /\ tmain' = [tmain EXCEPT ![p] = "shmat"]
          /\ \E s \in {1, 2} : /\ \A q \in Process : tseg[q] # s
                              /\ tseg' = [tseg EXCEPT ![p] = s] /\ keyed' = s
  /\ \E a \in {"c", "a"} : mode' = [mode EXCEPT ![p] = a]
  /\ UNCHANGED <<prog, tnext, tpc, round, lk, i_data, tmp, cleared, quit>>

\* ... and after EEXIST the one it leads to, which may have been removed by now.
ShmGetOld(p) ==
  /\ tmain[p] = "exist"
  /\ IF keyed = 0 THEN tmain' = [tmain EXCEPT ![p] = "failed"] /\ UNCHANGED tseg
     ELSE tmain' = [tmain EXCEPT ![p] = "shmat"] /\ tseg' = [tseg EXCEPT ![p] = keyed]
  /\ UNCHANGED <<prog, mode, tnext, tpc, round, keyed, lk, i_data, tmp, cleared, quit>>

\* shmget fails otherwise: exit(EXIT_FAILURE), as after a removal.
ShmGetFails(p) ==
  /\ tmain[p] \in {"shmget", "exist"} /\ tmain' = [tmain EXCEPT ![p] = "failed"]
  /\ UNCHANGED <<prog, mode, tnext, tpc, round, tseg, keyed, lk, i_data, tmp, cleared, quit>>

\* shmat; a segment removed and detached since then is gone, (void *)-1 is not NULL and
\* the first access to it ends the process.
ShmAttach(p) ==
  /\ tmain[p] = "shmat"
  /\ LET s     == tseg[p]
         alive == keyed = s \/ \E q \in Process : Attached(q) /\ tseg[q] = s
     IN  tmain' = [tmain EXCEPT ![p] = IF ~alive THEN "returned"
                                       ELSE IF mode[p] = "c" THEN "clear" ELSE "create"]
  /\ UNCHANGED <<prog, mode, tnext, tpc, round, tseg, keyed, lk, i_data, tmp, cleared, quit>>

\* memset, whoever may be using what is cleared.
Clear(p) ==
  /\ tmain[p] = "clear"
  /\ lk' = [lk EXCEPT ![tseg[p]] = Lock("zero")] /\ i_data' = [i_data EXCEPT ![tseg[p]] = 0]
  /\ cleared' = IF Using(tseg[p]) = {} THEN cleared ELSE cleared \union {tseg[p]}
  /\ tmain' = [tmain EXCEPT ![p] = "init"]
  /\ UNCHANGED <<prog, mode, tnext, tpc, round, tseg, keyed, tmp, quit>>

\* pthread_mutex_init with ERRORCHECK and PROCESS_SHARED.
MutexInit(p) ==
  /\ tmain[p] = "init"
  /\ lk' = [lk EXCEPT ![tseg[p]] = Lock("errorcheck")]
  /\ cleared' = IF Using(tseg[p]) = {} THEN cleared ELSE cleared \union {tseg[p]}
  /\ tmain' = [tmain EXCEPT ![p] = "create"]
  /\ UNCHANGED <<prog, mode, tnext, tpc, round, tseg, keyed, i_data, tmp, quit>>

Create(p) ==
  /\ tmain[p] = "create"
  /\ tpc' = [tpc EXCEPT ![<<p, tnext[p]>>] = "start"]
  /\ tnext' = [tnext EXCEPT ![p] = (@ + 1) % MAX_THREAD]
  /\ tmain' = [tmain EXCEPT ![p] = IF tnext[p] + 1 = MAX_THREAD THEN "join" ELSE @]
  /\ UNCHANGED <<prog, mode, round, tseg, keyed, lk, i_data, tmp, cleared, quit>>

\* pthread_create fails: main returns and the threads are gone, the locks they hold not.
CreateFail(p) ==
  /\ tmain[p] = "create"
  /\ tmain' = [tmain EXCEPT ![p] = "returned"]
  /\ tpc' = [t \in Thread |-> IF t[1] = p THEN "gone" ELSE tpc[t]]
  /\ quit' = quit \union {p}
  /\ UNCHANGED <<prog, mode, tnext, round, tseg, keyed, lk, i_data, tmp, cleared>>

\* clean_thread has joined the last thread.
Joined(p) == tnext[p] + 1 = MAX_THREAD

Join(p) ==
  /\ tmain[p] = "join" /\ tpc[<<p, tnext[p]>>] = "done"
  /\ IF Joined(p) THEN tmain' = [tmain EXCEPT ![p] = "destroy"] /\ UNCHANGED tnext
                  ELSE tnext' = [tnext EXCEPT ![p] = @ + 1] /\ UNCHANGED tmain
  /\ UNCHANGED <<prog, mode, tpc, round, tseg, keyed, lk, i_data, tmp, cleared, quit>>

\* The end of main: spinlock, rwlock and barrier are destroyed; "c" removes the segment.
Destroy(p) ==
  /\ tmain[p] = "destroy" /\ tmain' = [tmain EXCEPT ![p] = "returned"]
  /\ lk' = IF prog \in {"spin", "rwlock", "barrier"}
           THEN [lk EXCEPT ![tseg[p]].kind = "destroyed"] ELSE lk
  /\ keyed' = IF mode[p] = "c" /\ keyed = tseg[p] THEN 0 ELSE keyed
  /\ UNCHANGED <<prog, mode, tnext, tpc, round, tseg, i_data, tmp, cleared, quit>>
----------------------------------------------------------------------------
(* start_thread                                                            *)

Of(t)       == lk[tseg[t[1]]]
Go(t, at)   == tpc' = [tpc EXCEPT ![t] = at]
SetLk(t, l) == lk' = [lk EXCEPT ![tseg[t[1]]] = l]
Taken(t, l) == [l EXCEPT !.owner = t, !.count = 1]
AfterLock(t) == IF Twice /\ tpc[t] = "start" THEN "again" ELSE "in"

\* No lock: a seed in its own thread_arg, a sleep, the end.
Rand(t) ==
  /\ prog = "rand" /\ tpc[t] = "start" /\ Go(t, "done")
  /\ UNCHANGED <<prog, mode, tmain, tnext, round, tseg, keyed, lk, i_data, tmp, cleared, quit>>

\* pthread_mutex_lock of a free mutex.
MutexLock(t) ==
  /\ prog \in Mutexes /\ tpc[t] \in {"start", "again"} /\ Of(t).owner = Nobody
  /\ SetLk(t, Taken(t, Of(t))) /\ Go(t, AfterLock(t))
  /\ UNCHANGED <<prog, mode, tmain, tnext, round, tseg, keyed, i_data, tmp, cleared, quit>>

\* The caller has it: a recursive mutex counts, an error checking one returns EDEADLK,
\* which start_thread prints; a normal one blocks.
MutexRelock(t) ==
  /\ prog \in Mutexes /\ tpc[t] \in {"start", "again"}
  /\ Of(t).owner = t /\ Of(t).kind \in {"recursive", "errorcheck"}
  /\ SetLk(t, IF Of(t).kind = "recursive" THEN [Of(t) EXCEPT !.count = @ + 1] ELSE Of(t))
  /\ Go(t, AfterLock(t))
  /\ UNCHANGED <<prog, mode, tmain, tnext, round, tseg, keyed, i_data, tmp, cleared, quit>>

\* The loop around pthread_mutex_trylock; EBUSY makes it sleep.
TryLock(t) ==
  /\ prog = "trylock" /\ tpc[t] = "start"
  /\ IF Of(t).owner = Nobody THEN SetLk(t, Taken(t, Of(t))) /\ Go(t, "in")
                             ELSE Go(t, "sleep") /\ UNCHANGED lk
  /\ UNCHANGED <<prog, mode, tmain, tnext, round, tseg, keyed, i_data, tmp, cleared, quit>>

TrySleep(t) ==
  /\ tpc[t] = "sleep" /\ Go(t, "start")
  /\ UNCHANGED <<prog, mode, tmain, tnext, round, tseg, keyed, lk, i_data, tmp, cleared, quit>>

SpinLock(t) ==
  /\ prog = "spin" /\ tpc[t] = "start" /\ Of(t).owner = Nobody
  /\ SetLk(t, Taken(t, Of(t))) /\ Go(t, "in")
  /\ UNCHANGED <<prog, mode, tmain, tnext, round, tseg, keyed, i_data, tmp, cleared, quit>>

\* PTHREAD_RWLOCK_PREFER_WRITER_NP does not hold readers back in this C library.
RwLock(t) ==
  /\ prog = "rwlock" /\ tpc[t] = "start" /\ Of(t).owner = Nobody
  /\ IF TakesRead(t) THEN SetLk(t, [Of(t) EXCEPT !.readers = @ \union {t}])
                     ELSE Of(t).readers = {} /\ SetLk(t, Taken(t, Of(t)))
  /\ Go(t, "in")
  /\ UNCHANGED <<prog, mode, tmain, tnext, round, tseg, keyed, i_data, tmp, cleared, quit>>

\* The section reads what it prints or adds to ...
Read(t) ==
  /\ tpc[t] = "in" /\ tmp' = [tmp EXCEPT ![t] = i_data[tseg[t[1]]]] /\ Go(t, "set")
  /\ UNCHANGED <<prog, mode, tmain, tnext, round, tseg, keyed, lk, i_data, cleared, quit>>

\* ... and writes: an own value under a mutex, a sum under the spinlock and by the
\* first thread of the rwlock sample.
Values(t) == CASE prog = "spin"   -> {tmp[t] + n : n \in Seeds}
               [] prog = "rwlock" -> {IF t[2] = 0 THEN tmp[t] + 1 ELSE tmp[t]}
               [] OTHER           -> {MAX_THREAD * t[1] + t[2]}
Writes(t) == prog # "rwlock" \/ t[2] = 0

Update(t) ==
  /\ tpc[t] = "set" /\ Go(t, "out")
  /\ \E v \in Values(t) :
       /\ tmp' = [tmp EXCEPT ![t] = v]
       /\ i_data' = IF Writes(t) THEN [i_data EXCEPT ![tseg[t[1]]] = v] ELSE i_data
  /\ UNCHANGED <<prog, mode, tmain, tnext, round, tseg, keyed, lk, cleared, quit>>

\* An error checking or recursive mutex refuses anyone but its owner (EPERM, printed).
Released(l, t) ==
  IF t \in l.readers THEN [l EXCEPT !.readers = @ \ {t}]
  ELSE IF l.kind \in {"errorcheck", "recursive"} /\ l.owner # t THEN l
  ELSE [l EXCEPT !.count = IF @ = 0 THEN 0 ELSE @ - 1, !.owner = IF l.count > 1 THEN @ ELSE Nobody]

Unlock(t) ==
  /\ tpc[t] = "out" /\ SetLk(t, Released(Of(t), t))
  /\ round' = [round EXCEPT ![t] = @ + 1]
  /\ Go(t, IF round[t] + 1 = Rounds THEN "done" ELSE "start")
  /\ UNCHANGED <<prog, mode, tmain, tnext, tseg, keyed, i_data, tmp, cleared, quit>>

\* pthread_barrier_init(&pt_barrier, NULL, MAX_THREAD)
BarrierCount == MAX_THREAD

BarrierArrive(t) ==
  /\ prog = "barrier" /\ tpc[t] = "start" /\ Go(t, "wait")
  /\ SetLk(t, [Of(t) EXCEPT !.readers = @ \union {t}])
  /\ UNCHANGED <<prog, mode, tmain, tnext, round, tseg, keyed, i_data, tmp, cleared, quit>>

BarrierLeave(t) ==
  /\ tpc[t] = "wait" /\ Cardinality(Of(t).readers) >= BarrierCount /\ Go(t, "done")
  /\ UNCHANGED <<prog, mode, tmain, tnext, round, tseg, keyed, lk, i_data, tmp, cleared, quit>>

MainStep(p) == ShmGet(p) \/ ShmGetOld(p) \/ ShmAttach(p) \/ Clear(p) \/ MutexInit(p) \/ Create(p)
               \/ Join(p) \/ Destroy(p)
ThreadStep(t) == Rand(t) \/ MutexLock(t) \/ MutexRelock(t) \/ TryLock(t) \/ TrySleep(t)
                 \/ SpinLock(t) \/ RwLock(t) \/ Read(t) \/ Update(t) \/ Unlock(t)
                 \/ BarrierArrive(t) \/ BarrierLeave(t)

\* One step of a thread that this program has.
SomeThread(t) == t \in Thread /\ ThreadStep(t)

ThrNext == \/ \E p \in Process : MainStep(p) \/ CreateFail(p) \/ ShmGetFails(p)
           \/ \E t \in Thread : ThreadStep(t)

\* The scheduler runs every thread that can run, and the user presses the keys that main
\* asks for; nothing is assumed about the order in which a lock is given away.
ThrFairness == /\ \A p \in Process : WF_thrvars(MainStep(p))
               /\ \A t \in Process \X (0 .. MutexThreads + OtherThreads) :
                    WF_thrvars(SomeThread(t))

ThrSpec == ThrInit /\ [][ThrNext]_thrvars /\ ThrFairness
----------------------------------------------------------------------------
(* Properties                                                              *)

\* What a thread read or wrote in its section is still there when it leaves it: the
\* locks isolate the sections of all the programs, in one process or two, unless the
\* mutex was cleared under its users (pthread_mutex started with "c" a second time).
Isolated ==
  \A t \in Thread : tpc[t] = "out" /\ tseg[t[1]] \notin cleared => i_data[tseg[t[1]]] = tmp[t]

\* A mutex that is locked twice and unlocked once serves no second thread: a normal one
\* lets nobody into the section, a recursive one lets one thread in, whose return leaves
\* the mutex locked for ever (pthread_mutex_type.c, pthread_mutexattr.c).
TwiceTaken ==
  LET Through == {t \in Thread : tpc[t] \in {"in", "set", "out", "done"}}
  IN  /\ prog \in {"normal", "attr_twice"} => Through = {}
      /\ prog = "recursive" => Cardinality(Through) <= 1

\* No thread leaves the barrier before all have come to it.
BarrierTogether ==
  prog = "barrier" /\ (\E t \in Thread : tpc[t] = "done") =>
    \A i \in Idx : tpc[<<1, i>>] \in {"wait", "done"}

\* When the barrier, the spinlock or the rwlock is destroyed no thread has any use left for it.
DestroyedUnused ==
  \A s \in Segs : lk[s].kind = "destroyed" => Using(s) = {}

\* What keeps a process from its end: a mutex locked twice, one cleared in use or never
\* initialised, an owner that ended early.
Doomed ==
  \/ prog \in {"normal", "recursive", "attr_twice"}
  \/ cleared # {} \/ quit # {}
  \/ prog = "shared" /\ \E s \in Segs \ {Heap} : lk[s].kind = "zero" /\ Using(s) # {}

\* Every other program joins its threads and returns, or has failed to get its segment.
MainReturns == <>[](Doomed \/ \A p \in Process : tmain[p] \in {"returned", "failed"})

\* Every lock keeps its sections apart, a mutex locked twice keeps everybody out, the barrier
\* opens for all at once, and nothing is destroyed in use.
SectionsKept == Isolated /\ TwiceTaken /\ BarrierTogether /\ DestroyedUnused
=============================================================================
