------------------------------ MODULE JobQueue ------------------------------
(***************************************************************************)
(* The job queue of the condition-variable examples: thread A reads bytes  *)
(* from a FIFO and inserts them, threads B pull one item at a time and     *)
(* process it. Three programs share this code; the constant Broadcasts and *)
(* the variable rechecks, which never changes, tell them apart:            *)
(*                                                                         *)
(*   8.pthread/pthread_cond.c          one B with signal, or three with    *)
(*                                     broadcast (MULTI_THREAD); a woken B *)
(*                                     tests the queue again               *)
(*   10.realtime/pthread_cond_rts.c    three B, broadcast, tests again     *)
(*   8.pthread/pthread_speckey.c       three B, broadcast, no second test  *)
(*                                                                         *)
(* Every access to the queue is under mutex_data, so a critical section is *)
(* one step; thread A signals after it has released the mutex.             *)
(***************************************************************************)
EXTENDS Integers, SequencesExt

CONSTANTS
  B,           \* the consumer threads
  Item,        \* bytes that are items
  NewLine,     \* the byte 0xa
  Buf,         \* what one read of the FIFO may return
  MAX_Q_SIZE,  \* slots of the queue (20)
  Broadcasts,  \* wake all waiting threads, or one
  SpuriousWakeups, \* may pthread_cond_wait return unsignalled?
  MaxRead      \* bound: reads of the FIFO

ASSUME QSizeAssumption == MAX_Q_SIZE \in Nat \ {0}
ASSUME BufAssumption   == Buf \subseteq Seq(Item \union {NewLine}) \ {<< >>}
ASSUME ItemAssumption  == NewLine \notin Item
ASSUME FlagAssumption  == Broadcasts \in BOOLEAN /\ SpuriousWakeups \in BOOLEAN
\* As the programs are built: a plain signal only where there is one consumer.
ASSUME SignalAssumption == Broadcasts \/ \A a, b \in B : a = b
ASSUME BoundAssumption == MaxRead \in Nat

VARIABLES
  rechecks,         \* the program: does a woken thread test cnt again?
  queue, idx, cnt,  \* struct share_data
  waiting,          \* threads asleep on cv_data
  pcA, flag_empty,  \* thread A
  pcB,              \* threads B
  holds,            \* does the thread hold an item that it pulled itself?
  woken,            \* history: what ended the thread's last wait, and at a signal
                    \* how many items had been inserted by then
  reads,            \* reads of the FIFO so far
  inserted,         \* history: items inserted
  pulled,           \* history: items pulled
  overlapped        \* history: an insertion has met a queue that was not empty

data == <<queue, idx, cnt>>
vars == <<rechecks, data, waiting, pcA, flag_empty, pcB, holds, woken, reads, inserted, pulled,
          overlapped>>

Slot == 0 .. MAX_Q_SIZE - 1

NotWoken == [by |-> "nobody", due |-> 0]

\* main: one calloc, then the threads start.
Init ==
  /\ rechecks \in BOOLEAN /\ woken = [b \in B |-> NotWoken]
  /\ queue = [s \in Slot |-> 0] /\ idx = 0 /\ cnt = 0
  /\ waiting = {} /\ pcA = "read" /\ flag_empty = FALSE
  /\ pcB = [b \in B |-> "lock"] /\ holds = [b \in B |-> FALSE]
  /\ reads = 0 /\ inserted = << >> /\ pulled = << >> /\ overlapped = FALSE
-----------------------------------------------------------------------------
(* Thread A                                                                *)

\* The insertion loop meets n items of the buffer before its end or a newline.
StopsAt(buf, n) ==
  /\ \A m \in 1 .. n : buf[m] # NewLine
  /\ n < Len(buf) => buf[n + 1] = NewLine

\* How many of n items the insertion loop takes: it stops when the queue is full.
Room(n) == IF n < MAX_Q_SIZE - cnt THEN n ELSE MAX_Q_SIZE - cnt

\* The insertion loop starts at idx, which is where the consumers read next.
Insert(buf, k) ==
  [s \in Slot |-> LET d == (s - idx) % MAX_Q_SIZE
                  IN  IF d < k THEN buf[d + 1] ELSE queue[s]]

\* Mutant of WasEmpty: flag_empty is computed after the insertion.
WasEmptyLate(k) == cnt + k = 0

\* if (p_shr_data->cnt == 0) flag_empty = 1, before the loop.
WasEmpty(k) == cnt = 0

\* read, then the critical section that inserts; newline and full queue end it.
ReadInsert ==
  /\ pcA = "read" /\ reads < MaxRead
  /\ \E buf \in Buf : \E n \in 0 .. Len(buf) :
       LET k == Room(n)
       IN  /\ StopsAt(buf, n)
           /\ queue' = Insert(buf, k)
           /\ cnt' = cnt + k
           /\ flag_empty' = WasEmpty(k)
           /\ inserted' = inserted \o SubSeq(buf, 1, k)
           /\ overlapped' = (overlapped \/ (cnt > 0 /\ k > 0))
  /\ pcA' = "signal"
  /\ reads' = reads + 1
  /\ UNCHANGED <<rechecks, idx, waiting, pcB, holds, woken, pulled>>

\* After the unlock: pthread_cond_broadcast or pthread_cond_signal if flag_empty.
Signal ==
  /\ pcA = "signal"
  /\ waiting' \in IF ~flag_empty THEN {waiting}
                  ELSE IF Broadcasts \/ waiting = {} THEN {{}}
                  ELSE {waiting \ {b} : b \in waiting}
  /\ woken' = [b \in B |-> IF b \in waiting \ waiting'
                           THEN [by |-> "signal", due |-> Len(inserted)] ELSE woken[b]]
  /\ pcA' = "read"
  /\ UNCHANGED <<rechecks, data, flag_empty, pcB, holds, reads, inserted, pulled, overlapped>>

\* read returns 0 when the last writer has gone, and the process exits.
BrokenPipe ==
  /\ pcA = "read"
  /\ pcA' = "exited"
  /\ UNCHANGED <<rechecks, data, waiting, flag_empty, pcB, holds, woken, reads, inserted,
                 pulled, overlapped>>
-----------------------------------------------------------------------------
(* Threads B                                                               *)

Running == pcA # "exited"

\* Mutant of NextIndex: the wrap test one slot early.
NextIndexEarly == IF idx >= MAX_Q_SIZE - 1 THEN 0 ELSE idx

\* The index of the next item, after the wrap test.
NextIndex == IF idx = MAX_Q_SIZE THEN 0 ELSE idx

\* buf_item = queue[idx++]; cnt--
Pull(b) ==
  /\ pulled' = Append(pulled, queue[NextIndex])
  /\ idx' = NextIndex + 1
  /\ cnt' = cnt - 1
  /\ pcB' = [pcB EXCEPT ![b] = "job"]
  /\ holds' = [holds EXCEPT ![b] = TRUE]
  /\ woken' = [woken EXCEPT ![b] = NotWoken]
  /\ UNCHANGED <<queue, waiting>>

\* pthread_cond_wait: releases the mutex and sleeps.
Wait(b) ==
  /\ waiting' = waiting \union {b}
  /\ pcB' = [pcB EXCEPT ![b] = "wait"]
  /\ woken' = [woken EXCEPT ![b] = NotWoken]
  /\ UNCHANGED <<data, holds, pulled>>

\* The critical section of tfunc_b up to pthread_cond_wait or the unlock.
Enter(b) ==
  /\ Running /\ pcB[b] = "lock"
  /\ IF cnt = 0 THEN Wait(b) ELSE Pull(b)
  /\ UNCHANGED <<rechecks, pcA, flag_empty, reads, inserted, overlapped>>

\* pthread_cond_wait may return although nobody signalled.
SpuriousWakeup(b) ==
  /\ Running /\ SpuriousWakeups /\ b \in waiting
  /\ waiting' = waiting \ {b}
  /\ woken' = [woken EXCEPT ![b] = [by |-> "spurious", due |-> 0]]
  /\ UNCHANGED <<rechecks, data, pcA, flag_empty, pcB, holds, reads, inserted, pulled, overlapped>>

\* Mutant of NoMoreJob: the "goto WAIT_CV" is left out.
NoMoreJobFallsThrough(b) ==
  /\ pcB' = [pcB EXCEPT ![b] = "job"]
  /\ UNCHANGED <<data, waiting, holds, woken, pulled>>

\* A woken thread that finds the queue empty: "goto WAIT_CV" in pthread_cond.c; in
\* pthread_speckey.c there is no else branch, and it unlocks and processes whatever
\* its local variable holds.
NoMoreJob(b) ==
  IF rechecks THEN Wait(b)
  ELSE /\ pcB' = [pcB EXCEPT ![b] = "job"]
       /\ UNCHANGED <<data, waiting, holds, woken, pulled>>

\* The rest of the critical section, after pthread_cond_wait.
Wake(b) ==
  /\ Running /\ pcB[b] = "wait" /\ b \notin waiting
  /\ IF cnt > 0 THEN Pull(b) ELSE NoMoreJob(b)
  /\ UNCHANGED <<rechecks, pcA, flag_empty, reads, inserted, overlapped>>

\* process_job, outside the lock.
ProcessJob(b) ==
  /\ Running /\ pcB[b] = "job"
  /\ pcB' = [pcB EXCEPT ![b] = "lock"]
  /\ holds' = [holds EXCEPT ![b] = FALSE]
  /\ woken' = [woken EXCEPT ![b] = NotWoken]
  /\ UNCHANGED <<rechecks, data, waiting, pcA, flag_empty, reads, inserted, pulled, overlapped>>
-----------------------------------------------------------------------------
Consume(b) == Enter(b) \/ Wake(b) \/ ProcessJob(b)

Next == \/ ReadInsert \/ Signal \/ BrokenPipe
        \/ \E b \in B : Consume(b) \/ SpuriousWakeup(b)

Spec == Init /\ [][Next]_vars

\* Threads run on when they can; the FIFO promises no more bytes.
FairSpec == Spec /\ WF_vars(Signal) /\ \A b \in B : WF_vars(Consume(b))
-----------------------------------------------------------------------------
(* Correctness                                                             *)

TypeOK ==
  /\ rechecks \in BOOLEAN
  /\ woken \in [B -> [by : {"nobody", "spurious", "signal"}, due : Nat]]
  /\ queue \in [Slot -> Item \union {0}]
  /\ idx \in 0 .. MAX_Q_SIZE /\ cnt \in 0 .. MAX_Q_SIZE
  /\ waiting \in SUBSET B
  /\ pcA \in {"read", "signal", "exited"} /\ flag_empty \in BOOLEAN
  /\ pcB \in [B -> {"lock", "wait", "job"}] /\ holds \in [B -> BOOLEAN]
  /\ reads \in 0 .. MaxRead
  /\ inserted \in Seq(Item) /\ pulled \in Seq(Item \union {0})
  /\ overlapped \in BOOLEAN

\* cnt counts what was inserted and not yet pulled, through the full-queue and newline
\* exits of the insertion loop and any number of consumers.
CountExact == cnt = Len(inserted) - Len(pulled)

\* No lost wakeup: when items are there and a thread sleeps, thread A is about to
\* signal, although it tests the queue before inserting and signals after unlocking.
SleepersSignalled == waiting # {} /\ cnt > 0 => pcA = "signal" /\ flag_empty

\* A job that is processed was pulled by the thread that processes it, but for the program
\* that does not test the queue again after pthread_cond_wait (pthread_speckey.c:204). There a
\* thread processes its last item again, or none, only when a wakeup brought it nothing: a
\* spurious one, or a broadcast before whose end of the wait the others had pulled all that
\* was ever inserted up to it, which may be nothing new where the line read was empty.
PhantomsExplained ==
  \A b \in B : pcB[b] = "job" /\ ~holds[b] =>
    /\ ~rechecks
    /\ \/ woken[b].by = "spurious"
       \/ woken[b].by = "signal" /\ Len(pulled) >= woken[b].due

\* As long as each insertion finds the queue drained, items come out in the order
\* they went in, across any number of wraps of idx.
FifoUnlessOverlapped == ~overlapped => IsPrefix(pulled, inserted)

\* For every item inserted one is pulled in the end, and it is that very item unless an
\* insertion has met a queue that was not empty, where it overwrites what waits
\* (pthread_cond.c:121); only a broken pipe ends the threads before.
Drains ==
  \A k \in 1 .. MaxRead * MAX_Q_SIZE :
    (Len(inserted) >= k)
      ~> \/ ~Running
         \/ Len(pulled) >= k /\ (overlapped \/ pulled[k] = inserted[k])
=============================================================================
