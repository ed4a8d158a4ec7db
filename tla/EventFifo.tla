----------------------------- MODULE EventFifo -----------------------------
(***************************************************************************)
(* What an event list of the epoll server promises its two threads: a      *)
(* bounded FIFO, whose readings can be relied on for the first Size of     *)
(* them.                                                                   *)
(***************************************************************************)
EXTENDS Integers, Sequences

CONSTANTS Event, Junk, Size

VARIABLES queue,  \* the events that wait, the oldest first
          got     \* what was taken, in order

FifoInit == queue = << >> /\ got = << >>

Put == /\ Len(queue) < Size
       /\ \E e \in Event : queue' = Append(queue, e)
       /\ UNCHANGED got

\* The count goes down in any case; the reading is the oldest event up to the wrap.
Take == /\ queue # << >> /\ queue' = Tail(queue)
        /\ \E e \in Event \union {Junk} :
             got' = Append(got, e) /\ (Len(got) < Size => e = Head(queue))

FifoSpec == FifoInit /\ [][Put \/ Take]_<<queue, got>>
=============================================================================
