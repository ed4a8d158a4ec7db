------------------------------ MODULE Triggers ------------------------------
(***************************************************************************)
(* One thread, one listener, and three ways to be told of input:           *)
(*   "level"  io_epoll_trigger: epoll, level-triggered                     *)
(*   "edge"   io_epoll_trigger built with ENABLE_EPOLLET                   *)
(*   "rts"    io_rts: a queued real-time signal for each arrival           *)
(* The first two receive two octets per event, the third all there is.     *)
(***************************************************************************)
EXTENDS Integers, Sequences, FiniteSets

CONSTANTS Caller,
          Fds,        \* descriptors for clients
          MaxOctets,  \* bound: octets a caller sends
          MaxQueued   \* signals that may be queued (RLIMIT_SIGPENDING)

NoCaller == "nobody"
Elsewhere == "elsewhere"
Listener == "listener"

ASSUME TriggerAssumption == /\ IsFiniteSet(Caller) /\ IsFiniteSet(Fds)
                            /\ {MaxOctets, MaxQueued} \subseteq Nat
                            /\ {NoCaller, Elsewhere} \intersect Caller = {}
                            /\ Listener \notin Fds

VARIABLES gprog,
          gat,      \* "setup", "wait", "scan", "accept", "register", "returned", "killed"
          backlog,  \* callers that wait to be accepted, in order
          conn,     \* caller -> "out", "backlog", "open", "closed"
          slot,     \* descriptor -> caller, NoCaller or Elsewhere
          ours,     \* descriptors that report: in the epoll set, or owned (F_SETOWN)
          octets,   \* caller -> octets sent and not received
          spoken,   \* caller -> octets sent
          end,      \* caller -> "no", "fin", "reset"
          edges,    \* edge-triggered: the descriptors whose state has changed
          batch,    \* what epoll_wait returned and was not looked at yet
          sigq,     \* queued signals: [sig, fd, band]
          newfd,    \* accepted by io_rts and not yet given to add_rts_socket
          missed,   \* history: callers with something the program is not told of again
          unheard   \* history (rts): connections that came before the listener reported

trgvars == <<gprog, gat, backlog, conn, slot, ours, octets, spoken, end, edges, batch, sigq,
             newfd, missed, unheard>>

FreeFds  == {f \in Fds : slot[f] = NoCaller}
FdOf(c)  == {f \in Fds : slot[f] = c}

TrgAt(g, at, free) ==
  /\ gprog = g /\ gat = at /\ backlog = << >> /\ conn = [c \in Caller |-> "out"]
  /\ slot = [f \in Fds |-> IF f \in free THEN NoCaller ELSE Elsewhere] /\ ours = {}
  /\ octets = [c \in Caller |-> 0] /\ spoken = [c \in Caller |-> 0]
  /\ end = [c \in Caller |-> "no"]
  /\ edges = {} /\ batch = {} /\ sigq = << >> /\ newfd = {} /\ missed = {} /\ unheard = 0

\* socket, bind and listen are done. All the descriptors are free, or only one.
TrgInit == \E g \in {"level", "edge", "rts"}, free \in {Fds, {CHOOSE f \in Fds : TRUE}} :
             TrgAt(g, "setup", free)

Serving == gat \notin {"returned", "killed"}
HasInput(f) == IF f = Listener THEN backlog # << >>
               ELSE slot[f] # NoCaller /\ (octets[slot[f]] > 0 \/ end[slot[f]] # "no")
----------------------------------------------------------------------------
(* What the kernel does with an arrival                                    *)

\* A full signal queue raises SIGIO instead, which nobody handles.
Queue(s) == IF Len(sigq) < MaxQueued THEN sigq' = Append(sigq, s) /\ UNCHANGED gat
                                     ELSE gat' = "killed" /\ UNCHANGED sigq

\* Descriptor f, which reports, has something new.
Report(f, band) ==
  /\ edges' = IF gprog = "edge" THEN edges \union {f} ELSE edges
  /\ IF gprog = "rts"
     THEN Queue([sig |-> IF f = Listener THEN "LISTEN" ELSE "NORM", fd |-> f, band |-> band])
     ELSE UNCHANGED <<gat, sigq>>

Quiet == UNCHANGED <<gat, edges, sigq>>

\* Something arrives for caller c, accepted or not.  io_rts hears nothing of what comes before
\* it owns the descriptor, and only prints an error.
Arrives(c, band) ==
  LET fs == FdOf(c) \intersect ours
  IN  /\ IF fs = {} THEN Quiet ELSE Report(CHOOSE f \in fs : TRUE, band)
      /\ missed' = IF gprog = "rts" /\ (fs = {} \/ band = "ERR") THEN missed \union {c}
                                                              ELSE missed

Dial(c) ==
  /\ Serving /\ conn[c] = "out" /\ conn' = [conn EXCEPT ![c] = "backlog"]
  /\ backlog' = Append(backlog, c)
  /\ IF Listener \in ours
     THEN Report(Listener, "IN") /\ UNCHANGED unheard
     ELSE Quiet /\ unheard' = IF gprog = "rts" THEN unheard + 1 ELSE unheard
  /\ UNCHANGED <<gprog, slot, ours, octets, spoken, end, batch, newfd, missed>>

Online(c) == Serving /\ conn[c] \in {"backlog", "open"} /\ end[c] = "no"

Talk(c) ==
  /\ Online(c) /\ spoken[c] < MaxOctets
  /\ octets' = [octets EXCEPT ![c] = @ + 1] /\ spoken' = [spoken EXCEPT ![c] = @ + 1]
  /\ Arrives(c, "IN")
  /\ UNCHANGED <<gprog, backlog, conn, slot, ours, end, batch, newfd, unheard>>

HangUp(c) ==
  /\ Online(c) /\ end' = [end EXCEPT ![c] = "fin"] /\ Arrives(c, "IN")
  /\ UNCHANGED <<gprog, backlog, conn, slot, ours, octets, spoken, batch, newfd, unheard>>

Abort(c) ==
  /\ Online(c) /\ end' = [end EXCEPT ![c] = "reset"] /\ Arrives(c, "ERR")
  /\ UNCHANGED <<gprog, backlog, conn, slot, ours, octets, spoken, batch, newfd, unheard>>
----------------------------------------------------------------------------
(* The servers                                                             *)

\* ADD_EV(epollfd, fd_listener): epoll reports what is there already, a signal does not.
AddListener ==
  /\ gat = "setup" /\ gat' = "wait" /\ ours' = {Listener}
  /\ edges' = IF gprog = "edge" /\ backlog # << >> THEN {Listener} ELSE {}
  /\ UNCHANGED <<gprog, backlog, conn, slot, octets, spoken, end, batch, sigq, newfd, missed,
                 unheard>>

\* accept takes the first caller; the descriptor it gets is a free one.
TakeCaller(f) ==
  /\ conn' = [conn EXCEPT ![Head(backlog)] = "open"] /\ slot' = [slot EXCEPT ![f] = Head(backlog)]
  /\ backlog' = Tail(backlog)

\* epoll_wait: what has input; by edge, what has changed since it was last returned.
EpollWait ==
  LET told == {f \in ours : HasInput(f)} \intersect (IF gprog = "edge" THEN edges ELSE ours)
  IN  /\ gprog # "rts" /\ gat = "wait" /\ told # {}
      /\ batch' = told /\ edges' = {} /\ gat' = "scan"
      /\ UNCHANGED <<gprog, backlog, conn, slot, ours, octets, spoken, end, sigq, newfd, missed,
                     unheard>>

ScanListener ==
  /\ gat = "scan" /\ Listener \in batch /\ gat' = "accept" /\ batch' = batch \ {Listener}
  /\ UNCHANGED <<gprog, backlog, conn, slot, ours, octets, spoken, end, edges, sigq, newfd,
                 missed, unheard>>

\* Mutant of AfterAccept: one connection for each event.
AfterAcceptOne == "scan"
\* while (1)
AfterAccept == "accept"

\* accept and ADD_EV.
AcceptNext ==
  /\ gat = "accept" /\ backlog # << >> /\ gat' = AfterAccept
  /\ \E f \in FreeFds :
       /\ TakeCaller(f) /\ ours' = ours \union {f}
       /\ edges' = IF gprog = "edge" /\ (octets[Head(backlog)] > 0 \/ end[Head(backlog)] # "no")
                   THEN edges \union {f} ELSE edges
  /\ UNCHANGED <<gprog, octets, spoken, end, batch, sigq, newfd, missed, unheard>>

\* EAGAIN, or no descriptor is left. By edge the program goes on to recv on the listener,
\* which fails.
AcceptEnds ==
  /\ gat = "accept" /\ (backlog = << >> \/ FreeFds = {}) /\ gat' = "scan"
  /\ missed' = IF gprog = "edge" THEN missed \union {backlog[i] : i \in 1 .. Len(backlog)}
                                 ELSE missed
  /\ UNCHANGED <<gprog, backlog, conn, slot, ours, octets, spoken, end, edges, batch, sigq,
                 newfd, unheard>>

ScanEnds ==
  /\ gat = "scan" /\ batch = {} /\ gat' = "wait"
  /\ UNCHANGED <<gprog, backlog, conn, slot, ours, octets, spoken, end, edges, batch, sigq,
                 newfd, missed, unheard>>

\* What recv leaves of n octets: two are taken, or all.
Left(n) == IF gprog = "rts" \/ n < 2 THEN 0 ELSE n - 2

\* recv returns 0.
Ended(c) == octets[c] = 0 /\ end[c] = "fin"

\* recv: octets first; an error is reported once and then becomes an end; at the end the
\* descriptor is removed and closed (DEL_EV). Without input it fails with EAGAIN.
Receive(f) ==
  LET c == slot[f]
  IN  IF c = NoCaller \/ ~HasInput(f) THEN UNCHANGED <<conn, slot, ours, octets, end, missed>>
      ELSE IF Ended(c)
      THEN /\ conn' = [conn EXCEPT ![c] = "closed"]
           /\ slot' = [slot EXCEPT ![f] = NoCaller] /\ ours' = ours \ {f}
           /\ UNCHANGED <<octets, end, missed>>
      ELSE /\ octets' = [octets EXCEPT ![c] = Left(@)]
           /\ end' = IF octets[c] = 0 THEN [end EXCEPT ![c] = "fin"] ELSE end
           /\ missed' = IF gprog = "edge" /\ (octets'[c] > 0 \/ end[c] # "no")
                        THEN missed \union {c} ELSE missed
           /\ UNCHANGED <<conn, slot, ours>>

\* Mutant of NextEvent: the index does not move on.
NextEventSame(f) == batch
\* i++
NextEvent(f) == batch \ {f}

\* ADD_EV or DEL_EV fails, for the listener, an accepted socket or one whose caller has left:
\* exit(EXIT_FAILURE).
EpollCtlFails ==
  /\ gprog # "rts"
  /\ \/ gat = "setup"
     \/ gat = "accept" /\ backlog # << >> /\ FreeFds # {}
     \/ gat = "scan" /\ \E f \in batch \intersect Fds : slot[f] \in Caller /\ Ended(slot[f])
  /\ gat' = "returned"
  /\ UNCHANGED <<gprog, backlog, conn, slot, ours, octets, spoken, end, edges, batch, sigq,
                 newfd, missed, unheard>>

\* A closed descriptor leaves the epoll set, and what it had to report with it.
ScanRecv(f) ==
  /\ gat = "scan" /\ f \in batch \ {Listener} /\ Receive(f)
  /\ batch' = NextEvent(f) /\ edges' = edges \intersect (ours' \union {Listener})
  /\ UNCHANGED <<gprog, gat, backlog, spoken, sigq, newfd, unheard>>

\* sigtimedwait: the lowest number first, the oldest of it.
NextSignal ==
  LET listen == {i \in 1 .. Len(sigq) : sigq[i].sig = "LISTEN"}
      all    == IF listen = {} THEN 1 .. Len(sigq) ELSE listen
  IN  CHOOSE i \in all : \A j \in all : i <= j
\* A signal that is accepted is no longer pending.
Dequeued(s, n) == SubSeq(s, 1, n - 1) \o SubSeq(s, n + 1, Len(s))

\* SIGRT_LISTEN_IO: one accept; if it fails, the server returns.
SigListen ==
  /\ gprog = "rts" /\ gat = "wait" /\ sigq # << >> /\ sigq[NextSignal].sig = "LISTEN"
  /\ sigq' = Dequeued(sigq, NextSignal)
  /\ IF backlog = << >> \/ FreeFds = {}
     THEN gat' = "returned" /\ UNCHANGED <<backlog, conn, slot, newfd>>
     ELSE \E f \in FreeFds : TakeCaller(f) /\ newfd' = {f} /\ gat' = "register"
  /\ UNCHANGED <<gprog, ours, octets, spoken, end, edges, batch, missed, unheard>>

\* add_rts_socket: O_ASYNC, the signal, and at last the owner.
add_rts_socket ==
  /\ gat = "register" /\ gat' = "wait" /\ ours' = ours \union newfd /\ newfd' = {}
  /\ UNCHANGED <<gprog, backlog, conn, slot, octets, spoken, end, edges, batch, sigq, missed,
                 unheard>>

\* SIGRT_NORM_IO: POLLIN receives from whatever has the number by now, the rest prints.
SigNorm ==
  /\ gprog = "rts" /\ gat = "wait" /\ sigq # << >> /\ sigq[NextSignal].sig = "NORM"
  /\ sigq' = Dequeued(sigq, NextSignal)
  /\ IF sigq[NextSignal].band = "IN" THEN Receive(sigq[NextSignal].fd)
                                     ELSE UNCHANGED <<conn, slot, ours, octets, end, missed>>
  /\ UNCHANGED <<gprog, gat, backlog, spoken, edges, batch, newfd, unheard>>

Server == AddListener \/ EpollWait \/ ScanListener \/ AcceptNext \/ AcceptEnds \/ ScanEnds
          \/ (\E f \in Fds : ScanRecv(f)) \/ SigListen \/ add_rts_socket \/ SigNorm

TrgNext == Server \/ EpollCtlFails \/ \E c \in Caller : Dial(c) \/ Talk(c) \/ HangUp(c) \/ Abort(c)

\* The only thread is scheduled; callers may do nothing.
TrgFairness == WF_trgvars(Server)
TrgSpec == TrgInit /\ [][TrgNext]_trgvars /\ TrgFairness
----------------------------------------------------------------------------
(* Properties                                                              *)

\* A connection is closed only after its caller left and everything it sent was received:
\* recv's 0 is taken for the end, an error is not (io_epoll_trigger.c:143, io_rts.c:153).
ClosedAtEnd == \A c \in Caller : conn[c] = "closed" => end[c] # "no" /\ octets[c] = 0

\* The clients' descriptors block in the epoll programs, so each event that was not looked at
\* yet still has the input it announced: the recv of io_epoll_trigger.c:143 never waits, also
\* when descriptors were closed and reused in the same round.
RecvHasInput == gprog # "rts" => \A f \in batch \ {Listener} : HasInput(f)

\* io_rts stops serving only when it has no descriptor left: accept never fails because a
\* signal announced a connection that is not there any more (io_rts.c:132).
ReturnsOnlyFull == gprog = "rts" /\ gat = "returned" => FreeFds = {}

\* Why a caller that left may stay unclosed: the server stopped; the edge or signal is spent
\* with something left to do; or nobody accepts it.
Excused(c) == \/ ~Serving \/ c \in missed
              \/ conn[c] = "backlog" /\ (unheard > 0 \/ FreeFds = {})

\* Every connection whose caller left is closed in the end, with these exceptions: by level
\* always, if descriptors are not used up by callers that stay; by edge unless a recv of two
\* octets left something behind (io_epoll_trigger.c:143) or accept failed; by signals unless
\* something came before add_rts_socket had ended (io_rts.c:122, 144).
LeftIsClosed == <>[](\A c \in Caller : end[c] # "no" => conn[c] = "closed" \/ Excused(c))

\* A connection is closed at its end and not before, no receive waits for what an event has
\* announced, and io_rts returns only for want of descriptors (SIGIO may kill it before).
TriggersKept == ClosedAtEnd /\ RecvHasInput /\ ReturnsOnlyFull
=============================================================================
