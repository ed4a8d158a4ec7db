----------------------------- MODULE EpollServer -----------------------------
(***************************************************************************)
(* The threaded epoll server (io_epoll_pthread.c, mng_thread.c, mng_io.c): *)
(* a listener accepts clients and registers them with epoll, edge          *)
(* triggered; a poller turns readiness into messages on a System V queue;  *)
(* an I/O scheduler deals the descriptors to the workers' event lists in   *)
(* turn; each worker receives once per event and closes on end of file.    *)
(*                                                                         *)
(* The kernel's part (descriptor table, epoll ready list, message queue)   *)
(* and the clients are modelled from how this code uses them. A critical   *)
(* section on p_conninfo is one step: nothing reads its fields halfway,    *)
(* except the poller's unlocked read of cur_open_files, a step of its own. *)
(* An event list is the FIFO that EvList shows it to be for its first      *)
(* MAX_EVENT_QUEUE events, which is as far as this module follows it.      *)
(***************************************************************************)
EXTENDS Integers, FiniteSets, SequencesExt

CONSTANTS
  Conn,                \* clients
  NoConn,              \* "no client", the entry of a closed descriptor
  FirstFd,             \* lowest descriptor accept can return (5 in the program)
  OPEN_MAX,            \* sysconf(_SC_OPEN_MAX)
  DFL_OPEN_MAX_FILES,  \* slots of p_fdlists (1024)
  MAX_WORKER_THREAD,   \* worker threads (4)
  MAX_EVENT_QUEUE,     \* entries of a_mq_buf and of a list (200)
  MAX_CLIENT_BUF,      \* what one recv can take, in packets
  MqMax,               \* messages the System V queue holds
  StaleMq,             \* what the queue, which outlives processes, may hold at start
  ArgvPort,            \* ports the command line may ask for; 0 asks for none
  EphemeralPort,       \* ports the kernel hands out on a bind to port 0
  SpuriousWakeups,     \* may pthread_cond_wait return unsignalled?
  MaxSend              \* bound: packets a client sends

Fd     == FirstFd .. OPEN_MAX - 1
Worker == 0 .. MAX_WORKER_THREAD - 1
max_open_files == IF OPEN_MAX < DFL_OPEN_MAX_FILES THEN OPEN_MAX ELSE DFL_OPEN_MAX_FILES

ASSUME SizeAssumption ==
  /\ FirstFd \in Nat \ {0} /\ OPEN_MAX \in Nat /\ DFL_OPEN_MAX_FILES \in Nat \ {0}
  /\ MAX_WORKER_THREAD \in Nat \ {0} /\ MAX_EVENT_QUEUE \in Nat \ {0}
  /\ MAX_CLIENT_BUF \in Nat \ {0} /\ MqMax \in Nat \ {0} /\ MaxSend \in Nat
  /\ SpuriousWakeups \in BOOLEAN
ASSUME FdAssumption   == FirstFd < OPEN_MAX
ASSUME PortAssumption == EphemeralPort \subseteq Nat \ {0} /\ ArgvPort \subseteq Nat
ASSUME StaleAssumption == StaleMq \subseteq Seq(Seq(Fd))
ASSUME ConnAssumption == NoConn \notin Conn /\ IsFiniteSet(Conn)

VARIABLES
  \* the clients' side
  cstate,      \* "new", "backlog", "open" or "closed" (by the server)
  peer,        \* "up", "fin" (the client closed) or "rst" (it reset)
  rx,          \* packets received by the kernel and not read yet
  sent,        \* packets sent
  \* the kernel's side
  backlog,     \* clients waiting for accept
  fdtable,     \* the client behind each descriptor
  registered,  \* descriptors in the epoll set
  ready,       \* epoll's ready list, in whatever order
  mq,          \* the message queue: sequences of descriptors
  \* shared memory of the threads
  sin_port,    \* Targ_listener.saddr_s.sin_port
  cur_open_files,
  fdlist,      \* p_fdlists[fd].fd
  evl,         \* the workers' event lists
  \* locals of the threads
  pcL, fd_client,        \* listener
  pcP, maxev, a_mq_buf,  \* poller
  sbuf, idx_rr,          \* scheduler: the rest of its message, and whose turn it is
  pcW, ev, arg, wconn,   \* workers: event, argument p_fdl->fd, client whose socket recv took
  exited,      \* "no", or why the process ended
  \* history
  argv_port,   \* the port asked for
  npush,       \* events each list has been given
  lost,        \* clients for which an event was dropped or met no usable slot
  contested    \* descriptors that one worker was closing while another had an event for them

client    == <<cstate, peer, rx, sent>>
kernel    == <<backlog, fdtable, registered, ready>>
listener  == <<pcL, fd_client, sin_port, argv_port>>
poller    == <<pcP, maxev, a_mq_buf>>
scheduler == <<sbuf, idx_rr>>
workers   == <<pcW, ev, arg, wconn, contested>>
vars == <<client, kernel, mq, cur_open_files, fdlist, evl, listener, poller,
          scheduler, workers, exited, npush, lost>>

Running == exited = "no"

\* epoll finds a socket readable when it has data, end of file or an error; EPOLLIN
\* is set in all three cases.
Readable(c) == rx[c] > 0 \/ peer[c] # "up"

\* Edge triggering: activity on a registered descriptor puts it on the ready list,
\* once.
Edge(c) == ready' = ready \union {f \in registered : fdtable[f] = c}

\* main fills in the address, alloc_resources callocs everything and reuses an
\* existing message queue, and the threads are about to be made.
Init ==
  /\ cstate = [c \in Conn |-> "new"] /\ peer = [c \in Conn |-> "up"]
  /\ rx = [c \in Conn |-> 0] /\ sent = [c \in Conn |-> 0]
  /\ backlog = << >> /\ fdtable = [f \in Fd |-> NoConn]
  /\ registered = {} /\ ready = {}
  /\ mq \in StaleMq
  /\ argv_port \in ArgvPort /\ sin_port = argv_port
  /\ cur_open_files = 0 /\ fdlist = [f \in Fd |-> 0]
  /\ evl = [w \in Worker |-> << >>]
  /\ pcL = "start" /\ fd_client = 0
  /\ pcP = "start" /\ maxev = 0 /\ a_mq_buf = << >>
  /\ sbuf = << >> /\ idx_rr = 0
  /\ pcW = [w \in Worker |-> "idle"] /\ ev = [w \in Worker |-> 0]
  /\ arg = [w \in Worker |-> 0] /\ wconn = [w \in Worker |-> NoConn]
  /\ exited = "no"
  /\ npush = [w \in Worker |-> 0] /\ lost = {} /\ contested = {}
-----------------------------------------------------------------------------
(* Clients and kernel                                                      *)

Connect(c) ==
  /\ Running /\ cstate[c] = "new"
  /\ pcL \notin {"start", "bind"}
  /\ cstate' = [cstate EXCEPT ![c] = "backlog"]
  /\ backlog' = Append(backlog, c)
  /\ UNCHANGED <<peer, rx, sent, fdtable, registered, ready, mq, cur_open_files, fdlist,
                 evl, listener, poller, scheduler, workers, exited, npush, lost>>

PeerSend(c) ==
  /\ Running /\ cstate[c] \in {"backlog", "open"}
  /\ peer[c] = "up" /\ sent[c] < MaxSend
  /\ sent' = [sent EXCEPT ![c] = @ + 1]
  /\ rx' = [rx EXCEPT ![c] = @ + 1]
  /\ Edge(c)
  /\ UNCHANGED <<cstate, peer, backlog, fdtable, registered, mq, cur_open_files, fdlist,
                 evl, listener, poller, scheduler, workers, exited, npush, lost>>

\* The client closes, orderly ("fin") or with a reset, which discards unread data.
PeerClose(c, how) ==
  /\ Running /\ cstate[c] \in {"backlog", "open"}
  /\ peer[c] = "up"
  /\ peer' = [peer EXCEPT ![c] = how]
  /\ rx' = [rx EXCEPT ![c] = IF how = "rst" THEN 0 ELSE @]
  /\ Edge(c)
  /\ UNCHANGED <<cstate, sent, backlog, fdtable, registered, mq, cur_open_files, fdlist,
                 evl, listener, poller, scheduler, workers, exited, npush, lost>>
-----------------------------------------------------------------------------
(* Start-up and the listener                                               *)

\* make_threads clears each thread's argument before it creates the thread, the
\* listener's address included.
MakeThreads ==
  /\ Running /\ pcL = "start"
  /\ sin_port' = 0
  /\ pcL' = "bind" /\ pcP' = "check"
  /\ UNCHANGED <<client, kernel, mq, cur_open_files, fdlist, evl, fd_client, argv_port,
                 maxev, a_mq_buf, scheduler, workers, exited, npush, lost>>

\* socket, bind, listen; port 0 lets the kernel choose one, and getsockname puts it
\* in the address.
ListenerBind ==
  /\ Running /\ pcL = "bind"
  /\ sin_port' \in IF sin_port = 0 THEN EphemeralPort ELSE {sin_port}
  /\ pcL' = "accept"
  /\ UNCHANGED <<client, kernel, mq, cur_open_files, fdlist, evl, fd_client, argv_port,
                 poller, scheduler, workers, exited, npush, lost>>

FreeFd == {f \in Fd : fdtable[f] = NoConn}

\* accept returns the lowest free descriptor.
Accept ==
  /\ Running /\ pcL = "accept" /\ backlog # << >>
  /\ \E f \in FreeFd :
       /\ \A g \in FreeFd : f <= g
       /\ fd_client' = f
       /\ fdtable' = [fdtable EXCEPT ![f] = Head(backlog)]
  /\ cstate' = [cstate EXCEPT ![Head(backlog)] = "open"]
  /\ backlog' = Tail(backlog)
  /\ pcL' = "addEfd"
  /\ UNCHANGED <<peer, rx, sent, registered, ready, mq, cur_open_files, fdlist, evl,
                 sin_port, argv_port, poller, scheduler, workers, exited, npush, lost>>

\* accept fails with no descriptor left (EMFILE) or for a client that reset while it
\* waited (ECONNABORTED); any error makes the listener thread return.
AcceptFail ==
  /\ Running /\ pcL = "accept" /\ backlog # << >>
  /\ FreeFd = {} \/ peer[Head(backlog)] = "rst"
  /\ pcL' = "ended"
  /\ UNCHANGED <<client, kernel, mq, cur_open_files, fdlist, evl, fd_client, sin_port,
                 argv_port, poller, scheduler, workers, exited, npush, lost>>

\* Mutant of Broadcast: sent for the second registered descriptor.
BroadcastLate(n) == pcP' = IF n = 2 /\ pcP = "asleep" THEN "call" ELSE pcP

\* add_efd's CV_SIGNAL, a broadcast, when the first descriptor is registered; only
\* the poller sleeps on this condition.
Broadcast(n) == pcP' = IF n = 1 /\ pcP = "asleep" THEN "call" ELSE pcP

\* add_efd's overflow test.
EfdRoom == cur_open_files < max_open_files

\* add_efd refuses a client beyond max_open_files, and ADD_EFD then ends the process.
AddEfdOverflow ==
  /\ Running /\ pcL = "addEfd" /\ ~EfdRoom
  /\ exited' = "addOverflow"
  /\ UNCHANGED <<client, kernel, mq, cur_open_files, fdlist, evl, listener, poller,
                 scheduler, workers, npush, lost>>

\* add_efd: EPOLL_CTL_ADD, which reports what the socket already has, then the count.
AddEfd ==
  /\ Running /\ pcL = "addEfd" /\ EfdRoom
  /\ registered' = registered \union {fd_client}
  /\ ready' = IF Readable(fdtable[fd_client]) THEN ready \union {fd_client} ELSE ready
  /\ cur_open_files' = cur_open_files + 1
  /\ Broadcast(cur_open_files + 1)
  /\ pcL' = "addFdlist"
  /\ UNCHANGED <<client, backlog, fdtable, mq, fdlist, evl, fd_client, sin_port, argv_port,
                 maxev, a_mq_buf, scheduler, workers, exited, npush, lost>>

\* ADD_FDLIST, after the epoll registration. The index is not checked: a write past
\* the last slot kills the process or hits memory that this program then reads back.
AddFdlist ==
  /\ Running /\ pcL = "addFdlist"
  /\ fdlist' = [fdlist EXCEPT ![fd_client] = fd_client]
  /\ exited' \in IF fd_client < DFL_OPEN_MAX_FILES THEN {"no"} ELSE {"no", "segv"}
  /\ pcL' = "accept"
  /\ UNCHANGED <<client, kernel, mq, cur_open_files, evl, fd_client, sin_port, argv_port,
                 poller, scheduler, workers, npush, lost>>
-----------------------------------------------------------------------------
(* The poller                                                              *)

\* The test of cur_open_files under the mutex, and CV_WAIT.
PollerCheck ==
  /\ Running /\ pcP = "check"
  /\ pcP' = IF cur_open_files = 0 THEN "asleep" ELSE "call"
  /\ UNCHANGED <<client, kernel, mq, cur_open_files, fdlist, evl, listener, maxev,
                 a_mq_buf, scheduler, workers, exited, npush, lost>>

\* pthread_cond_wait may return although nobody signalled; the count is not tested
\* again.
PollerSpurious ==
  /\ Running /\ SpuriousWakeups /\ pcP = "asleep"
  /\ pcP' = "call"
  /\ UNCHANGED <<client, kernel, mq, cur_open_files, fdlist, evl, listener, maxev,
                 a_mq_buf, scheduler, workers, exited, npush, lost>>

\* epoll_wait is called with cur_open_files, read without the mutex, as maxevents;
\* zero is an error (EINVAL) that ends the process.
PollerCall ==
  /\ Running /\ pcP = "call"
  /\ pcP' = "wait" /\ maxev' = cur_open_files
  /\ exited' = IF cur_open_files = 0 THEN "einval" ELSE "no"
  /\ UNCHANGED <<client, kernel, mq, cur_open_files, fdlist, evl, listener, a_mq_buf,
                 scheduler, workers, npush, lost>>

\* epoll_wait returns up to maxev ready descriptors, those still readable, and the
\* loop copies them behind a_mq_buf[0], which has MAX_EVENT_QUEUE places: more
\* overrun the array, and the process is taken to end there.
PollerReturn ==
  LET found == {f \in ready : Readable(fdtable[f])}
      n     == IF Cardinality(found) < maxev THEN Cardinality(found) ELSE maxev
  IN  /\ Running /\ pcP = "wait" /\ n > 0
      /\ \E q \in [1 .. n -> found] :
           /\ IsInjective(q)
           /\ a_mq_buf' = q /\ ready' = found \ ToSet(q)
      /\ exited' = IF n > MAX_EVENT_QUEUE THEN "overrun" ELSE "no"
      /\ pcP' = "send"
      /\ UNCHANGED <<client, backlog, fdtable, registered, mq, cur_open_files, fdlist, evl,
                     listener, maxev, scheduler, workers, npush, lost>>

\* The clients that an event for descriptor f could have told about.
Behind(f) == {fdtable[f]} \ {NoConn}

\* msgsnd with IPC_NOWAIT: on a full queue the events are logged and dropped.
PollerSend ==
  /\ Running /\ pcP = "send"
  /\ IF Len(mq) < MqMax
     THEN mq' = Append(mq, a_mq_buf) /\ UNCHANGED lost
     ELSE /\ lost' = lost \union UNION {Behind(f) : f \in ToSet(a_mq_buf)}
          /\ UNCHANGED mq
  /\ a_mq_buf' = << >>
  /\ pcP' = "check"
  /\ UNCHANGED <<client, kernel, cur_open_files, fdlist, evl, listener, maxev,
                 scheduler, workers, exited, npush>>
-----------------------------------------------------------------------------
(* The I/O scheduler                                                       *)

\* Mutant of SchedRecv: the distribution loop starts one event late.
SchedRecvSkip ==
  /\ Running /\ pcL # "start" /\ sbuf = << >> /\ mq # << >>
  /\ sbuf' = Tail(Head(mq)) /\ mq' = Tail(mq)
  /\ UNCHANGED <<client, kernel, cur_open_files, fdlist, evl, listener, poller,
                 idx_rr, workers, exited, npush, lost>>

\* msgrcv: the next message, whole.
SchedRecv ==
  /\ Running /\ pcL # "start" /\ sbuf = << >> /\ mq # << >>
  /\ sbuf' = Head(mq) /\ mq' = Tail(mq)
  /\ UNCHANGED <<client, kernel, cur_open_files, fdlist, evl, listener, poller,
                 idx_rr, workers, exited, npush, lost>>

\* One turn of the distribution loop: push_evlist on the next list in turn. The
\* guard on npush is the bound up to which the list is a FIFO.
SchedPush ==
  LET w == IF idx_rr = MAX_WORKER_THREAD THEN 0 ELSE idx_rr
  IN  /\ Running /\ sbuf # << >>
      /\ npush[w] < MAX_EVENT_QUEUE
      /\ evl' = [evl EXCEPT ![w] = Append(@, Head(sbuf))]
      /\ npush' = [npush EXCEPT ![w] = @ + 1]
      /\ sbuf' = Tail(sbuf) /\ idx_rr' = w + 1
      /\ UNCHANGED <<client, kernel, mq, cur_open_files, fdlist, listener, poller,
                     workers, exited, lost>>
-----------------------------------------------------------------------------
(* The workers                                                             *)

WGoto(w, from, to) == pcW[w] = from /\ pcW' = [pcW EXCEPT ![w] = to]

\* A worker has read the end of its client and is closing its descriptor.
Closes(w) == pcW[w] \in {"delArg", "del", "delList"}

\* pop_evlist and get_fdlistbyfd.
WorkerPop(w) ==
  /\ Running /\ evl[w] # << >>
  /\ WGoto(w, "idle", "arg")
  /\ ev' = [ev EXCEPT ![w] = Head(evl[w])]
  /\ evl' = [evl EXCEPT ![w] = Tail(@)]
  /\ contested' = contested \union {f \in {Head(evl[w])} : \E v \in Worker : Closes(v) /\ ev[v] = f}
  /\ UNCHANGED <<client, kernel, mq, cur_open_files, fdlist, listener, poller, scheduler,
                 arg, wconn, exited, npush, lost>>

\* recv's argument p_fdl->fd is read from the slot.
WorkerArg(w) ==
  /\ Running /\ WGoto(w, "arg", "enter")
  /\ arg' = [arg EXCEPT ![w] = fdlist[ev[w]]]
  /\ UNCHANGED <<client, kernel, mq, cur_open_files, fdlist, evl, listener, poller,
                 scheduler, ev, wconn, exited, npush, lost, contested>>

\* Mutant of WorkerEnter: a failed recv is taken for end of file.
WorkerEnterFailIsEof(w) ==
  /\ Running /\ pcW[w] = "enter"
  /\ IF arg[w] \in Fd /\ fdtable[arg[w]] # NoConn
     THEN /\ WGoto(w, "enter", "recv")
          /\ wconn' = [wconn EXCEPT ![w] = fdtable[arg[w]]]
     ELSE WGoto(w, "enter", "delArg") /\ UNCHANGED wconn
  /\ UNCHANGED <<client, kernel, mq, cur_open_files, fdlist, evl, listener, poller,
                 scheduler, ev, arg, exited, npush, lost, contested>>

\* recv finds the socket behind its argument. 0 is standard input and -1 a deleted
\* slot: recv fails, the error is logged and the event is gone.
WorkerEnter(w) ==
  /\ Running /\ pcW[w] = "enter"
  /\ IF arg[w] \in Fd /\ fdtable[arg[w]] # NoConn
     THEN /\ WGoto(w, "enter", "recv")
          /\ wconn' = [wconn EXCEPT ![w] = fdtable[arg[w]]]
          /\ UNCHANGED <<ev, arg, lost>>
     ELSE /\ WGoto(w, "enter", "idle")
          /\ lost' = lost \union Behind(ev[w])
          /\ ev' = [ev EXCEPT ![w] = 0] /\ arg' = [arg EXCEPT ![w] = 0]
          /\ UNCHANGED wconn
  /\ UNCHANGED <<client, kernel, mq, cur_open_files, fdlist, evl, listener, poller,
                 scheduler, exited, npush, contested>>

\* recv returns data, at most one buffer of it, or the error of a reset (after which
\* the socket reads as closed). Sockets are blocking: with neither, recv waits.
WorkerRecv(w) ==
  LET c == wconn[w]
  IN  /\ Running /\ WGoto(w, "recv", "idle")
      /\ \/ /\ rx[c] > 0
            /\ rx' = [rx EXCEPT ![c] = IF @ > MAX_CLIENT_BUF THEN @ - MAX_CLIENT_BUF ELSE 0]
            /\ UNCHANGED peer
         \/ /\ rx[c] = 0 /\ peer[c] = "rst"
            /\ peer' = [peer EXCEPT ![c] = "fin"]
            /\ UNCHANGED rx
      /\ wconn' = [wconn EXCEPT ![w] = NoConn]
      /\ ev' = [ev EXCEPT ![w] = 0] /\ arg' = [arg EXCEPT ![w] = 0]
      /\ UNCHANGED <<cstate, sent, kernel, mq, cur_open_files, fdlist, evl, listener, poller,
                     scheduler, exited, npush, lost, contested>>

\* recv returns 0.
WorkerEof(w) ==
  /\ Running /\ WGoto(w, "recv", "delArg")
  /\ rx[wconn[w]] = 0 /\ peer[wconn[w]] = "fin"
  /\ contested' = contested \union {f \in {ev[w]} : \E v \in Worker \ {w} : ev[v] = f}
  /\ UNCHANGED <<client, kernel, mq, cur_open_files, fdlist, evl, listener, poller,
                 scheduler, ev, arg, wconn, exited, npush, lost>>

\* DEL_EFD reads p_fdl->fd again.
WorkerDelArg(w) ==
  /\ Running /\ WGoto(w, "delArg", "del")
  /\ arg' = [arg EXCEPT ![w] = fdlist[ev[w]]]
  /\ UNCHANGED <<client, kernel, mq, cur_open_files, fdlist, evl, listener, poller,
                 scheduler, ev, wconn, exited, npush, lost, contested>>

\* Mutant of WorkerDel: del_efd forgets to count down.
WorkerDelNoCount(w) ==
  LET f == arg[w]
  IN  /\ Running /\ WGoto(w, "del", "delList")
      /\ f \in registered
      /\ cstate' = [cstate EXCEPT ![fdtable[f]] = "closed"]
      /\ fdtable' = [fdtable EXCEPT ![f] = NoConn]
      /\ registered' = registered \ {f}
      /\ ready' = ready \ {f}
      /\ UNCHANGED <<peer, rx, sent, cur_open_files, backlog, mq, fdlist, evl, listener, poller,
                     scheduler, ev, arg, wconn, npush, lost, contested, exited>>

\* del_efd: EPOLL_CTL_DEL, close and the count. A descriptor that is not in the
\* epoll set makes it fail, and DEL_EFD then ends the process.
WorkerDel(w) ==
  LET f == arg[w]
  IN  /\ Running /\ WGoto(w, "del", "delList")
      /\ IF f \in registered
         THEN /\ cstate' = [cstate EXCEPT ![fdtable[f]] = "closed"]
              /\ fdtable' = [fdtable EXCEPT ![f] = NoConn]
              /\ registered' = registered \ {f}
              /\ ready' = ready \ {f}
              /\ cur_open_files' = cur_open_files - 1
              /\ UNCHANGED exited
         ELSE /\ exited' = "delFailed"
              /\ UNCHANGED <<cstate, fdtable, registered, ready, cur_open_files>>
      /\ UNCHANGED <<peer, rx, sent, backlog, mq, fdlist, evl, listener, poller,
                     scheduler, ev, arg, wconn, npush, lost, contested>>

\* DEL_FDLIST(p_fdl->fd) reads the slot once more for the index. Index -1 writes in
\* front of the array: the process dies or nothing it reads changes.
WorkerDelList(w) ==
  LET f == fdlist[ev[w]]
  IN  /\ Running /\ WGoto(w, "delList", "idle")
      /\ IF f \in Fd
         THEN fdlist' = [fdlist EXCEPT ![f] = -1] /\ UNCHANGED exited
         ELSE exited' \in {"no", "segv"} /\ UNCHANGED fdlist
      /\ ev' = [ev EXCEPT ![w] = 0] /\ arg' = [arg EXCEPT ![w] = 0]
      /\ wconn' = [wconn EXCEPT ![w] = NoConn]
      /\ UNCHANGED <<client, kernel, mq, cur_open_files, evl, listener, poller,
                     scheduler, npush, lost, contested>>
-----------------------------------------------------------------------------
Clients  == \E c \in Conn : \/ Connect(c) \/ PeerSend(c)
                            \/ \E how \in {"fin", "rst"} : PeerClose(c, how)
Listener == ListenerBind \/ Accept \/ AcceptFail \/ AddEfdOverflow \/ AddEfd \/ AddFdlist
Poller   == PollerCheck \/ PollerCall \/ PollerReturn \/ PollerSend
Iosched  == SchedRecv \/ SchedPush
Work(w)  == WorkerPop(w) \/ WorkerArg(w) \/ WorkerEnter(w) \/ WorkerRecv(w)
            \/ WorkerEof(w) \/ WorkerDelArg(w) \/ WorkerDel(w) \/ WorkerDelList(w)

Next == \/ Clients \/ MakeThreads \/ Listener \/ Poller \/ PollerSpurious \/ Iosched
        \/ \E w \in Worker : Work(w)

Spec == Init /\ [][Next]_vars

\* Every thread runs on when it can; clients and spurious wakeups promise nothing.
FairSpec == /\ Spec /\ WF_vars(MakeThreads) /\ WF_vars(Listener) /\ WF_vars(Poller)
            /\ WF_vars(Iosched) /\ \A w \in Worker : WF_vars(Work(w))
-----------------------------------------------------------------------------
(* Correctness                                                             *)

Open == {f \in Fd : fdtable[f] # NoConn}

TypeOK ==
  /\ cstate \in [Conn -> {"new", "backlog", "open", "closed"}]
  /\ peer \in [Conn -> {"up", "fin", "rst"}]
  /\ rx \in [Conn -> 0 .. MaxSend] /\ sent \in [Conn -> 0 .. MaxSend]
  /\ backlog \in Seq(Conn)
  /\ fdtable \in [Fd -> Conn \union {NoConn}]
  /\ registered \in SUBSET Fd
  /\ ready \in SUBSET Fd /\ a_mq_buf \in Seq(Fd) /\ sbuf \in Seq(Fd)
  /\ mq \in Seq(Seq(Fd))
  /\ sin_port \in Nat /\ argv_port \in Nat
  /\ cur_open_files \in 0 .. max_open_files /\ maxev \in 0 .. max_open_files
  /\ fdlist \in [Fd -> Fd \union {0, -1}]
  /\ evl \in [Worker -> Seq(Fd)] /\ npush \in [Worker -> 0 .. MAX_EVENT_QUEUE]
  /\ pcL \in {"start", "bind", "accept", "addEfd", "addFdlist", "ended"}
  /\ fd_client \in Fd \union {0}
  /\ pcP \in {"start", "check", "asleep", "call", "wait", "send"}
  /\ idx_rr \in 0 .. MAX_WORKER_THREAD
  /\ pcW \in [Worker -> {"idle", "arg", "enter", "recv", "delArg", "del", "delList"}]
  /\ ev \in [Worker -> Fd \union {0}] /\ arg \in [Worker -> Fd \union {0, -1}]
  /\ wconn \in [Worker -> Conn \union {NoConn}]
  /\ exited \in {"no", "addOverflow", "einval", "delFailed", "overrun", "segv"}
  /\ lost \in SUBSET Conn /\ contested \in SUBSET Fd

\* cur_open_files counts exactly the descriptors in the epoll set, and no open
\* descriptor escapes it but the one the listener has just accepted: add_efd and
\* del_efd keep epoll, the count and close in step, whichever threads race.
CountsRegistered ==
  /\ cur_open_files = Cardinality(registered)
  /\ Open = registered \union IF pcL = "addEfd" THEN {fd_client} ELSE {}

\* The poller never sleeps on cv_barrier while a client is registered: add_efd's
\* broadcast on the first client and the poller's test leave no gap.
PollerAwake == pcP = "asleep" => registered = {}

\* start_iosched spreads the events evenly: whatever the sizes of the messages they
\* came in, no list has been given two more than another.
RoundRobin == \A v, w \in Worker : npush[v] <= npush[w] + 1

\* An event for descriptor f, about client c, is somewhere between epoll and recv.
InFlight(f, c) ==
  \/ f \in ready \union ToSet(a_mq_buf) \union ToSet(sbuf)
  \/ \E m \in ToSet(mq) : f \in ToSet(m)
  \/ \E w \in Worker :
       \/ f \in ToSet(evl[w])
       \/ pcW[w] \in {"arg", "enter"} /\ ev[w] = f
       \/ pcW[w] = "recv" /\ wconn[w] = c

\* Unread data is never forgotten, although epoll reports it only once: an event for
\* it is on its way to a recv, or the loss was one of the two the code accepts (a
\* full message queue, a slot that does not hold the descriptor). One recv is
\* assumed to take what a client sends (MaxSend <= MAX_CLIENT_BUF).
DataHasEvent ==
  Running /\ MaxSend <= MAX_CLIENT_BUF =>
    \A f \in registered : rx[fdtable[f]] > 0 => \/ InFlight(f, fdtable[f])
                                                \/ fdtable[f] \in lost

InPipeline ==
  \/ \E f \in ready : Readable(fdtable[f])
  \/ a_mq_buf # << >> \/ mq # << >> \/ sbuf # << >>
  \/ \E w \in Worker : evl[w] # << >> \/ pcW[w] # "idle"

\* Some worker waits in recv for a client that may never speak.
WorkerBlocked == \E w \in Worker : pcW[w] = "recv" /\ ~Readable(wconn[w])

\* Events do not get stuck between the threads: the pipeline from epoll to the workers
\* empties, unless the process ends or a blocking recv holds a worker.
EventsDrain == InPipeline ~> (~InPipeline \/ ~Running \/ WorkerBlocked)

\* What a worker asks del_efd to close is a descriptor that epoll knows, and behind it is
\* still the client whose end the worker has read, with no data left: slots are read three
\* times, and descriptors reused, while it gets there. The exception are descriptors that
\* one worker was closing while another had an event for them in hand (nothing sends the
\* events of one descriptor to one worker): there the later close hits the next owner of the
\* descriptor, or ends the process.
ClosesRightly ==
  \A w \in Worker : pcW[w] = "del" /\ ev[w] \notin contested =>
    /\ arg[w] \in registered /\ fdtable[arg[w]] = wconn[w]
    /\ peer[wconn[w]] = "fin" /\ rx[wconn[w]] = 0

\* Unread data has its event somewhere between epoll and the workers, in tables and queues
\* whose entries stay in range, and events are dealt to the workers evenly.
EventsKept == TypeOK /\ DataHasEvent /\ RoundRobin
=============================================================================
