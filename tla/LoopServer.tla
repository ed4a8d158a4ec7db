----------------------------- MODULE LoopServer -----------------------------
(***************************************************************************)
(* The single-threaded, level-triggered servers of 7.io_multiplexing. One  *)
(* loop waits for readiness, accepts, receives once from every socket that *)
(* was reported and closes those that have ended. Four programs:           *)
(*                                                                         *)
(*   "poll"     io_poll.c and io_poll_LT.c: revents, a count of reports    *)
(*   "select"   io_select.c: one accept in each cycle, blocking listener   *)
(*   "select2"  io_select2.c: accepts until EAGAIN                         *)
(*   "epoll"    io_epoll.c: an array of events instead of a socket table   *)
(*                                                                         *)
(* The first three keep their sockets in a table with the listener in      *)
(* entry 0; del_socket moves the last entry into the hole while the loop   *)
(* over the table runs. Clients and kernel are modelled from their use.    *)
(***************************************************************************)
EXTENDS Integers, FiniteSets, Sequences

CONSTANTS
  Program,        \* the programs to look at
  Conn,           \* clients
  NoConn,         \* "no client", the entry of a closed descriptor
  fd_listener,    \* the listening socket
  FirstFd,        \* lowest descriptor accept can return
  OPEN_MAX,       \* descriptors are below this
  MAX_FD_SOCKET,  \* entries of the table
  RecvMax,        \* what one recv can take, in packets
  MaxSend         \* bound: packets a client sends

Fd   == FirstFd .. OPEN_MAX - 1
Slot == 0 .. MAX_FD_SOCKET - 1

ASSUME ProgramAssumption == Program \subseteq {"poll", "select", "select2", "epoll"}
ASSUME ConnAssumption    == NoConn \notin Conn /\ IsFiniteSet(Conn)
ASSUME FdAssumption      == FirstFd \in Nat \ {0} /\ OPEN_MAX \in Nat
ASSUME ListenerAssumption == fd_listener \in Nat /\ fd_listener < FirstFd
ASSUME TableAssumption   == MAX_FD_SOCKET \in Nat \ {0}
ASSUME PacketAssumption  == RecvMax \in Nat \ {0} /\ MaxSend \in Nat

VARIABLES
  cstate,         \* "new", "backlog", "open" or "closed" (by the server)
  peer,           \* "up", "fin" (the client closed) or "rst" (it reset)
  rx, sent,       \* packets not read yet, and packets sent
  backlog,        \* clients waiting for accept
  fdtable,        \* the client behind each descriptor
  prog,           \* the program that runs
  table,          \* pollfds[].fd, or fd_socket[]
  cnt_fd_socket,
  registered,     \* the epoll set
  pc, i, ret_poll,
  reported,       \* revents, fds_read: what the last wait reported
  ep_events,      \* the same as epoll's array
  served,         \* history: descriptors received from in this round
  refused         \* history: descriptors accepted with the table full

client == <<cstate, peer, rx, sent>>
socks  == <<table, cnt_fd_socket, registered>>
round  == <<i, ret_poll, reported, ep_events, served>>
vars   == <<client, backlog, fdtable, prog, socks, pc, round, refused>>

\* A socket is reported when it has data, end of file or an error.
Readable(c) == rx[c] > 0 \/ peer[c] # "up"

\* The sockets that the program waits for: the table that poll or mk_fds goes
\* through, or the epoll set. A table entry of -1 watches nothing: FD_SET(-1) sets
\* bit 63 on the platforms of the examples, which select ignores while descriptors
\* are below 63 (OPEN_MAX in the instances).
Watched == IF prog = "epoll" THEN registered
           ELSE {table[k] : k \in 0 .. cnt_fd_socket - 1}

Ready == {f \in Watched : \/ f = fd_listener /\ backlog # << >>
                          \/ f \in Fd /\ Readable(fdtable[f])}

\* main up to its loop: the listener is the first socket that is watched.
Init ==
  /\ cstate = [c \in Conn |-> "new"] /\ peer = [c \in Conn |-> "up"]
  /\ rx = [c \in Conn |-> 0] /\ sent = [c \in Conn |-> 0]
  /\ backlog = << >> /\ fdtable = [f \in Fd |-> NoConn]
  /\ prog \in Program
  /\ table = [s \in Slot |-> IF s = 0 /\ prog # "epoll" THEN fd_listener ELSE 0]
  /\ cnt_fd_socket = IF prog = "epoll" THEN 0 ELSE 1
  /\ registered = IF prog = "epoll" THEN {fd_listener} ELSE {}
  /\ pc = "wait" /\ i = 0 /\ ret_poll = 0
  /\ reported = {} /\ ep_events = << >> /\ served = {} /\ refused = {}
-----------------------------------------------------------------------------
(* Clients                                                                 *)

Connect(c) ==
  /\ cstate[c] = "new"
  /\ cstate' = [cstate EXCEPT ![c] = "backlog"]
  /\ backlog' = Append(backlog, c)
  /\ UNCHANGED <<peer, rx, sent, fdtable, prog, socks, pc, round, refused>>

PeerSend(c) ==
  /\ cstate[c] \in {"backlog", "open"} /\ peer[c] = "up" /\ sent[c] < MaxSend
  /\ sent' = [sent EXCEPT ![c] = @ + 1]
  /\ rx' = [rx EXCEPT ![c] = @ + 1]
  /\ UNCHANGED <<cstate, peer, backlog, fdtable, prog, socks, pc, round, refused>>

\* The client closes, orderly ("fin") or with a reset, which discards unread data.
PeerClose(c, how) ==
  /\ cstate[c] \in {"backlog", "open"} /\ peer[c] = "up"
  /\ peer' = [peer EXCEPT ![c] = how]
  /\ rx' = [rx EXCEPT ![c] = IF how = "rst" THEN 0 ELSE @]
  /\ UNCHANGED <<cstate, sent, backlog, fdtable, prog, socks, pc, round, refused>>
-----------------------------------------------------------------------------
(* Waiting and accepting                                                   *)

Enumerations(S) ==
  {s \in [1 .. Cardinality(S) -> S] : \A a, b \in DOMAIN s : s[a] = s[b] => a = b}

\* Mutant of FirstIndex: the loop over the table starts behind the first client.
FirstIndexLate == IF prog = "epoll" THEN 0 ELSE 2

\* Where the loop over the reports starts: entry 0 of a table is the listener.
FirstIndex == IF prog = "epoll" THEN 0 ELSE 1

\* poll, select or epoll_wait returns. A reported listener is looked at first and
\* ends the cycle; in io_epoll.c it is an event like any other.
Wait ==
  /\ pc = "wait" /\ Ready # {}
  /\ reported' = Ready /\ ret_poll' = Cardinality(Ready)
  /\ ep_events' \in IF prog = "epoll" THEN Enumerations(Ready) ELSE {<< >>}
  /\ served' = {} /\ i' = FirstIndex
  /\ pc' = IF prog # "epoll" /\ fd_listener \in Ready THEN "accept" ELSE "scan"
  /\ UNCHANGED <<client, backlog, fdtable, prog, socks, refused>>

\* add_socket. Its caller does nothing about a full table.
AddSocket(fd) ==
  /\ IF cnt_fd_socket < MAX_FD_SOCKET
     THEN /\ table' = [table EXCEPT ![cnt_fd_socket] = fd]
          /\ cnt_fd_socket' = cnt_fd_socket + 1
          /\ UNCHANGED refused
     ELSE /\ refused' = refused \union {fd}
          /\ UNCHANGED <<table, cnt_fd_socket>>
  /\ UNCHANGED registered

\* add_ev of io_epoll.c.
add_ev(fd) ==
  /\ registered' = registered \union {fd}
  /\ UNCHANGED <<table, cnt_fd_socket, refused>>

FreeFd == {f \in Fd : fdtable[f] = NoConn}

\* After a successful accept, io_select.c waits again and the others accept again.
AfterAccept == IF prog = "select" THEN "wait" ELSE "accept"

\* accept returns the lowest free descriptor.
Accept ==
  /\ pc = "accept" /\ backlog # << >>
  /\ \E f \in FreeFd :
       /\ \A g \in FreeFd : f <= g
       /\ fdtable' = [fdtable EXCEPT ![f] = Head(backlog)]
       /\ IF prog = "epoll" THEN add_ev(f) ELSE AddSocket(f)
  /\ cstate' = [cstate EXCEPT ![Head(backlog)] = "open"]
  /\ backlog' = Tail(backlog)
  /\ pc' = AfterAccept
  /\ UNCHANGED <<peer, rx, sent, prog, round>>

\* The accept loop is over: io_epoll.c goes on to the next event, the others
\* start the next cycle without a look at the other reports.
LeaveAccept ==
  /\ pc' = IF prog = "epoll" THEN "scan" ELSE "wait"
  /\ i' = IF prog = "epoll" THEN i + 1 ELSE i
  /\ UNCHANGED <<ret_poll, reported, ep_events, served>>

\* EAGAIN on the non-blocking listener.
AcceptNoMore ==
  /\ pc = "accept" /\ backlog = << >>
  /\ LeaveAccept
  /\ UNCHANGED <<client, backlog, fdtable, prog, socks, refused>>

\* accept fails: no descriptor is left (EMFILE), or the client reset while it waited
\* (ECONNABORTED). io_select2.c has no "break" here: it adds descriptor -1 to the
\* table and calls accept again.
AcceptFail ==
  /\ pc = "accept" /\ backlog # << >>
  /\ \/ FreeFd = {} /\ UNCHANGED <<cstate, backlog>>
     \/ /\ peer[Head(backlog)] = "rst"
        /\ cstate' = [cstate EXCEPT ![Head(backlog)] = "closed"]
        /\ backlog' = Tail(backlog)
  /\ IF prog = "select2"
     THEN /\ IF cnt_fd_socket < MAX_FD_SOCKET
             THEN /\ table' = [table EXCEPT ![cnt_fd_socket] = -1]
                  /\ cnt_fd_socket' = cnt_fd_socket + 1
             ELSE UNCHANGED <<table, cnt_fd_socket>>
          /\ UNCHANGED <<registered, pc, round>>
     ELSE LeaveAccept /\ UNCHANGED socks
  /\ UNCHANGED <<peer, rx, sent, fdtable, prog, refused>>
-----------------------------------------------------------------------------
(* Receiving                                                               *)

\* The condition of the loop over the table or the array of events.
MoreToScan ==
  CASE prog = "epoll" -> i < ret_poll
    [] prog = "poll"  -> i < cnt_fd_socket /\ ret_poll > 0
    [] OTHER          -> i < cnt_fd_socket

\* The descriptor at the loop's index, and whether it was reported.
Current == IF prog = "epoll" THEN ep_events[i + 1] ELSE table[i]
Hit     == pc = "scan" /\ MoreToScan /\ Current \in reported

ScanEnd ==
  /\ pc = "scan" /\ ~MoreToScan
  /\ pc' = "wait"
  /\ UNCHANGED <<client, backlog, fdtable, prog, socks, round, refused>>

ScanSkip ==
  /\ pc = "scan" /\ MoreToScan /\ Current \notin reported
  /\ i' = i + 1
  /\ UNCHANGED <<client, backlog, fdtable, prog, socks, pc, ret_poll, reported,
                 ep_events, served, refused>>

\* The listener's event among those of io_epoll.c.
ScanListener ==
  /\ Hit /\ Current = fd_listener
  /\ pc' = "accept"
  /\ UNCHANGED <<client, backlog, fdtable, prog, socks, round, refused>>

\* io_poll.c counts down the reports it has handled.
Handled(fd) ==
  /\ ret_poll' = IF prog = "poll" THEN ret_poll - 1 ELSE ret_poll
  /\ served' = served \union {fd}
  /\ UNCHANGED <<reported, ep_events>>

\* Mutant of NextIndex: the index is turned back after every receive.
NextIndexAlways(deleted) == IF prog = "poll" THEN i ELSE i + 1

\* Mutant of NextIndex: no "i--" in io_poll.c either.
NextIndexNever(deleted) == i + 1

\* io_poll.c has "i--" after del_socket, to look at the entry moved into the hole.
NextIndex(deleted) == IF prog = "poll" /\ deleted THEN i ELSE i + 1

\* recv returns data, at most one buffer of it, or the error of a reset, after which
\* the socket reads as closed.
ScanRecv ==
  /\ Hit /\ Current \in Fd
  /\ LET c == fdtable[Current]
     IN  \/ /\ rx[c] > 0
            /\ rx' = [rx EXCEPT ![c] = IF @ > RecvMax THEN @ - RecvMax ELSE 0]
            /\ UNCHANGED peer
         \/ /\ rx[c] = 0 /\ peer[c] = "rst"
            /\ peer' = [peer EXCEPT ![c] = "fin"]
            /\ UNCHANGED rx
  /\ Handled(Current) /\ i' = NextIndex(FALSE)
  /\ UNCHANGED <<cstate, sent, backlog, fdtable, prog, socks, pc, refused>>

\* Mutant of DelSocket: the last entry is not moved into the hole.
DelSocketNoMove(fd) ==
  /\ table' = [table EXCEPT ![cnt_fd_socket - 1] = -1]
  /\ cnt_fd_socket' = cnt_fd_socket - 1
  /\ UNCHANGED registered

\* del_socket: the last entry replaces the deleted one, and is cleared.
DelSocket(fd) ==
  /\ \E k \in 0 .. cnt_fd_socket - 1 :
       /\ table[k] = fd
       /\ table' = [table EXCEPT ![k] = table[cnt_fd_socket - 1],
                                 ![cnt_fd_socket - 1] = -1]
  /\ cnt_fd_socket' = cnt_fd_socket - 1
  /\ UNCHANGED registered

\* del_ev of io_epoll.c.
del_ev(fd) ==
  /\ registered' = registered \ {fd}
  /\ UNCHANGED <<table, cnt_fd_socket>>

\* recv returns 0: the socket is closed and forgotten.
ScanEof ==
  /\ Hit /\ Current \in Fd
  /\ rx[fdtable[Current]] = 0 /\ peer[fdtable[Current]] = "fin"
  /\ cstate' = [cstate EXCEPT ![fdtable[Current]] = "closed"]
  /\ fdtable' = [fdtable EXCEPT ![Current] = NoConn]
  /\ IF prog = "epoll" THEN del_ev(Current) ELSE DelSocket(Current)
  /\ Handled(Current) /\ i' = NextIndex(TRUE)
  /\ UNCHANGED <<peer, rx, sent, backlog, prog, pc, refused>>
-----------------------------------------------------------------------------
Clients == \E c \in Conn : \/ Connect(c) \/ PeerSend(c)
                           \/ \E how \in {"fin", "rst"} : PeerClose(c, how)
Server  == \/ Wait \/ Accept \/ AcceptNoMore \/ AcceptFail
           \/ ScanEnd \/ ScanSkip \/ ScanListener \/ ScanRecv \/ ScanEof

Next == Clients \/ Server

Spec == Init /\ [][Next]_vars

\* The server's one thread runs whenever a call of it can return.
FairSpec == Spec /\ WF_vars(Server)
-----------------------------------------------------------------------------
(* Correctness                                                             *)

TypeOK ==
  /\ cstate \in [Conn -> {"new", "backlog", "open", "closed"}]
  /\ peer \in [Conn -> {"up", "fin", "rst"}]
  /\ rx \in [Conn -> 0 .. MaxSend] /\ sent \in [Conn -> 0 .. MaxSend]
  /\ backlog \in Seq(Conn)
  /\ fdtable \in [Fd -> Conn \union {NoConn}]
  /\ prog \in Program
  /\ table \in [Slot -> Fd \union {fd_listener, 0, -1}]
  /\ cnt_fd_socket \in 0 .. MAX_FD_SOCKET
  /\ registered \in SUBSET (Fd \union {fd_listener})
  /\ pc \in {"wait", "accept", "scan"} /\ i \in Nat /\ ret_poll \in Nat
  /\ reported \in SUBSET (Fd \union {fd_listener})
  /\ ep_events \in Seq(Fd \union {fd_listener})
  /\ served \in SUBSET Fd /\ refused \in SUBSET Fd

Open == {f \in Fd : fdtable[f] # NoConn}

\* What the server watches is exactly what it has open: add_socket and del_socket,
\* which moves entries while the loop over them runs, leave no closed descriptor in
\* the table, no entry twice and no open one out, but those refused by a full table.
WatchedIsOpen ==
  /\ Watched \ {fd_listener, -1} = Open \ refused
  /\ \A k, l \in 0 .. cnt_fd_socket - 1 : table[k] = table[l] /\ k # l => table[k] = -1

\* recv never blocks the only thread: the socket it is called for is open and
\* readable, although the reports are older than the accepts, closes and moved
\* entries of the same cycle.
RecvReady ==
  Hit /\ Current \in Fd => Current \in Open /\ Readable(fdtable[Current])

\* io_poll.c and io_epoll.c serve every socket that was reported before they wait
\* again: moved entries are not passed over, and ret_poll does not run out early.
AllServed ==
  pc = "scan" /\ ~MoreToScan /\ prog \in {"poll", "epoll"} => reported \cap Fd \subseteq served

\* accept fails and will go on failing: nothing in the server closes a descriptor.
Starved == FreeFd = {} /\ backlog # << >>

\* A client that has ended is closed, whatever the other clients do: level triggering
\* makes up for entries that io_select.c passes over and for the cycles that only
\* accept. Not so for the refused, and not once descriptors have run out.
EndedIsClosed ==
  \A c \in Conn : (cstate[c] = "open" /\ peer[c] # "up")
                    ~> \/ cstate[c] = "closed" \/ Starved
                       \/ \E f \in refused : fdtable[f] = c
=============================================================================
