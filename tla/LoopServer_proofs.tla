-------------------------- MODULE LoopServer_proofs --------------------------
(***************************************************************************)
(* WatchedIsOpen, RecvReady and AllServed of LoopServer for any number of  *)
(* clients and descriptors, any size of the table and all the programs.    *)
(*                                                                         *)
(* RecvReady is about reports that get old while the loop works on them.   *)
(* It rests on two facts that the code never states: two descriptors never *)
(* lead to one client, so that receiving from one leaves the others        *)
(* readable, and what is still ahead of the loop's index, moved entries    *)
(* included, is open and readable if it was reported.  AllServed adds      *)
(* that what is behind the index and was reported has been served.         *)
(***************************************************************************)
EXTENDS LoopServer, FiniteSetTheorems, TLAPS

USE DEF Slot

\* Descriptors of clients are positive and not the listener's.
LEMMA FdFacts ==
  Fd \subseteq Int /\ -1 \notin Fd /\ 0 \notin Fd /\ fd_listener \notin Fd /\ fd_listener # -1
  BY FdAssumption, ListenerAssumption DEF Fd

\* A client is behind at most one descriptor, and not in the backlog as well.
Clientele ==
  /\ \A n \in 1 .. Len(backlog) : cstate[backlog[n]] = "backlog"
  /\ \A m, n \in 1 .. Len(backlog) : backlog[m] = backlog[n] => m = n
  /\ \A f \in Fd : fdtable[f] # NoConn => cstate[fdtable[f]] = "open"
  /\ \A f, g \in Fd : fdtable[f] # NoConn /\ fdtable[f] = fdtable[g] => f = g
  /\ \A c \in Conn : rx[c] <= sent[c]

\* The table of the poll and select programs.
TableInv ==
  /\ cnt_fd_socket >= 1 /\ table[0] = fd_listener /\ registered = {}
  /\ \A k \in 1 .. cnt_fd_socket - 1 :
       \/ table[k] = -1
       \/ /\ table[k] \in Fd /\ fdtable[table[k]] # NoConn
          /\ table[k] \notin refused
  /\ \A k, l \in 1 .. cnt_fd_socket - 1 : table[k] = table[l] /\ k # l => table[k] = -1
  /\ \A f \in Fd : fdtable[f] # NoConn =>
       f \in refused \/ \E k \in 1 .. cnt_fd_socket - 1 : table[k] = f
  /\ \A f \in refused : fdtable[f] # NoConn

\* The epoll set.
EpollInv ==
  /\ cnt_fd_socket = 0 /\ refused = {}
  /\ registered = {fd_listener} \union {f \in Fd : fdtable[f] # NoConn}

\* What is still ahead of the loop over the table.
TableAhead ==
  pc = "scan" =>
    /\ i >= 1
    /\ \A k \in i .. cnt_fd_socket - 1 :
         table[k] \in reported /\ table[k] \in Fd => Readable(fdtable[table[k]])

\* What is still ahead of the loop over the events.
EpollAhead ==
  /\ pc \in {"scan", "accept"} => Len(ep_events) = ret_poll
  /\ pc = "accept" => i < ret_poll
  /\ pc \in {"scan", "accept"} =>
       /\ \A m, n \in 1 .. ret_poll : ep_events[m] = ep_events[n] => m = n
       /\ \A n \in i + 1 .. ret_poll : ep_events[n] \in Fd =>
            fdtable[ep_events[n]] # NoConn /\ Readable(fdtable[ep_events[n]])

Inv ==
  /\ TypeOK /\ Clientele
  /\ prog # "epoll" => TableInv /\ TableAhead
  /\ prog = "epoll" => EpollInv /\ EpollAhead

LEMMA InitInv == Init => Inv
  BY ProgramAssumption, ConnAssumption, FdFacts, ListenerAssumption, TableAssumption,
     PacketAssumption
  DEF Init, Inv, TypeOK, Clientele, TableInv, EpollInv, TableAhead, EpollAhead, Readable

LEMMA ReadySubset == Inv => Ready \subseteq Fd \union {fd_listener}
  BY FdFacts DEF Inv, TypeOK, TableInv, EpollInv, Ready, Watched

LEMMA ReadyFinite == Inv => IsFiniteSet(Ready) /\ Cardinality(Ready) \in Nat
<1>1. IsFiniteSet(Fd)
  BY FS_Interval, FdAssumption DEF Fd
<1>2. IsFiniteSet(Fd \union {fd_listener})
  BY <1>1, FS_AddElement
<1>. QED  BY <1>2, ReadySubset, FS_Subset, FS_CardinalityType

\* The server's tables and reports survive whatever leaves them alone and keeps
\* readable sockets readable.
Kept == /\ prog # "epoll" => TableInv /\ TableAhead
        /\ prog = "epoll" => EpollInv /\ EpollAhead

LEMMA QuietKept ==
  ASSUME Inv, UNCHANGED <<fdtable, prog, socks, pc, round, refused>>,
         \A d \in Conn : Readable(d) => Readable(d)'
  PROVE  Kept'
<1> USE DEF Inv
<1>1. ASSUME prog # "epoll" PROVE TableInv'
  BY <1>1 DEF TableInv, socks
<1>2. ASSUME prog # "epoll" PROVE TableAhead'
  <2>1. \A k \in 1 .. cnt_fd_socket - 1 : table[k] \in Fd => fdtable[table[k]] \in Conn
    BY <1>2, FdFacts DEF TableInv, TypeOK
  <2>2. \A k \in i .. cnt_fd_socket - 1 : pc = "scan" => k \in 1 .. cnt_fd_socket - 1
    BY <1>2 DEF TableAhead, TypeOK
  <2>. QED  BY <1>2, <2>1, <2>2 DEF TableAhead, socks, round
<1>3. ASSUME prog = "epoll" PROVE EpollInv'
  BY <1>3 DEF EpollInv, socks
<1>4. ASSUME prog = "epoll" PROVE EpollAhead'
  <2>1. \A f \in Fd : fdtable[f] # NoConn => fdtable[f] \in Conn
    BY DEF TypeOK
  <2>. QED  BY <1>4, <2>1 DEF EpollAhead, round
<1>. QED  BY <1>1, <1>2, <1>3, <1>4 DEF Kept

LEMMA ConnectInv == Inv /\ (\E c \in Conn : Connect(c)) => Inv'
<1> SUFFICES ASSUME Inv, NEW c \in Conn, Connect(c) PROVE Inv'
  OBVIOUS
<1> USE DEF Inv
<1>1. TypeOK'
  BY DEF TypeOK, Connect, socks, round
<1>2. Clientele'
  <2>1. \A n \in 1 .. Len(backlog) : backlog'[n] = backlog[n] /\ backlog[n] # c
    BY DEF TypeOK, Clientele, Connect
  <2>2. Len(backlog') = Len(backlog) + 1 /\ backlog'[Len(backlog) + 1] = c
    BY DEF TypeOK, Connect
  <2>3. \A f \in Fd : fdtable[f] # c
    BY ConnAssumption DEF TypeOK, Clientele, Connect
  <2>4. /\ \A n \in 1 .. Len(backlog') : cstate'[backlog'[n]] = "backlog"
        /\ \A m, n \in 1 .. Len(backlog') : backlog'[m] = backlog'[n] => m = n
    BY <2>1, <2>2 DEF TypeOK, Clientele, Connect
  <2>. QED  BY <2>3, <2>4 DEF TypeOK, Clientele, Connect
<1>3. Kept'
  BY QuietKept DEF Connect, Readable
<1>. QED  BY <1>1, <1>2, <1>3 DEF Kept

LEMMA PeerSendInv == Inv /\ (\E c \in Conn : PeerSend(c)) => Inv'
<1> SUFFICES ASSUME Inv, NEW c \in Conn, PeerSend(c) PROVE Inv'
  OBVIOUS
<1> USE PacketAssumption DEF Inv
<1>1. TypeOK'
  <2>1. rx[c] + 1 \in 0 .. MaxSend /\ sent[c] + 1 \in 0 .. MaxSend
    BY DEF TypeOK, Clientele, PeerSend
  <2>. QED  BY <2>1 DEF TypeOK, PeerSend, socks, round
<1>2. Clientele'
  BY DEF TypeOK, Clientele, PeerSend
<1>3. \A d \in Conn : Readable(d) => Readable(d)'
  BY DEF TypeOK, PeerSend, Readable
<1>4. Kept'
  BY <1>3, QuietKept DEF PeerSend
<1>. QED  BY <1>1, <1>2, <1>4 DEF Kept

LEMMA PeerCloseInv ==
  Inv /\ (\E c \in Conn : \E how \in {"fin", "rst"} : PeerClose(c, how)) => Inv'
<1> SUFFICES ASSUME Inv, NEW c \in Conn, NEW how \in {"fin", "rst"}, PeerClose(c, how)
             PROVE  Inv'
  OBVIOUS
<1> USE PacketAssumption DEF Inv
<1>1. TypeOK'
  BY DEF TypeOK, PeerClose, socks, round
<1>2. Clientele'
  BY DEF TypeOK, Clientele, PeerClose
<1>3. \A d \in Conn : Readable(d) => Readable(d)'
  BY DEF TypeOK, PeerClose, Readable
<1>4. Kept'
  BY <1>3, QuietKept DEF PeerClose
<1>. QED  BY <1>1, <1>2, <1>4 DEF Kept
-----------------------------------------------------------------------------
LEMMA WaitInv == Inv /\ Wait => Inv'
<1> SUFFICES ASSUME Inv, Wait PROVE Inv'
  OBVIOUS
<1> DEFINE n == Cardinality(Ready)
<1> USE DEF Inv
<1>1. Ready \subseteq Fd \union {fd_listener} /\ n \in Nat
  BY ReadySubset, ReadyFinite
<1>2. /\ ep_events' \in Seq(Fd \union {fd_listener})
      /\ prog = "epoll" => /\ Len(ep_events') = n /\ ep_events' \in [1 .. n -> Ready]
                          /\ \A a, b \in 1 .. n : ep_events'[a] = ep_events'[b] => a = b
  <2>1. CASE prog = "epoll"
    <3>1. /\ ep_events' \in [1 .. n -> Ready]
          /\ \A a, b \in DOMAIN ep_events' : ep_events'[a] = ep_events'[b] => a = b
      BY <2>1 DEF Wait, Enumerations
    <3>2. ep_events' \in [1 .. n -> Fd \union {fd_listener}]
      BY <3>1, <1>1
    <3>. HIDE DEF n
    <3>. QED  BY <3>1, <3>2, <1>1
  <2>2. CASE prog # "epoll"
    BY <2>2 DEF Wait
  <2>. QED  BY <2>1, <2>2
<1>3. TypeOK'
  BY <1>1, <1>2 DEF TypeOK, Wait, FirstIndex, client, socks
<1>4. Clientele'
  BY DEF TypeOK, Clientele, Wait, client
<1>5. prog # "epoll" => TableInv' /\ TableAhead'
  BY DEF TypeOK, TableInv, TableAhead, Wait, Ready, FirstIndex, client, socks, Readable
<1>6. prog = "epoll" => EpollInv' /\ EpollAhead'
  <2> SUFFICES ASSUME prog = "epoll" PROVE EpollInv' /\ EpollAhead'
    OBVIOUS
  <2>1. EpollInv'
    BY DEF TypeOK, EpollInv, Wait, client, socks
  <2>2. \A f \in Ready : f \in Fd => fdtable[f] # NoConn /\ Readable(fdtable[f])
    BY FdFacts DEF TypeOK, EpollInv, Ready, Watched
  <2>3. \A f \in Ready : f \in Fd => fdtable'[f] # NoConn /\ Readable(fdtable[f])'
    BY <2>2 DEF Wait, client, Readable
  <2>4. pc' = "scan" /\ ret_poll' = n /\ i' = 0
    BY DEF Wait, FirstIndex
  <2>5. \A k \in 1 .. n : ep_events'[k] \in Ready
    BY <1>2
  <2>6. EpollAhead'
    <3>. HIDE DEF n
    <3>. QED BY <1>1, <1>2, <2>3, <2>4, <2>5 DEF EpollAhead
  <2>. QED  BY <2>1, <2>6
<1>. QED  BY <1>3, <1>4, <1>5, <1>6 DEF Wait

LEMMA AcceptInv == Inv /\ Accept => Inv'
<1> SUFFICES ASSUME Inv, Accept PROVE Inv'
  OBVIOUS
<1> USE DEF Inv
<1> DEFINE c == Head(backlog)
<1>1. PICK f \in FreeFd :
        /\ fdtable' = [fdtable EXCEPT ![f] = c]
        /\ IF prog = "epoll" THEN add_ev(f) ELSE AddSocket(f)
  BY DEF Accept
<1>2. f \in Fd /\ fdtable[f] = NoConn
  BY DEF FreeFd
<1>3. c \in Conn /\ backlog' \in Seq(Conn) /\ cstate[c] = "backlog" /\ Len(backlog) >= 1
  BY DEF TypeOK, Accept, Clientele
<1>4. TypeOK'
  <2>1. /\ table' \in [Slot -> Fd \union {fd_listener, 0, -1}]
        /\ cnt_fd_socket' \in 0 .. MAX_FD_SOCKET
        /\ registered' \in SUBSET (Fd \union {fd_listener}) /\ refused' \in SUBSET Fd
    BY <1>1, <1>2, TableAssumption DEF TypeOK, add_ev, AddSocket
  <2>2. fdtable' \in [Fd -> Conn \union {NoConn}]
    BY <1>1, <1>2, <1>3 DEF TypeOK
  <2>. QED  BY <1>3, <2>1, <2>2 DEF TypeOK, Accept, AfterAccept, round
<1>5. Clientele'
  <2>1. Len(backlog') = Len(backlog) - 1
        /\ \A n \in 1 .. Len(backlog') : backlog'[n] = backlog[n + 1] /\ backlog[n + 1] # c
    BY <1>3 DEF TypeOK, Accept, Clientele
  <2>2. \A n \in 1 .. Len(backlog') : backlog'[n] \in Conn
    BY <1>3
  <2>3. \A g \in Fd : fdtable[g] # c
    BY <1>3, ConnAssumption DEF TypeOK, Clientele
  <2>4. /\ \A n \in 1 .. Len(backlog') : cstate'[backlog'[n]] = "backlog"
        /\ \A m, n \in 1 .. Len(backlog') : backlog'[m] = backlog'[n] => m = n
    BY <1>3, <2>1, <2>2 DEF TypeOK, Clientele, Accept
  <2>. QED  BY <1>1, <1>2, <1>3, <2>3, <2>4 DEF TypeOK, Clientele, Accept
<1>6. ASSUME prog # "epoll" PROVE TableInv' /\ TableAhead'
  <2>1. pc' # "scan"
    BY DEF Accept, AfterAccept
  <2>2. AddSocket(f)
    BY <1>1, <1>6
  <2>3. \A k \in 1 .. cnt_fd_socket - 1 : table[k] # f
    BY <1>2, <1>6, FdFacts DEF TableInv, TypeOK
  <2>4. f \notin refused
    BY <1>2, <1>6 DEF TableInv
  <2>a. /\ fdtable \in [Fd -> Conn \union {NoConn}] /\ cnt_fd_socket \in 1 .. MAX_FD_SOCKET
        /\ table \in [Slot -> Fd \union {fd_listener, 0, -1}] /\ c # NoConn
        /\ refused \subseteq Fd
    BY <1>3, <1>6, ConnAssumption, TableAssumption DEF TypeOK, TableInv
  <2>b. /\ fdtable'[f] # NoConn
        /\ \A g \in Fd : g # f => fdtable'[g] = fdtable[g]
    BY <1>1, <1>2, <2>a
  <2>5. CASE cnt_fd_socket < MAX_FD_SOCKET
    <3>1. /\ cnt_fd_socket' = cnt_fd_socket + 1 /\ refused' = refused /\ registered' = registered
          /\ table'[cnt_fd_socket] = f
          /\ \A k \in 0 .. cnt_fd_socket - 1 : table'[k] = table[k]
      BY <2>2, <2>5, <2>a, TableAssumption DEF AddSocket
    <3>2. \A k \in 1 .. cnt_fd_socket' - 1 : k \in 1 .. cnt_fd_socket - 1 \/ k = cnt_fd_socket
      BY <3>1, <2>a, TableAssumption
    <3>3. \A k \in 1 .. cnt_fd_socket' - 1 :
            \/ table'[k] = -1
            \/ /\ table'[k] \in Fd /\ fdtable'[table'[k]] # NoConn
               /\ table'[k] \notin refused'
      BY <1>2, <1>6, <2>3, <2>4, <2>b, <3>1, <3>2 DEF TableInv
    <3>4. \A k, l \in 1 .. cnt_fd_socket' - 1 : table'[k] = table'[l] /\ k # l => table'[k] = -1
      BY <1>6, <2>3, <3>1, <3>2 DEF TableInv
    <3>5. \A g \in Fd : fdtable'[g] # NoConn =>
            g \in refused' \/ \E k \in 1 .. cnt_fd_socket' - 1 : table'[k] = g
      <4> SUFFICES ASSUME NEW g \in Fd, fdtable'[g] # NoConn, g \notin refused
                   PROVE  \E k \in 1 .. cnt_fd_socket' - 1 : table'[k] = g
        BY <3>1
      <4>1. CASE g = f
        BY <4>1, <3>1, <2>a, TableAssumption
      <4>2. CASE g # f
        <5>1. PICK k \in 1 .. cnt_fd_socket - 1 : table[k] = g
          BY <4>2, <1>6, <2>b DEF TableInv
        <5>2. k \in 1 .. cnt_fd_socket' - 1 /\ table'[k] = g
          BY <5>1, <3>1, <2>a, TableAssumption
        <5>. QED  BY <5>2
      <4>. QED  BY <4>1, <4>2
    <3>6. \A g \in refused' : fdtable'[g] # NoConn
      BY <1>6, <2>4, <2>a, <2>b, <3>1 DEF TableInv
    <3>7. cnt_fd_socket' >= 1 /\ table'[0] = fd_listener /\ registered' = {}
      BY <1>6, <2>a, <3>1, TableAssumption DEF TableInv
    <3>. QED  BY <2>1, <3>3, <3>4, <3>5, <3>6, <3>7 DEF TableInv, TableAhead
  <2>6. CASE ~(cnt_fd_socket < MAX_FD_SOCKET)
    <3>1. UNCHANGED <<table, cnt_fd_socket, registered>> /\ refused' = refused \union {f}
      BY <2>2, <2>6 DEF AddSocket
    <3>2. \A k \in 1 .. cnt_fd_socket - 1 :
            \/ table[k] = -1
            \/ table[k] \in Fd /\ fdtable'[table[k]] # NoConn /\ table[k] \notin refused'
      BY <1>6, <2>3, <2>b, <3>1 DEF TableInv
    <3>3. \A g \in Fd : fdtable'[g] # NoConn =>
            g \in refused' \/ \E k \in 1 .. cnt_fd_socket - 1 : table[k] = g
      BY <1>6, <2>b, <3>1 DEF TableInv
    <3>4. \A g \in refused' : fdtable'[g] # NoConn
      BY <1>6, <2>a, <2>b, <3>1 DEF TableInv
    <3>. QED  BY <1>6, <2>1, <3>1, <3>2, <3>3, <3>4 DEF TableInv, TableAhead
  <2>. QED  BY <2>1, <2>5, <2>6 DEF TableAhead
<1>7. ASSUME prog = "epoll" PROVE EpollInv' /\ EpollAhead'
  <2>1. EpollInv'
    BY <1>1, <1>2, <1>3, <1>7, ConnAssumption DEF EpollInv, add_ev, TypeOK
  <2>2. EpollAhead'
    BY <1>1, <1>2, <1>3, <1>7, ConnAssumption
    DEF EpollAhead, TypeOK, Accept, AfterAccept, round, Readable
  <2>. QED  BY <2>1, <2>2
<1>. QED  BY <1>4, <1>5, <1>6, <1>7 DEF Accept

LEMMA AcceptNoMoreInv == Inv /\ AcceptNoMore => Inv'
<1> SUFFICES ASSUME Inv, AcceptNoMore PROVE Inv'
  OBVIOUS
<1> USE DEF Inv
<1>1. TypeOK' /\ Clientele'
  BY DEF TypeOK, Clientele, AcceptNoMore, LeaveAccept, client, socks
<1>2. prog # "epoll" => TableInv' /\ TableAhead'
  BY DEF TypeOK, TableInv, TableAhead, AcceptNoMore, LeaveAccept, client, socks
<1>3. prog = "epoll" => EpollInv' /\ EpollAhead'
  BY DEF TypeOK, EpollInv, EpollAhead, AcceptNoMore, LeaveAccept, client, socks, Readable
<1>. QED  BY <1>1, <1>2, <1>3 DEF AcceptNoMore

LEMMA AcceptFailInv == Inv /\ AcceptFail => Inv'
<1> SUFFICES ASSUME Inv, AcceptFail PROVE Inv'
  OBVIOUS
<1> USE DEF Inv
<1> DEFINE c == Head(backlog)
<1>1. c \in Conn /\ Tail(backlog) \in Seq(Conn) /\ cstate[c] = "backlog" /\ Len(backlog) >= 1
  BY DEF TypeOK, AcceptFail, Clientele
<1>2. TypeOK'
  <2>1. /\ table' \in [Slot -> Fd \union {fd_listener, 0, -1}]
        /\ cnt_fd_socket' \in 0 .. MAX_FD_SOCKET
        /\ registered' = registered
    BY TableAssumption DEF TypeOK, AcceptFail, socks
  <2>2. /\ cstate' \in [Conn -> {"new", "backlog", "open", "closed"}]
        /\ backlog' \in Seq(Conn)
    BY <1>1 DEF TypeOK, AcceptFail
  <2>3. pc' \in {"wait", "accept", "scan"} /\ i' \in Nat
        /\ UNCHANGED <<ret_poll, reported, ep_events, served>>
    BY DEF TypeOK, AcceptFail, LeaveAccept, round
  <2>. QED  BY <2>1, <2>2, <2>3 DEF TypeOK, AcceptFail
<1>3. Clientele'
  <2>1. CASE cstate' = cstate /\ backlog' = backlog
    BY <2>1 DEF Clientele, AcceptFail
  <2>2. CASE /\ cstate' = [cstate EXCEPT ![c] = "closed"]
             /\ backlog' = Tail(backlog)
    <3>0. backlog \in Seq(Conn) /\ c = backlog[1] /\ 1 \in 1 .. Len(backlog)
      BY <1>1 DEF TypeOK
    <3>1. Len(backlog') = Len(backlog) - 1
          /\ \A n \in 1 .. Len(backlog') : backlog'[n] = backlog[n + 1] /\ backlog[n + 1] # c
      BY <1>1, <2>2, <3>0 DEF Clientele
    <3>2. \A n \in 1 .. Len(backlog') : backlog'[n] \in Conn
      BY <1>1, <2>2
    <3>3. \A g \in Fd : fdtable[g] # c
      BY <1>1, ConnAssumption DEF TypeOK, Clientele
    <3>4. /\ \A n \in 1 .. Len(backlog') : cstate'[backlog'[n]] = "backlog"
          /\ \A m, n \in 1 .. Len(backlog') : backlog'[m] = backlog'[n] => m = n
      BY <1>1, <2>2, <3>1, <3>2 DEF TypeOK, Clientele
    <3>. QED  BY <1>1, <2>2, <3>3, <3>4 DEF TypeOK, Clientele, AcceptFail
  <2>. QED  BY <2>1, <2>2 DEF AcceptFail
<1>4. ASSUME prog # "epoll" PROVE TableInv' /\ TableAhead'
  <2>1. pc' # "scan"
    BY <1>4 DEF AcceptFail, LeaveAccept
  <2>a. UNCHANGED <<fdtable, refused>>
    BY DEF AcceptFail
  <2>2. CASE UNCHANGED <<table, cnt_fd_socket, registered>>
    BY <1>4, <2>1, <2>2, <2>a DEF TableInv, TableAhead
  <2>3. CASE /\ cnt_fd_socket < MAX_FD_SOCKET
             /\ table' = [table EXCEPT ![cnt_fd_socket] = -1]
             /\ cnt_fd_socket' = cnt_fd_socket + 1 /\ registered' = registered
    <3>1. /\ cnt_fd_socket \in 1 .. MAX_FD_SOCKET
          /\ table \in [Slot -> Fd \union {fd_listener, 0, -1}]
      BY <1>4, TableAssumption DEF TypeOK, TableInv
    <3>2. /\ table'[cnt_fd_socket] = -1
          /\ \A k \in 0 .. cnt_fd_socket - 1 : table'[k] = table[k]
      BY <2>3, <3>1, TableAssumption
    <3>3. \A k \in 1 .. cnt_fd_socket' - 1 : k \in 1 .. cnt_fd_socket - 1 \/ k = cnt_fd_socket
      BY <2>3, <3>1, TableAssumption
    <3>. QED  BY <1>4, <2>1, <2>3, <2>a, <3>1, <3>2, <3>3, FdFacts DEF TableInv, TableAhead
  <2>. QED  BY <1>4, <2>1, <2>2, <2>3 DEF AcceptFail, TableAhead, socks
<1>5. prog = "epoll" => EpollInv' /\ EpollAhead'
  BY DEF TypeOK, EpollInv, EpollAhead, AcceptFail, LeaveAccept, socks, round, Readable
<1>. QED  BY <1>2, <1>3, <1>4, <1>5 DEF AcceptFail
-----------------------------------------------------------------------------
\* What recv is called for.
LEMMA CurrentOpen ==
  ASSUME Inv, Hit, Current \in Fd
  PROVE  /\ fdtable[Current] # NoConn /\ fdtable[Current] \in Conn
         /\ Readable(fdtable[Current])
         /\ prog # "epoll" => i \in 1 .. cnt_fd_socket - 1 /\ Current = table[i]
         /\ prog = "epoll" => i + 1 \in 1 .. ret_poll /\ Current = ep_events[i + 1]
         /\ prog = "poll" => ret_poll > 0
<1> USE DEF Inv
<1>0. i \in Nat /\ cnt_fd_socket \in Nat /\ ret_poll \in Nat
  BY TableAssumption DEF TypeOK
<1>1. CASE prog # "epoll"
  <2>1. i \in 1 .. cnt_fd_socket - 1 /\ Current = table[i]
    BY <1>0, <1>1 DEF TableAhead, Hit, MoreToScan, Current
  <2>2. fdtable[Current] # NoConn
    BY <1>1, <2>1, FdFacts DEF TableInv
  <2>3. Readable(fdtable[Current])
    BY <1>0, <1>1, <2>1 DEF TableAhead, Hit
  <2>. QED  BY <1>1, <2>1, <2>2, <2>3 DEF TypeOK, Hit, MoreToScan
<1>2. CASE prog = "epoll"
  <2>1. i + 1 \in 1 .. ret_poll /\ Current = ep_events[i + 1]
    BY <1>0, <1>2 DEF Hit, MoreToScan, Current
  <2>2. fdtable[Current] # NoConn /\ Readable(fdtable[Current])
    BY <1>0, <1>2, <2>1 DEF EpollAhead, Hit
  <2>. QED  BY <1>2, <2>1, <2>2 DEF TypeOK
<1>. QED  BY <1>1, <1>2

LEMMA ScanEndInv == Inv /\ ScanEnd => Inv'
<1> SUFFICES ASSUME Inv, ScanEnd PROVE Inv'
  OBVIOUS
<1> USE DEF Inv
<1>1. TypeOK' /\ Clientele'
  BY DEF TypeOK, Clientele, ScanEnd, client, socks, round
<1>2. prog # "epoll" => TableInv' /\ TableAhead'
  BY DEF TableInv, TableAhead, ScanEnd, socks
<1>3. prog = "epoll" => EpollInv' /\ EpollAhead'
  BY DEF EpollInv, EpollAhead, ScanEnd, socks
<1>. QED  BY <1>1, <1>2, <1>3 DEF ScanEnd

LEMMA ScanSkipInv == Inv /\ ScanSkip => Inv'
<1> SUFFICES ASSUME Inv, ScanSkip PROVE Inv'
  OBVIOUS
<1> USE DEF Inv
<1>1. TypeOK' /\ Clientele'
  BY DEF TypeOK, Clientele, ScanSkip, client, socks
<1>2. ASSUME prog # "epoll" PROVE TableInv' /\ TableAhead'
  <2>1. TableInv'
    BY <1>2 DEF TableInv, ScanSkip, socks
  <2>2. i \in Nat /\ i' = i + 1
    BY DEF TypeOK, ScanSkip
  <2>3. \A c : Readable(c)' <=> Readable(c)
    BY DEF ScanSkip, client, Readable
  <2>. QED  BY <1>2, <2>1, <2>2, <2>3 DEF TableAhead, ScanSkip, socks
<1>3. ASSUME prog = "epoll" PROVE EpollInv' /\ EpollAhead'
  <2>1. EpollInv'
    BY <1>3 DEF EpollInv, ScanSkip, socks
  <2>2. i \in Nat /\ i' = i + 1 /\ ret_poll \in Nat
    BY DEF TypeOK, ScanSkip
  <2>3. \A c : Readable(c)' <=> Readable(c)
    BY DEF ScanSkip, client, Readable
  <2>. QED  BY <1>3, <2>1, <2>2, <2>3 DEF EpollAhead, ScanSkip
<1>. QED  BY <1>1, <1>2, <1>3 DEF ScanSkip

LEMMA ScanListenerInv == Inv /\ ScanListener => Inv'
<1> SUFFICES ASSUME Inv, ScanListener PROVE Inv'
  OBVIOUS
<1> USE DEF Inv
<1>1. TypeOK' /\ Clientele'
  BY DEF TypeOK, Clientele, ScanListener, client, socks, round
<1>2. prog # "epoll" => TableInv' /\ TableAhead'
  BY DEF TableInv, TableAhead, ScanListener, socks
<1>3. ASSUME prog = "epoll" PROVE EpollInv' /\ EpollAhead'
  <2>1. \A c : Readable(c)' <=> Readable(c)
    BY DEF ScanListener, client, Readable
  <2>2. pc = "scan" /\ i < ret_poll
    BY <1>3 DEF ScanListener, Hit, MoreToScan
  <2>. QED  BY <1>3, <2>1, <2>2 DEF EpollInv, EpollAhead, ScanListener, socks, round
<1>. QED  BY <1>1, <1>2, <1>3 DEF ScanListener

LEMMA ScanRecvInv == Inv /\ ScanRecv => Inv'
<1> SUFFICES ASSUME Inv, ScanRecv PROVE Inv'
  OBVIOUS
<1> USE DEF Inv
<1> DEFINE f == Current
           c == fdtable[f]
<1>0. /\ Hit /\ f \in Fd /\ i' = i + 1
      /\ ret_poll' = IF prog = "poll" THEN ret_poll - 1 ELSE ret_poll
      /\ served' = served \union {f}
      /\ UNCHANGED <<reported, ep_events, cstate, sent, backlog, fdtable, prog, pc, refused>>
      /\ UNCHANGED <<table, cnt_fd_socket, registered>>
  BY DEF ScanRecv, Handled, NextIndex, socks
<1>1. /\ c # NoConn /\ c \in Conn
      /\ prog # "epoll" => i \in 1 .. cnt_fd_socket - 1 /\ f = table[i]
      /\ prog = "epoll" => i + 1 \in 1 .. ret_poll /\ f = ep_events[i + 1]
      /\ prog = "poll" => ret_poll > 0
  BY <1>0, CurrentOpen
<1>2. /\ rx' \in [Conn -> 0 .. MaxSend] /\ peer' \in [Conn -> {"up", "fin", "rst"}]
      /\ rx'[c] <= rx[c]
      /\ \A d \in Conn : d # c => rx'[d] = rx[d] /\ peer'[d] = peer[d]
  <2>0. /\ rx \in [Conn -> 0 .. MaxSend] /\ peer \in [Conn -> {"up", "fin", "rst"}]
        /\ rx[c] \in Nat /\ rx[c] <= MaxSend
    BY <1>1, PacketAssumption DEF TypeOK
  <2>1. CASE rx' = rx /\ peer' = [peer EXCEPT ![c] = "fin"]
    BY <1>1, <2>0, <2>1
  <2>2. CASE /\ rx' = [rx EXCEPT ![c] = IF rx[c] > RecvMax THEN rx[c] - RecvMax ELSE 0]
             /\ peer' = peer
    <3>1. PICK n \in 0 .. MaxSend : n = IF rx[c] > RecvMax THEN rx[c] - RecvMax ELSE 0
      BY <2>0, PacketAssumption
    <3>2. n <= rx[c] /\ rx' = [rx EXCEPT ![c] = n]
      BY <2>0, <2>2, <3>1, PacketAssumption
    <3>. QED  BY <1>1, <2>0, <2>2, <3>2
  <2>. QED  BY <2>1, <2>2 DEF ScanRecv
<1>. HIDE DEF f, c
<1>3. TypeOK'
  <2>1. ret_poll' \in Nat
    BY <1>0, <1>1 DEF TypeOK
  <2>. QED  BY <1>0, <1>2, <2>1 DEF TypeOK
<1>4. Clientele'
  <2>1. \A d \in Conn : rx'[d] <= sent'[d]
    <3> SUFFICES ASSUME NEW d \in Conn PROVE rx'[d] <= sent[d]
      BY <1>0
    <3>1. rx[d] \in Nat /\ sent[d] \in Nat /\ rx'[d] \in Nat /\ rx[d] <= sent[d]
      BY <1>2, PacketAssumption DEF TypeOK, Clientele
    <3>2. rx'[d] <= rx[d]
      BY <1>1, <1>2, <3>1
    <3>. QED  BY <3>1, <3>2
  <2>. QED  BY <1>0, <2>1 DEF Clientele
<1>5. \A g \in Fd : g # f /\ fdtable[g] # NoConn /\ Readable(fdtable[g])
                     => Readable(fdtable[g])'
  <2> SUFFICES ASSUME NEW g \in Fd, g # f, fdtable[g] # NoConn, Readable(fdtable[g])
               PROVE  Readable(fdtable[g])'
    OBVIOUS
  <2>1. fdtable[g] \in Conn /\ fdtable[g] # c
    BY <1>0, <1>1 DEF Clientele, TypeOK, c
  <2>. QED  BY <1>0, <1>2, <2>1 DEF Readable
<1>6. ASSUME prog # "epoll" PROVE TableInv' /\ TableAhead'
  <2>1. TableInv'
    BY <1>0, <1>6 DEF TableInv
  <2>2. ASSUME NEW k \in i + 1 .. cnt_fd_socket - 1, table[k] \in reported, table[k] \in Fd
        PROVE  Readable(fdtable[table[k]])'
    <3>1. i \in Nat /\ cnt_fd_socket \in Nat
      BY TableAssumption DEF TypeOK
    <3>2. k \in 1 .. cnt_fd_socket - 1 /\ k \in i .. cnt_fd_socket - 1 /\ k # i
      BY <2>2, <3>1, <1>1, <1>6
    <3>3. table[k] # f /\ fdtable[table[k]] # NoConn
      BY <1>1, <1>6, <2>2, <3>2, FdFacts DEF TableInv
    <3>4. Readable(fdtable[table[k]])
      BY <1>0, <1>6, <2>2, <3>2 DEF TableAhead, Hit
    <3>. QED  BY <1>0, <1>5, <2>2, <3>3, <3>4 DEF Readable
  <2>3. i' >= 1
    BY <1>0 DEF TypeOK
  <2>. QED  BY <1>0, <2>1, <2>2, <2>3 DEF TableAhead
<1>7. ASSUME prog = "epoll" PROVE EpollInv' /\ EpollAhead'
  <2>1. EpollInv'
    BY <1>0, <1>7 DEF EpollInv
  <2>2. pc = "scan" /\ ret_poll' = ret_poll /\ i \in Nat /\ ret_poll \in Nat
    BY <1>0, <1>7 DEF Hit, TypeOK
  <2>3. ASSUME NEW n \in i + 2 .. ret_poll, ep_events[n] \in Fd
        PROVE  fdtable[ep_events[n]] # NoConn /\ Readable(fdtable[ep_events[n]])'
    <3>1. n \in i + 1 .. ret_poll /\ n \in 1 .. ret_poll /\ n # i + 1
      BY <2>2, <2>3
    <3>2. ep_events[n] # f
      BY <1>1, <1>7, <2>2, <3>1 DEF EpollAhead
    <3>3. fdtable[ep_events[n]] # NoConn /\ Readable(fdtable[ep_events[n]])
      BY <1>7, <2>2, <2>3, <3>1 DEF EpollAhead
    <3>. QED  BY <1>0, <1>5, <2>3, <3>2, <3>3 DEF Readable
  <2>4. i' + 1 = i + 2
    BY <1>0, <2>2
  <2>. QED  BY <1>0, <1>7, <2>1, <2>2, <2>3, <2>4 DEF EpollAhead
<1>. QED  BY <1>0, <1>3, <1>4, <1>6, <1>7

\* del_socket on the descriptor at the loop's index: the last entry replaces it.
LEMMA DelSocketMoves ==
  ASSUME Inv, ScanEof, prog # "epoll", NEW last, last = cnt_fd_socket - 1
  PROVE  /\ 1 <= i /\ i <= last /\ last \in Nat /\ i \in Nat
         /\ cnt_fd_socket' = last /\ registered' = registered
         /\ table' \in [Slot -> Fd \union {fd_listener, 0, -1}]
         /\ table'[0] = fd_listener
         /\ \A k \in 1 .. last - 1 : table'[k] = IF k = i THEN table[last] ELSE table[k]
<1> USE DEF Inv
<1>0. /\ Hit /\ Current \in Fd /\ DelSocket(Current)
  BY DEF ScanEof
<1>1. i \in 1 .. last /\ Current = table[i]
  BY <1>0, CurrentOpen
<1>2. i \in Nat /\ last \in Nat /\ last < MAX_FD_SOCKET /\ MAX_FD_SOCKET \in Nat
      /\ table \in [Slot -> Fd \union {fd_listener, 0, -1}]
  BY TableAssumption DEF TypeOK, TableInv
<1>3. PICK k \in 0 .. last : /\ table[k] = Current
                            /\ table' = [table EXCEPT ![k] = table[last], ![last] = -1]
  BY <1>0 DEF DelSocket
<1>4. cnt_fd_socket' = last /\ registered' = registered
  BY <1>0 DEF DelSocket
<1>5. table[0] = fd_listener
  BY DEF TableInv
<1>6. k = i
  BY <1>0, <1>1, <1>2, <1>3, <1>5, FdFacts DEF TableInv
<1>7. 1 <= i /\ i <= last
  BY <1>1, <1>2
<1>. QED  BY <1>2, <1>3, <1>4, <1>5, <1>6, <1>7

LEMMA ScanEofInv == Inv /\ ScanEof => Inv'
<1> SUFFICES ASSUME Inv, ScanEof PROVE Inv'
  OBVIOUS
<1> USE DEF Inv
<1> DEFINE f == Current
           c == fdtable[f]
           last == cnt_fd_socket - 1
<1>0. /\ Hit /\ f \in Fd /\ i' = NextIndex(TRUE)
      /\ ret_poll' = IF prog = "poll" THEN ret_poll - 1 ELSE ret_poll
      /\ served' = served \union {f}
      /\ cstate' = [cstate EXCEPT ![c] = "closed"]
      /\ fdtable' = [fdtable EXCEPT ![f] = NoConn]
      /\ IF prog = "epoll" THEN del_ev(f) ELSE DelSocket(f)
      /\ UNCHANGED <<reported, ep_events, peer, rx, sent, backlog, prog, pc, refused>>
  BY DEF ScanEof, Handled
<1>1. /\ c # NoConn /\ c \in Conn
      /\ prog # "epoll" => i \in 1 .. last /\ f = table[i]
      /\ prog = "epoll" => i + 1 \in 1 .. ret_poll /\ f = ep_events[i + 1]
      /\ prog = "poll" => ret_poll > 0
  BY <1>0, CurrentOpen
<1>. HIDE DEF f, c
<1>2. /\ fdtable' \in [Fd -> Conn \union {NoConn}]
      /\ fdtable'[f] = NoConn /\ \A g \in Fd : g # f => fdtable'[g] = fdtable[g]
  BY <1>0 DEF TypeOK
<1>3. Clientele'
  <2>1. cstate[c] = "open" /\ cstate \in [Conn -> {"new", "backlog", "open", "closed"}]
    BY <1>0, <1>1 DEF Clientele, TypeOK, c
  <2>2. \A n \in 1 .. Len(backlog) : backlog[n] \in Conn
    BY DEF TypeOK
  <2>3. \A n \in 1 .. Len(backlog') : cstate'[backlog'[n]] = "backlog"
    BY <1>0, <1>1, <2>1, <2>2 DEF Clientele
  <2>4. \A g \in Fd : fdtable'[g] # NoConn =>
          fdtable'[g] \in Conn /\ fdtable'[g] # c /\ cstate'[fdtable'[g]] = "open"
    BY <1>0, <1>1, <1>2, <2>1 DEF Clientele, TypeOK, c
  <2>. QED  BY <1>0, <1>2, <2>3, <2>4 DEF Clientele
<1>4. ASSUME prog # "epoll"
      PROVE  /\ 1 <= i /\ i <= last /\ last \in Nat /\ i \in Nat
             /\ cnt_fd_socket' = last /\ registered' = registered
             /\ table' \in [Slot -> Fd \union {fd_listener, 0, -1}]
             /\ table'[0] = fd_listener
             /\ \A k \in 1 .. last - 1 : table'[k] = IF k = i THEN table[last] ELSE table[k]
  BY <1>4, DelSocketMoves
<1>5. TypeOK'
  <2>1. ret_poll' \in Nat /\ i' \in Nat /\ served' \in SUBSET Fd
    BY <1>0, <1>1 DEF TypeOK, NextIndex
  <2>2. cstate' \in [Conn -> {"new", "backlog", "open", "closed"}]
    BY <1>0, <1>1 DEF TypeOK
  <2>3. /\ table' \in [Slot -> Fd \union {fd_listener, 0, -1}]
        /\ cnt_fd_socket' \in 0 .. MAX_FD_SOCKET
        /\ registered' \in SUBSET (Fd \union {fd_listener})
    <3>1. CASE prog = "epoll"
      BY <1>0, <3>1 DEF del_ev, TypeOK
    <3>2. CASE prog # "epoll"
      BY <1>4, <3>2, TableAssumption DEF TypeOK
    <3>. QED  BY <3>1, <3>2
  <2>. QED  BY <1>0, <1>2, <2>1, <2>2, <2>3 DEF TypeOK
<1>6. ASSUME prog # "epoll" PROVE TableInv'
  <2>. HIDE DEF last
  <2>1. \A k \in 1 .. last - 1 :
          \E m \in 1 .. last : /\ m # i /\ table'[k] = table[m]
                              /\ m = IF k = i THEN last ELSE k
    BY <1>4, <1>6
  <2>2. \A m \in 1 .. last : m # i => table[m] # f
    BY <1>0, <1>1, <1>4, <1>6, FdFacts DEF TableInv, last
  <2>3. f \notin refused
    BY <1>0, <1>1, <1>4, <1>6, FdFacts DEF TableInv, last
  <2>4. \A k \in 1 .. last - 1 :
          \/ table'[k] = -1
          \/ /\ table'[k] \in Fd /\ fdtable'[table'[k]] # NoConn
             /\ table'[k] \notin refused'
    BY <1>0, <1>2, <1>6, <2>1, <2>2 DEF TableInv, last
  <2>5. \A k, l \in 1 .. last - 1 : table'[k] = table'[l] /\ k # l => table'[k] = -1
    BY <1>4, <1>6, <2>1 DEF TableInv, last
  <2>6. \A g \in Fd : fdtable'[g] # NoConn =>
          g \in refused' \/ \E k \in 1 .. last - 1 : table'[k] = g
    <3> SUFFICES ASSUME NEW g \in Fd, fdtable'[g] # NoConn, g \notin refused
                 PROVE  \E k \in 1 .. last - 1 : table'[k] = g
      BY <1>0
    <3>1. g # f /\ fdtable[g] # NoConn
      BY <1>2
    <3>2. PICK m \in 1 .. last : table[m] = g
      BY <1>6, <3>1 DEF TableInv, last
    <3>3. m # i
      BY <1>1, <1>6, <3>1, <3>2
    <3>4. CASE m = last
      BY <1>4, <1>6, <3>2, <3>3, <3>4
    <3>5. CASE m # last
      BY <1>4, <1>6, <3>2, <3>3, <3>5
    <3>. QED  BY <3>4, <3>5
  <2>7. \A g \in refused' : fdtable'[g] # NoConn
    BY <1>0, <1>2, <1>6, <2>3 DEF TableInv, TypeOK
  <2>8. last >= 1 /\ registered' = {}
    BY <1>4, <1>6 DEF TableInv
  <2>. QED  BY <1>4, <1>6, <2>4, <2>5, <2>6, <2>7, <2>8 DEF TableInv
<1>7. ASSUME prog # "epoll" PROVE TableAhead'
  <2>. HIDE DEF last
  <2>1. i' \in {i, i + 1} /\ pc = "scan"
    BY <1>0 DEF NextIndex, Hit
  <2>2. ASSUME NEW k \in i' .. last - 1, table'[k] \in reported, table'[k] \in Fd
        PROVE  Readable(fdtable[table[k]])'
    <3>1. PICK m \in 1 .. last : m # i /\ m >= i /\ table'[k] = table[m]
      BY <1>4, <1>7, <2>1, <2>2
    <3>2. table[m] # f
      BY <1>0, <1>1, <1>4, <1>7, <3>1, FdFacts DEF TableInv, last
    <3>3. Readable(fdtable[table[m]])
      BY <1>4, <1>7, <2>1, <2>2, <3>1 DEF TableAhead, last
    <3>. QED  BY <1>0, <1>2, <2>2, <3>1, <3>2, <3>3 DEF Readable
  <2>3. i' >= 1
    BY <1>4, <1>7, <2>1
  <2>. QED  BY <1>0, <1>4, <1>7, <2>2, <2>3 DEF TableAhead
<1>8. ASSUME prog = "epoll" PROVE EpollInv' /\ EpollAhead'
  <2>1. EpollInv'
    BY <1>0, <1>2, <1>8, FdFacts DEF EpollInv, del_ev
  <2>2. pc = "scan" /\ ret_poll' = ret_poll /\ i \in Nat /\ ret_poll \in Nat /\ i' = i + 1
    BY <1>0, <1>8 DEF Hit, TypeOK, NextIndex
  <2>3. ASSUME NEW n \in i + 2 .. ret_poll, ep_events[n] \in Fd
        PROVE  fdtable'[ep_events[n]] # NoConn /\ Readable(fdtable[ep_events[n]])'
    <3>1. n \in i + 1 .. ret_poll /\ n \in 1 .. ret_poll /\ n # i + 1
      BY <2>2, <2>3
    <3>2. ep_events[n] # f
      BY <1>1, <1>8, <2>2, <3>1 DEF EpollAhead
    <3>3. fdtable[ep_events[n]] # NoConn /\ Readable(fdtable[ep_events[n]])
      BY <1>8, <2>2, <2>3, <3>1 DEF EpollAhead
    <3>. QED  BY <1>0, <1>2, <2>3, <3>2, <3>3 DEF Readable
  <2>4. i' + 1 = i + 2
    BY <2>2
  <2>. QED  BY <1>0, <1>8, <2>1, <2>2, <2>3, <2>4 DEF EpollAhead
<1>. QED  BY <1>0, <1>3, <1>5, <1>6, <1>7, <1>8
-----------------------------------------------------------------------------
LEMMA NextInv == Inv /\ [Next]_vars => Inv'
<1> SUFFICES ASSUME Inv, [Next]_vars PROVE Inv'
  OBVIOUS
<1>1. CASE Clients
  BY <1>1, ConnectInv, PeerSendInv, PeerCloseInv DEF Clients
<1>2. CASE Server
  BY <1>2, WaitInv, AcceptInv, AcceptNoMoreInv, AcceptFailInv, ScanEndInv, ScanSkipInv,
     ScanListenerInv, ScanRecvInv, ScanEofInv DEF Server
<1>3. CASE UNCHANGED vars
  <2>1. UNCHANGED <<cstate, peer, rx, sent, backlog, fdtable, prog, socks, pc, round, refused>>
    BY <1>3 DEF vars, client
  <2>2. Kept'
    BY <2>1, QuietKept DEF Readable
  <2>3. TypeOK'
    BY <2>1 DEF Inv, TypeOK, socks, round
  <2>4. Clientele'
    BY <2>1 DEF Inv, Clientele
  <2>. QED  BY <2>2, <2>3, <2>4 DEF Inv, Kept
<1>. QED  BY <1>1, <1>2, <1>3 DEF Next

\* The inductive invariant holds in every state of the four servers.
THEOREM Invariance == Spec => []Inv
<1>. QED  BY InitInv, NextInv, PTL DEF Spec

\* The table, the count and the loop's index stay in range.
THEOREM TypeCorrect == Spec => []TypeOK
<1>1. Inv => TypeOK
  BY DEF Inv
<1>. QED  BY <1>1, Invariance, PTL

\* The servers watch exactly what they have open, but for refused clients: del_socket's
\* move of the last entry into the hole loses no socket and duplicates none.
THEOREM WatchedCorrect == Spec => []WatchedIsOpen
<1>1. ASSUME Inv PROVE WatchedIsOpen
  <2> USE <1>1 DEF Inv
  <2>1. CASE prog = "epoll"
    BY <2>1, FdFacts DEF EpollInv, WatchedIsOpen, Watched, Open
  <2>2. CASE prog # "epoll"
    <3>1. cnt_fd_socket \in Nat /\ cnt_fd_socket >= 1
      BY <2>2, TableAssumption DEF TypeOK, TableInv
    <3>2. \A k \in 0 .. cnt_fd_socket - 1 : k = 0 \/ k \in 1 .. cnt_fd_socket - 1
      BY <3>1
    <3>3. \A f : f \in Watched \ {fd_listener, -1} <=>
                f \notin {fd_listener, -1} /\ \E k \in 1 .. cnt_fd_socket - 1 : table[k] = f
      <4>1. 0 \in 0 .. cnt_fd_socket - 1 /\ 1 .. cnt_fd_socket - 1 \subseteq 0 .. cnt_fd_socket - 1
        BY <3>1
      <4>2. Watched = {table[k] : k \in 0 .. cnt_fd_socket - 1} /\ table[0] = fd_listener
        BY <2>2 DEF Watched, TableInv
      <4>. QED  BY <3>2, <4>1, <4>2
    <3>4. Watched \ {fd_listener, -1} = Open \ refused
      <4>1. ASSUME NEW f \in Watched \ {fd_listener, -1} PROVE f \in Open \ refused
        BY <2>2, <3>3 DEF TableInv, Open
      <4>2. ASSUME NEW f \in Open \ refused PROVE f \in Watched \ {fd_listener, -1}
        BY <2>2, <3>3, FdFacts DEF TableInv, Open
      <4>. QED  BY <4>1, <4>2
    <3>5. \A k, l \in 0 .. cnt_fd_socket - 1 : table[k] = table[l] /\ k # l => table[k] = -1
      BY <2>2, <3>2, FdFacts DEF TableInv
    <3>. QED  BY <3>4, <3>5 DEF WatchedIsOpen
  <2>. QED  BY <2>1, <2>2
<1>. QED  BY <1>1, Invariance, PTL

\* The only thread never blocks in recv, however old its reports are.
THEOREM RecvNeverBlocks == Spec => []RecvReady
<1>1. Inv => RecvReady
  BY CurrentOpen DEF RecvReady, Open
<1>. QED  BY <1>1, Invariance, PTL
-----------------------------------------------------------------------------
(* Nothing that was reported is passed over                                *)

\* io_poll.c: ret_poll counts the reports that were not served, all of them are ahead of the
\* loop's index, and nothing served is.
PollServed ==
  pc = "scan" =>
    /\ reported \subseteq Fd
    /\ ret_poll = Cardinality(reported \ served)
    /\ \A f \in reported \ served : \E k \in i .. cnt_fd_socket - 1 : table[k] = f
    /\ \A k \in i .. cnt_fd_socket - 1 : table[k] \notin served

\* io_epoll.c: the events are the reports, and those behind the index were served.
EpollServed ==
  /\ pc = "accept" => ep_events[i + 1] = fd_listener
  /\ pc \in {"scan", "accept"} =>
       /\ \A f \in reported : \E n \in 1 .. ret_poll : ep_events[n] = f
       /\ \A n \in 1 .. ret_poll : ep_events[n] \in reported
       /\ \A n \in 1 .. i : n <= ret_poll => ep_events[n] \in served \union {fd_listener}

ServedInv == (prog = "poll" => PollServed) /\ (prog = "epoll" => EpollServed)

LEMMA InitServed == Init => ServedInv
  BY DEF Init, ServedInv, PollServed, EpollServed

\* An enumeration without repetition leaves nothing out.
LEMMA EnumerationsCover ==
  ASSUME NEW S, IsFiniteSet(S), NEW s \in Enumerations(S), NEW f \in S
  PROVE  \E n \in 1 .. Cardinality(S) : s[n] = f
<1>1. Cardinality(S) \in Nat
  BY FS_CardinalityType
<1>2. PICK n \in Nat : n = Cardinality(S)
  BY <1>1
<1>3. s \in [1 .. n -> S] /\ \A a, b \in 1 .. n : s[a] = s[b] => a = b
  BY <1>2 DEF Enumerations
<1>4. s \in Injection(1 .. n, S)
  BY <1>3 DEF Injection, IsInjective
<1>5. Cardinality(1 .. n) = n
  BY FS_Interval
<1>6. s \in Surjection(1 .. n, S)
  BY <1>2, <1>4, <1>5, FS_Injection
<1>. QED  BY <1>2, <1>6 DEF Surjection

LEMMA WaitServed == ASSUME Inv, Wait PROVE ServedInv'
<1> USE DEF Inv
<1>a. /\ reported' = Ready /\ ret_poll' = Cardinality(Ready) /\ served' = {} /\ i' = FirstIndex
      /\ UNCHANGED <<prog, table, cnt_fd_socket>>
  BY DEF Wait, socks
<1>b. IsFiniteSet(Ready) /\ Cardinality(Ready) \in Nat /\ Ready \subseteq Fd \union {fd_listener}
  BY ReadyFinite, ReadySubset
<1>1. ASSUME prog = "poll" PROVE PollServed'
  <2> SUFFICES ASSUME pc' = "scan" PROVE PollServed'
    BY DEF PollServed
  <2>1. Ready \subseteq Fd
    BY <1>1, <1>b DEF Wait
  <2>2. i' = 1 /\ Ready \ {} = Ready
    BY <1>1, <1>a DEF FirstIndex
  <2>3. \A f \in Ready : \E k \in 1 .. cnt_fd_socket - 1 : table[k] = f
    <3> SUFFICES ASSUME NEW f \in Ready
                 PROVE  \E k \in 1 .. cnt_fd_socket - 1 : table[k] = f
      OBVIOUS
    <3>1. PICK k \in 0 .. cnt_fd_socket - 1 : table[k] = f
      BY <1>1 DEF Ready, Watched
    <3>2. k # 0
      BY <1>1, <2>1, <3>1, FdFacts DEF TableInv
    <3>. QED  BY <3>1, <3>2
  <2>4. reported' \ served' = Ready
    BY <1>a
  <2>. QED  BY <1>a, <2>1, <2>2, <2>3, <2>4 DEF PollServed
<1>2. ASSUME prog = "epoll" PROVE EpollServed'
  <2>1. i' = 0 /\ pc' = "scan" /\ ep_events' \in Enumerations(Ready)
    BY <1>2, <1>a DEF FirstIndex, Wait
  <2>2. \A f \in Ready : \E n \in 1 .. Cardinality(Ready) : ep_events'[n] = f
    BY <1>b, <2>1, EnumerationsCover
  <2>3. \A n \in 1 .. Cardinality(Ready) : ep_events'[n] \in Ready
    BY <2>1 DEF Enumerations
  <2>. QED  BY <1>a, <2>1, <2>2, <2>3 DEF EpollServed
<1>. QED  BY <1>1, <1>2, <1>a DEF ServedInv

LEMMA AcceptServed ==
  ASSUME Inv, ServedInv, Accept \/ AcceptNoMore \/ AcceptFail
  PROVE  ServedInv'
<1> USE DEF Inv
<1>a. pc = "accept" /\ prog' = prog
  BY DEF Accept, AcceptNoMore, AcceptFail
<1>1. ASSUME prog = "poll" PROVE PollServed'
  <2>1. pc' # "scan"
    BY <1>1, <1>a DEF Accept, AfterAccept, AcceptNoMore, AcceptFail, LeaveAccept
  <2>. QED  BY <2>1 DEF PollServed
<1>2. ASSUME prog = "epoll" PROVE EpollServed'
  <2>1. UNCHANGED <<ret_poll, reported, ep_events, served>>
    BY <1>2 DEF Accept, AcceptNoMore, AcceptFail, LeaveAccept, round
  <2>2. (i' = i /\ pc' = "accept") \/ (i' = i + 1 /\ pc' = "scan")
    <3>1. CASE Accept
      BY <1>2, <3>1 DEF Accept, AfterAccept, round
    <3>2. CASE ~Accept
      BY <1>2, <3>2 DEF AcceptNoMore, AcceptFail, LeaveAccept
    <3>. QED  BY <3>1, <3>2
  <2>3. i \in Nat /\ ret_poll \in Nat
    BY DEF TypeOK
  <2>4. EpollServed
    BY <1>2 DEF ServedInv
  <2>5. CASE i' = i /\ pc' = "accept"
    BY <1>a, <2>1, <2>4, <2>5 DEF EpollServed
  <2>6. CASE i' = i + 1 /\ pc' = "scan"
    <3>1. \A n \in 1 .. i + 1 : n \in 1 .. i \/ n = i + 1
      BY <2>3
    <3>2. \A n \in 1 .. i + 1 : n <= ret_poll => ep_events[n] \in served \union {fd_listener}
      BY <1>a, <2>4, <3>1 DEF EpollServed
    <3>. QED  BY <1>a, <2>1, <2>4, <2>6, <3>2 DEF EpollServed
  <2>. QED  BY <2>2, <2>5, <2>6
<1>. QED  BY <1>1, <1>2, <1>a DEF ServedInv

LEMMA SkipServed ==
  ASSUME Inv, ServedInv, ScanEnd \/ ScanSkip \/ ScanListener
  PROVE  ServedInv'
<1> USE DEF Inv
<1>a. /\ pc = "scan"
      /\ UNCHANGED <<prog, table, cnt_fd_socket, ret_poll, reported, ep_events, served>>
      /\ i \in Nat /\ cnt_fd_socket \in Nat /\ ret_poll \in Nat
  BY TableAssumption DEF ScanEnd, ScanSkip, ScanListener, Hit, socks, round, TypeOK
<1>1. CASE ScanEnd
  BY <1>1, <1>a DEF ScanEnd, ServedInv, PollServed, EpollServed
<1>2. CASE ScanSkip
  <2>a. pc' = "scan" /\ i' = i + 1 /\ MoreToScan /\ Current \notin reported
    BY <1>2, <1>a DEF ScanSkip
  <2>1. ASSUME prog = "poll" PROVE PollServed'
    <3>1. PollServed /\ table[i] \notin reported
      BY <2>1, <2>a DEF ServedInv, Current
    <3>2. \A k \in i .. cnt_fd_socket - 1 : k = i \/ k \in i + 1 .. cnt_fd_socket - 1
      BY <1>a
    <3>3. \A f \in reported \ served : \E k \in i + 1 .. cnt_fd_socket - 1 : table[k] = f
      BY <1>a, <3>1, <3>2 DEF PollServed
    <3>4. \A k \in i + 1 .. cnt_fd_socket - 1 : k \in i .. cnt_fd_socket - 1
      BY <1>a
    <3>. QED  BY <1>a, <2>a, <3>1, <3>3, <3>4 DEF PollServed
  <2>2. ASSUME prog = "epoll" PROVE FALSE
    <3>1. i + 1 \in 1 .. ret_poll
      BY <1>a, <2>2, <2>a DEF MoreToScan
    <3>. QED  BY <1>a, <2>2, <2>a, <3>1 DEF ServedInv, EpollServed, Current
  <2>. QED  BY <1>a, <2>1, <2>2 DEF ServedInv
<1>3. CASE ScanListener
  <2>a. pc' = "accept" /\ i' = i /\ Current = fd_listener
    BY <1>3 DEF ScanListener, round
  <2>. QED  BY <1>a, <2>a DEF ServedInv, PollServed, EpollServed, Current
<1>. QED  BY <1>1, <1>2, <1>3

\* The loop serves the descriptor at its index.
LEMMA EpollServes ==
  ASSUME Inv, ServedInv, ScanRecv \/ ScanEof, prog = "epoll"
  PROVE  EpollServed'
<1> USE DEF Inv
<1>a. /\ Hit /\ Current \in Fd /\ pc' = pc
      /\ i' = i + 1 /\ ret_poll' = ret_poll /\ served' = served \union {Current}
      /\ UNCHANGED <<reported, ep_events>>
  BY DEF ScanRecv, ScanEof, Handled, NextIndex
<1>b. pc = "scan" /\ Current = ep_events[i + 1] /\ i \in Nat /\ EpollServed
  BY <1>a DEF Hit, Current, TypeOK, ServedInv
<1>1. \A n \in 1 .. i + 1 : n \in 1 .. i \/ n = i + 1
  BY <1>b
<1>2. \A n \in 1 .. i + 1 : n <= ret_poll => ep_events[n] \in served' \union {fd_listener}
  BY <1>1, <1>a, <1>b DEF EpollServed
<1>. QED  BY <1>2, <1>a, <1>b DEF EpollServed

\* In io_poll.c the descriptor at the index was not served before, and all others stay ahead.
LEMMA PollServes ==
  ASSUME Inv, ServedInv, ScanRecv \/ ScanEof, prog = "poll"
  PROVE  PollServed'
<1> USE DEF Inv
<1>a. /\ Hit /\ Current \in Fd /\ pc' = pc /\ reported' = reported
      /\ ret_poll' = ret_poll - 1 /\ served' = served \union {Current}
  BY DEF ScanRecv, ScanEof, Handled
<1>p. PICK f \in Fd : f = Current
  BY <1>a
<1>b. /\ pc = "scan" /\ PollServed /\ f \in reported
      /\ i \in 1 .. cnt_fd_socket - 1 /\ f = table[i]
  BY <1>a, <1>p, CurrentOpen DEF Hit, ServedInv
<1>c. i \in Nat /\ cnt_fd_socket \in Nat /\ i < cnt_fd_socket
  BY <1>b, TableAssumption DEF TypeOK
<1>d. f \notin served
  <2>1. i \in i .. cnt_fd_socket - 1
    BY <1>c
  <2>. QED  BY <1>b, <2>1 DEF PollServed
<1>1. ret_poll' = Cardinality(reported' \ served')
  <2>1. reported' \ served' = (reported \ served) \ {f}
    BY <1>a, <1>p
  <2>2. IsFiniteSet(Fd)
    BY FS_Interval, FdAssumption DEF Fd
  <2>3. IsFiniteSet(reported \ served)
    BY <1>b, <2>2, FS_Subset DEF PollServed
  <2>4. Cardinality((reported \ served) \ {f}) = Cardinality(reported \ served) - 1
    BY <1>b, <1>d, <2>3, FS_RemoveElement
  <2>5. ret_poll' = ret_poll - 1 /\ ret_poll = Cardinality(reported \ served)
    BY <1>a, <1>b DEF PollServed
  <2>. QED  BY <2>1, <2>4, <2>5
<1>u. \A k \in 1 .. cnt_fd_socket - 1 : k # i => table[k] # f
  <2>1. \A k, l \in 1 .. cnt_fd_socket - 1 : table[k] = table[l] /\ k # l => table[k] = -1
    BY DEF TableInv
  <2>2. f # -1
    BY FdFacts
  <2>. HIDE DEF Inv
  <2>. QED  BY <1>b, <2>1, <2>2
<1>2. CASE ScanRecv
  <2>a. i' = i + 1 /\ UNCHANGED <<table, cnt_fd_socket>>
    BY <1>2 DEF ScanRecv, NextIndex, socks
  <2>1. \A k \in i .. cnt_fd_socket - 1 : k = i \/ k \in i + 1 .. cnt_fd_socket - 1
    BY <1>c
  <2>2. \A k \in i + 1 .. cnt_fd_socket - 1 :
          k \in i .. cnt_fd_socket - 1 /\ k \in 1 .. cnt_fd_socket - 1 /\ k # i
    BY <1>b, <1>c
  <2>3. \A g \in reported' \ served' : \E k \in i + 1 .. cnt_fd_socket - 1 : table[k] = g
    BY <1>a, <1>b, <1>p, <2>1 DEF PollServed
  <2>4. \A k \in i + 1 .. cnt_fd_socket - 1 : table[k] \notin served'
    BY <1>a, <1>b, <1>p, <1>u, <2>2 DEF PollServed
  <2>. QED  BY <1>1, <1>a, <1>b, <2>a, <2>3, <2>4 DEF PollServed
<1>3. CASE ScanEof
  <2>p. PICK last \in Nat : last = cnt_fd_socket - 1
    BY <1>c
  <2>a. /\ i' = i /\ cnt_fd_socket' = last /\ 1 <= i /\ i <= last
        /\ \A k \in 1 .. last - 1 : table'[k] = IF k = i THEN table[last] ELSE table[k]
    BY <1>3, <2>p, DelSocketMoves DEF ScanEof, NextIndex
  <2>1. ASSUME NEW g \in reported' \ served'
        PROVE  \E k \in i .. last - 1 : table'[k] = g
    <3>1. g # f /\ g \in reported \ served
      BY <1>a, <1>p, <2>1
    <3>2. PICK m \in i .. last : table[m] = g
      BY <1>b, <2>p, <3>1 DEF PollServed
    <3>3. m # i
      BY <1>b, <3>1, <3>2
    <3>4. CASE m = last
      <4>1. i \in i .. last - 1 /\ i \in 1 .. last - 1
        BY <1>c, <2>a, <3>3, <3>4
      <4>. QED  BY <2>a, <3>2, <3>4, <4>1
    <3>5. CASE m # last
      <4>1. m \in i .. last - 1 /\ m \in 1 .. last - 1
        BY <1>c, <2>a, <3>2, <3>5
      <4>. QED  BY <2>a, <3>2, <3>3, <4>1
    <3>. QED  BY <3>4, <3>5
  <2>2. ASSUME NEW k \in i .. last - 1
        PROVE  table'[k] \notin served'
    <3>1. PICK m \in i .. last : m # i /\ table'[k] = table[m]
      <4>1. k \in 1 .. last - 1 /\ k \in i .. last /\ last \in i .. last
        BY <1>c, <2>a, <2>p
      <4>2. CASE k = i
        BY <1>c, <2>a, <2>p, <4>1, <4>2
      <4>3. CASE k # i
        BY <2>a, <4>1, <4>3
      <4>. QED  BY <4>2, <4>3
    <3>2. m \in 1 .. cnt_fd_socket - 1 /\ m \in i .. cnt_fd_socket - 1
      BY <1>c, <2>a, <2>p
    <3>. QED  BY <1>a, <1>b, <1>p, <1>u, <3>1, <3>2 DEF PollServed
  <2>. QED  BY <1>1, <1>a, <1>b, <2>1, <2>2, <2>a DEF PollServed
<1>. QED  BY <1>2, <1>3

LEMMA NextServed == Inv /\ ServedInv /\ [Next]_vars => ServedInv'
<1> SUFFICES ASSUME Inv, ServedInv, [Next]_vars PROVE ServedInv'
  OBVIOUS
<1>1. ASSUME UNCHANGED <<prog, socks, pc, round>> PROVE ServedInv'
  BY <1>1 DEF ServedInv, PollServed, EpollServed, socks, round
<1>2. CASE Clients \/ UNCHANGED vars
  BY <1>1, <1>2 DEF Clients, Connect, PeerSend, PeerClose, vars
<1>3. CASE ScanRecv \/ ScanEof
  <2>1. prog' = prog
    BY <1>3 DEF ScanRecv, ScanEof
  <2>. QED  BY <1>3, <2>1, PollServes, EpollServes DEF ServedInv
<1>. QED  BY <1>2, <1>3, WaitServed, AcceptServed, SkipServed DEF Next, Server

\* io_poll.c and io_epoll.c pass over nothing that was reported: for any number of clients and
\* descriptors, del_socket's moves and the counting down of ret_poll included.
THEOREM AllServedCorrect == Spec => []AllServed
<1>1. ASSUME Inv, ServedInv PROVE AllServed
  <2> SUFFICES ASSUME pc = "scan", ~MoreToScan, NEW f \in reported \cap Fd
               PROVE  prog \in {"poll", "epoll"} => f \in served
    BY DEF AllServed
  <2>0. i \in Nat /\ ret_poll \in Nat /\ cnt_fd_socket \in Nat
    BY <1>1, TableAssumption DEF Inv, TypeOK
  <2>1. CASE prog = "poll"
    <3> SUFFICES ASSUME f \notin served PROVE FALSE
      OBVIOUS
    <3>1. PollServed
      BY <1>1, <2>1 DEF ServedInv
    <3>2. \E k \in i .. cnt_fd_socket - 1 : table[k] = f
      BY <3>1 DEF PollServed
    <3>3. i < cnt_fd_socket
      BY <2>0, <3>2
    <3>4. ret_poll = 0
      BY <2>0, <2>1, <3>3 DEF MoreToScan
    <3>5. IsFiniteSet(reported \ served)
      <4>1. IsFiniteSet(Fd)
        BY FS_Interval, FdAssumption DEF Fd
      <4>. QED  BY <3>1, <4>1, FS_Subset DEF PollServed
    <3>6. reported \ served = {}
      BY <3>1, <3>4, <3>5, FS_EmptySet DEF PollServed
    <3>. QED  BY <3>6
  <2>2. CASE prog = "epoll"
    <3>1. EpollServed /\ i >= ret_poll
      BY <1>1, <2>0, <2>2 DEF ServedInv, MoreToScan
    <3>2. PICK n \in 1 .. ret_poll : ep_events[n] = f
      BY <3>1 DEF EpollServed
    <3>3. n \in 1 .. i /\ n <= ret_poll
      BY <2>0, <3>1
    <3>. QED  BY <3>1, <3>2, <3>3, FdFacts DEF EpollServed
  <2>. QED  BY <2>1, <2>2
<1>. QED  BY <1>1, InitInv, NextInv, InitServed, NextServed, PTL DEF Spec
=============================================================================
