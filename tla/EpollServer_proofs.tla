-------------------------- MODULE EpollServer_proofs --------------------------
(***************************************************************************)
(* Proofs about EpollServer, for any number of clients, workers and        *)
(* descriptors: the connection count, epoll's set and the open descriptors *)
(* agree, the poller is awake whenever there is a client, unread data has  *)
(* an event on its way, and events are dealt evenly.  With one worker only *)
(* clients that have ended are closed, and del_efd never fails.            *)
(***************************************************************************)
EXTENDS EpollServer, FiniteSetTheorems, TLAPS

USE SizeAssumption, ConnAssumption

\* The part of the state that add_efd, del_efd and the poller's wait share.
shared == <<backlog, fdtable, registered, cur_open_files, pcL, fd_client, pcP>>

SharedType ==
  /\ backlog \in Seq(Conn)
  /\ fdtable \in [Fd -> Conn \union {NoConn}]
  /\ registered \in SUBSET Fd
  /\ cur_open_files \in Nat

\* Between accept and add_efd the listener's descriptor is open, and not yet in the
\* epoll set: no other thread can reach it.
InHand == pcL = "addEfd" => /\ fd_client \in Fd
                            /\ fd_client \notin registered
                            /\ fdtable[fd_client] # NoConn

ConnInv == SharedType /\ InHand /\ CountsRegistered /\ PollerAwake

\* The descriptors are a finite set, so the epoll set has a cardinality.
LEMMA FdFinite == IsFiniteSet(Fd)
<1>1. FirstFd \in Int /\ OPEN_MAX - 1 \in Int
  OBVIOUS
<1> QED
  BY <1>1, FS_Interval DEF Fd

\* Registering one more descriptor, or deleting one, moves the cardinality by one.
LEMMA RegisteredCard ==
  ASSUME NEW S \in SUBSET Fd
  PROVE  /\ IsFiniteSet(S) /\ Cardinality(S) \in Nat
         /\ \A f \in Fd \ S : Cardinality(S \union {f}) = Cardinality(S) + 1
         /\ \A f \in S : Cardinality(S \ {f}) = Cardinality(S) - 1
         /\ Cardinality(S) = 0 <=> S = {}
<1>1. IsFiniteSet(S)
  BY FdFinite, FS_Subset
<1> QED
  BY <1>1, FS_CardinalityType, FS_AddElement, FS_RemoveElement, FS_EmptySet

\* A step outside the shared part keeps the invariant.
LEMMA Frame == ConnInv /\ UNCHANGED shared => ConnInv'
BY DEF ConnInv, SharedType, InHand, CountsRegistered, PollerAwake, Open, shared

\* No client, nothing registered, the poller not started.
LEMMA InitConn == Init => ConnInv
<1> SUFFICES ASSUME Init PROVE ConnInv
  OBVIOUS
<1>1. Cardinality({}) = 0
  BY FS_EmptySet
<1> QED
  BY <1>1 DEF Init, ConnInv, SharedType, InHand, CountsRegistered, PollerAwake, Open

\* Every step keeps the invariant.
LEMMA StepConn == ConnInv /\ [Next]_vars => ConnInv'
<1> SUFFICES ASSUME ConnInv, [Next]_vars PROVE ConnInv'
  OBVIOUS
<1>t. SharedType /\ InHand /\ CountsRegistered /\ PollerAwake
  BY DEF ConnInv
<1>1. CASE \E c \in Conn : Connect(c)
  BY <1>1, <1>t DEF Connect, listener, poller, ConnInv, SharedType, InHand, CountsRegistered,
                   PollerAwake, Open
<1>2. CASE \E c \in Conn : PeerSend(c) \/ \E how \in {"fin", "rst"} : PeerClose(c, how)
  BY <1>2, Frame DEF PeerSend, PeerClose, listener, poller, shared
<1>3. CASE MakeThreads
  BY <1>3, <1>t DEF MakeThreads, kernel, ConnInv, SharedType, InHand, CountsRegistered,
                   PollerAwake, Open
<1>4. CASE ListenerBind
  BY <1>4, <1>t DEF ListenerBind, kernel, poller, ConnInv, SharedType, InHand,
                   CountsRegistered, PollerAwake, Open
<1>5. CASE Accept
  <2>1. PICK f \in FreeFd : /\ fd_client' = f
                            /\ fdtable' = [fdtable EXCEPT ![f] = Head(backlog)]
    BY <1>5 DEF Accept
  <2>2. Head(backlog) \in Conn /\ backlog' \in Seq(Conn)
    BY <1>5, <1>t DEF Accept, SharedType
  <2>3. f \in Fd /\ fdtable[f] = NoConn /\ f \notin registered
    BY <2>1, <1>t DEF FreeFd, CountsRegistered, Open
  <2>4. pcL' = "addEfd" /\ pcL = "accept" /\ UNCHANGED <<registered, cur_open_files, pcP>>
    BY <1>5 DEF Accept, poller
  <2>5. SharedType' /\ InHand' /\ PollerAwake'
    BY <2>1, <2>2, <2>3, <2>4, <1>t DEF SharedType, InHand, PollerAwake
  <2>6. CountsRegistered'
    BY <2>1, <2>2, <2>3, <2>4, <1>t DEF SharedType, CountsRegistered, Open
  <2> QED
    BY <2>5, <2>6 DEF ConnInv
<1>6. CASE AcceptFail \/ AddFdlist
  BY <1>6, <1>t DEF AcceptFail, AddFdlist, kernel, poller, ConnInv, SharedType, InHand,
                   CountsRegistered, PollerAwake, Open
<1>7. CASE AddEfdOverflow
  BY <1>7, Frame DEF AddEfdOverflow, kernel, listener, poller, shared
<1>8. CASE AddEfd
  <2>1. /\ pcL = "addEfd" /\ pcL' = "addFdlist"
        /\ registered' = registered \union {fd_client}
        /\ cur_open_files' = cur_open_files + 1
        /\ UNCHANGED <<backlog, fdtable, fd_client>>
        /\ Broadcast(cur_open_files + 1)
    BY <1>8 DEF AddEfd
  <2>2. fd_client \in Fd \ registered
    BY <2>1, <1>t DEF InHand
  <2>3. cur_open_files' = Cardinality(registered')
    BY <2>1, <2>2, <1>t, RegisteredCard DEF SharedType, CountsRegistered
  <2>4. CountsRegistered'
    BY <2>1, <2>3, <1>t DEF CountsRegistered, Open
  <2>5. PollerAwake'
    <3>1. CASE registered = {}
      BY <3>1, <2>1, <1>t, RegisteredCard DEF Broadcast, PollerAwake, CountsRegistered, SharedType
    <3>2. CASE registered # {}
      BY <3>2, <2>1, <1>t DEF Broadcast, PollerAwake
    <3> QED
      BY <3>1, <3>2
  <2>6. SharedType' /\ InHand'
    BY <2>1, <2>2, <1>t DEF SharedType, InHand
  <2> QED
    BY <2>4, <2>5, <2>6 DEF ConnInv
<1>9. CASE PollerCheck
  <2>1. PollerAwake'
    BY <1>9, <1>t, RegisteredCard DEF PollerCheck, kernel, PollerAwake, CountsRegistered,
                                     SharedType
  <2> QED
    BY <2>1, <1>9, <1>t DEF PollerCheck, kernel, listener, ConnInv, SharedType, InHand,
                           CountsRegistered, Open
<1>10. CASE PollerSpurious \/ PollerCall \/ PollerReturn \/ PollerSend
  BY <1>10, <1>t DEF PollerSpurious, PollerCall, PollerReturn, PollerSend, kernel, listener,
                    ConnInv, SharedType, InHand, CountsRegistered, PollerAwake, Open
<1>11. CASE Iosched
  BY <1>11, Frame DEF Iosched, SchedRecv, SchedPush, kernel, listener, poller, shared
<1>12. ASSUME NEW w \in Worker,
              \/ WorkerPop(w) \/ WorkerArg(w) \/ WorkerEnter(w) \/ WorkerRecv(w)
              \/ WorkerEof(w) \/ WorkerDelArg(w) \/ WorkerDelList(w)
       PROVE  ConnInv'
  BY <1>12, Frame DEF WorkerPop, WorkerArg, WorkerEnter, WorkerRecv, WorkerEof, WorkerDelArg,
                     WorkerDelList, kernel, listener, poller, shared
<1>13. ASSUME NEW w \in Worker, WorkerDel(w)
       PROVE  ConnInv'
  <2> DEFINE f == arg[w]
  <2>1. CASE f \notin registered
    BY <2>1, <1>13, Frame DEF WorkerDel, listener, poller, shared
  <2>2. CASE f \in registered
    <3>1. /\ fdtable' = [fdtable EXCEPT ![f] = NoConn]
          /\ registered' = registered \ {f}
          /\ cur_open_files' = cur_open_files - 1
          /\ UNCHANGED <<backlog, pcL, fd_client, pcP>>
      BY <2>2, <1>13 DEF WorkerDel, listener, poller
    <3> HIDE DEF f
    <3>2. cur_open_files' = Cardinality(registered') /\ cur_open_files' \in Nat
      BY <3>1, <2>2, <1>t, RegisteredCard DEF SharedType, CountsRegistered
    <3>3. f \in Fd /\ (pcL = "addEfd" => f # fd_client)
      BY <2>2, <1>t DEF SharedType, InHand, CountsRegistered, Open
    <3>4. SharedType' /\ InHand' /\ PollerAwake'
      BY <3>1, <3>2, <3>3, <2>2, <1>t DEF SharedType, InHand, PollerAwake
    <3>5. Open' = Open \ {f}
      BY <3>1, <3>3, <1>t DEF SharedType, Open
    <3>6. CountsRegistered'
      BY <3>1, <3>2, <3>3, <3>5, <2>2, <1>t DEF CountsRegistered, InHand
    <3> QED
      BY <3>4, <3>6 DEF ConnInv
  <2> QED
    BY <2>1, <2>2
<1>14. CASE UNCHANGED vars
  BY <1>14, Frame DEF vars, kernel, listener, poller, shared
<1> QED
  BY <1>1, <1>2, <1>3, <1>4, <1>5, <1>6, <1>7, <1>8, <1>9, <1>10, <1>11, <1>12, <1>13, <1>14
     DEF Next, Clients, Listener, Poller, Work

\* The inductive invariant holds in every reachable state.
THEOREM ConnInvariance == Spec => []ConnInv
BY InitConn, StepConn, PTL DEF Spec

\* cur_open_files, the epoll set and the open descriptors agree in every reachable
\* state, whatever add_efd, del_efd, accept and close interleave.
THEOREM CountCorrect == Spec => []CountsRegistered
<1>1. ConnInv => CountsRegistered
  BY DEF ConnInv
<1> QED
  BY <1>1, ConnInvariance, PTL

\* add_efd's broadcast is never lost: the poller does not sleep while a client is
\* registered.
THEOREM PollerWakes == Spec => []PollerAwake
<1>1. ConnInv => PollerAwake
  BY DEF ConnInv
<1> QED
  BY <1>1, ConnInvariance, PTL

-----------------------------------------------------------------------------
(* Events on their way from epoll to recv                                  *)

ClientT ==
  /\ cstate \in [Conn -> {"new", "backlog", "open", "closed"}]
  /\ peer \in [Conn -> {"up", "fin", "rst"}]
  /\ rx \in [Conn -> Nat] /\ sent \in [Conn -> 0 .. MaxSend]
  /\ \A c \in Conn : rx[c] <= sent[c]

ListenerT ==
  /\ sin_port \in Nat /\ argv_port \in Nat
  /\ pcL \in {"start", "bind", "accept", "addEfd", "addFdlist", "ended"}
  /\ fd_client \in Fd \union {0}
  /\ pcL \in {"addEfd", "addFdlist"} => fd_client \in Fd

PollerT ==
  /\ cur_open_files \in 0 .. max_open_files /\ maxev \in 0 .. max_open_files
  /\ pcP \in {"start", "check", "asleep", "call", "wait", "send"}
  /\ a_mq_buf \in Seq(Fd)
  /\ pcP # "send" => a_mq_buf = << >>
  /\ pcL = "start" => pcP = "start"

QueueT ==
  /\ ready \in SUBSET Fd
  /\ mq \in Seq(Seq(Fd)) /\ sbuf \in Seq(Fd)
  /\ evl \in [Worker -> Seq(Fd)]

\* A slot of p_fdlists holds its own number, the 0 it began with or -1.
SlotT == fdlist \in [Fd -> Fd \union {0, -1}] /\ \A f \in Fd : fdlist[f] \in {f, 0, -1}

\* A busy worker has an event; what it read from the slot is the event's descriptor or none.
WorkerT ==
  /\ pcW \in [Worker -> {"idle", "arg", "enter", "recv", "delArg", "del", "delList"}]
  /\ ev \in [Worker -> Fd \union {0}] /\ arg \in [Worker -> Fd \union {0, -1}]
  /\ wconn \in [Worker -> Conn \union {NoConn}] /\ contested \in SUBSET Fd
  /\ \A w \in Worker : pcW[w] # "idle" => ev[w] \in Fd
  /\ \A w \in Worker : pcW[w] \in {"enter", "recv", "del"} => arg[w] \in {ev[w], 0, -1}
  /\ \A w \in Worker : pcW[w] = "recv" => wconn[w] \in Conn

\* The lists before idx_rr have been given one event more than those from it on.
Dealt ==
  /\ npush \in [Worker -> 0 .. MAX_EVENT_QUEUE] /\ idx_rr \in 0 .. MAX_WORKER_THREAD
  /\ \A v, w \in Worker : npush[v] = npush[w] + (IF v < idx_rr THEN 1 ELSE 0)
                                              - (IF w < idx_rr THEN 1 ELSE 0)

OutcomeT ==
  /\ exited \in {"no", "addOverflow", "einval", "delFailed", "overrun", "segv"}
  /\ lost \in SUBSET Conn

EvInv == /\ ClientT /\ ListenerT /\ PollerT /\ QueueT /\ SlotT /\ WorkerT /\ Dealt
         /\ OutcomeT /\ DataHasEvent

LEMMA Sizes ==
  /\ max_open_files \in Nat /\ 0 \notin Fd /\ -1 \notin Fd /\ Fd \subseteq Nat
  /\ 0 \in Worker /\ Worker \subseteq Nat
BY DEF max_open_files, Fd, Worker

LEMMA InitEv == Init => EvInv
<1> SUFFICES ASSUME Init PROVE EvInv
  OBVIOUS
<1>1. ClientT /\ SlotT /\ WorkerT
  BY DEF Init, ClientT, SlotT, WorkerT
<1>2. ListenerT /\ QueueT
  BY PortAssumption, StaleAssumption DEF Init, ListenerT, QueueT
<1>3. PollerT /\ Dealt /\ OutcomeT
  BY Sizes DEF Init, PollerT, Dealt, OutcomeT
<1>4. DataHasEvent
  BY DEF Init, DataHasEvent
<1> QED BY <1>1, <1>2, <1>3, <1>4 DEF EvInv

\* What a sequence's first element, its rest and an appended element do to its members.
LEMMA Members ==
  ASSUME NEW S, NEW s \in Seq(S)
  PROVE  /\ \A x \in S : /\ Append(s, x) \in Seq(S)
                         /\ ToSet(Append(s, x)) = ToSet(s) \union {x}
         /\ s # << >> => /\ Head(s) \in S /\ Tail(s) \in Seq(S)
                         /\ ToSet(s) = {Head(s)} \union ToSet(Tail(s))
         /\ ToSet(s) \subseteq S
<1>1. ASSUME NEW x \in S
      PROVE  Append(s, x) \in Seq(S) /\ ToSet(Append(s, x)) = ToSet(s) \union {x}
  <2>1. /\ Append(s, x) \in Seq(S) /\ DOMAIN Append(s, x) = 1 .. Len(s) + 1
        /\ \A i \in 1 .. Len(s) : Append(s, x)[i] = s[i]
        /\ Append(s, x)[Len(s) + 1] = x /\ DOMAIN s = 1 .. Len(s) /\ Len(s) \in Nat
    OBVIOUS
  <2>2. \A i \in 1 .. Len(s) + 1 : i \in 1 .. Len(s) \/ i = Len(s) + 1
    BY <2>1
  <2>3. \A i \in 1 .. Len(s) : i \in 1 .. Len(s) + 1
    BY <2>1
  <2>4. Len(s) + 1 \in 1 .. Len(s) + 1
    BY <2>1
  <2> QED BY <2>1, <2>2, <2>3, <2>4 DEF ToSet
<1>2. ASSUME s # << >>
      PROVE  /\ Head(s) \in S /\ Tail(s) \in Seq(S)
             /\ ToSet(s) = {Head(s)} \union ToSet(Tail(s))
  <2>1. /\ DOMAIN s = 1 .. Len(s) /\ Len(s) \in Nat /\ Len(s) >= 1 /\ Head(s) = s[1]
        /\ Tail(s) \in Seq(S) /\ DOMAIN Tail(s) = 1 .. Len(s) - 1
        /\ \A i \in 1 .. Len(s) - 1 : Tail(s)[i] = s[i + 1]
    BY <1>2
  <2>2. \A i \in 1 .. Len(s) : i = 1 \/ (i - 1 \in 1 .. Len(s) - 1 /\ (i - 1) + 1 = i)
    BY <2>1
  <2>3. \A i \in 1 .. Len(s) - 1 : i + 1 \in 1 .. Len(s)
    BY <2>1
  <2>4. 1 \in 1 .. Len(s)
    BY <2>1
  <2>5. ASSUME NEW x \in ToSet(s) PROVE x = Head(s) \/ x \in ToSet(Tail(s))
    <3>1. PICK i \in 1 .. Len(s) : x = s[i]
      BY <2>1, <2>5 DEF ToSet
    <3>2. CASE i = 1
      BY <2>1, <3>1, <3>2
    <3>3. CASE i # 1
      <4>1. i - 1 \in 1 .. Len(s) - 1 /\ (i - 1) + 1 = i
        BY <2>2, <3>3
      <4>2. Tail(s)[i - 1] = s[i]
        BY <2>1, <4>1
      <4> QED BY <2>1, <3>1, <4>1, <4>2 DEF ToSet
    <3> QED BY <3>2, <3>3
  <2>6. ASSUME NEW x \in ToSet(Tail(s)) PROVE x \in ToSet(s)
    <3>1. PICK i \in 1 .. Len(s) - 1 : x = Tail(s)[i]
      BY <2>1, <2>6 DEF ToSet
    <3> QED BY <2>1, <2>3, <3>1 DEF ToSet
  <2>7. Head(s) \in ToSet(s) /\ Head(s) \in S
    BY <2>1, <2>4 DEF ToSet
  <2> QED BY <2>1, <2>5, <2>6, <2>7
<1>3. ToSet(s) \subseteq S
  BY DEF ToSet
<1> QED BY <1>1, <1>2, <1>3

\* A function on 1 .. n is a sequence.
LEMMA BufferSeq == ASSUME NEW n \in Nat, NEW q \in [1 .. n -> Fd] PROVE q \in Seq(Fd)
OBVIOUS

\* The types, group by group: the steps that touch a group keep it.
LEMMA StepClientT == ASSUME ConnInv, EvInv, Next PROVE ClientT'
<1> USE DEF EvInv, ClientT
<1>1. ASSUME NEW c \in Conn, Connect(c) PROVE ClientT'
  BY <1>1 DEF Connect
<1>2. ASSUME NEW c \in Conn, PeerSend(c) PROVE ClientT'
  <2>1. /\ sent' = [sent EXCEPT ![c] = @ + 1] /\ rx' = [rx EXCEPT ![c] = @ + 1]
        /\ UNCHANGED <<cstate, peer>> /\ sent[c] < MaxSend
    BY <1>2 DEF PeerSend
  <2>2. sent' \in [Conn -> 0 .. MaxSend] /\ rx' \in [Conn -> Nat]
    BY <2>1
  <2>3. \A d \in Conn : rx'[d] <= sent'[d]
    BY <2>1
  <2> QED BY <2>1, <2>2, <2>3
<1>3. ASSUME NEW c \in Conn, NEW how \in {"fin", "rst"}, PeerClose(c, how) PROVE ClientT'
  <2>1. /\ peer' = [peer EXCEPT ![c] = how] /\ UNCHANGED <<cstate, sent>>
        /\ rx' = [rx EXCEPT ![c] = IF how = "rst" THEN 0 ELSE @]
    BY <1>3 DEF PeerClose
  <2>2. \A d \in Conn : rx'[d] \in Nat /\ rx'[d] <= rx[d]
    BY <2>1
  <2>3. rx' \in [Conn -> Nat]
    BY <2>1
  <2>4. peer' \in [Conn -> {"up", "fin", "rst"}]
    BY <2>1
  <2>5. \A d \in Conn : rx'[d] <= sent[d]
    BY <2>2
  <2> QED BY <2>1, <2>3, <2>4, <2>5
<1>4. CASE Accept
  BY <1>4 DEF Accept, ConnInv, SharedType
<1>5. ASSUME NEW w \in Worker, WorkerRecv(w) PROVE ClientT'
  <2> DEFINE c == wconn[w]
  <2>1. c \in Conn
    BY <1>5 DEF WorkerRecv, WGoto, WorkerT
  <2>2. \/ rx' = [rx EXCEPT ![c] = IF @ > MAX_CLIENT_BUF THEN @ - MAX_CLIENT_BUF ELSE 0]
           /\ peer' = peer
        \/ peer' = [peer EXCEPT ![c] = "fin"] /\ rx' = rx
    BY <1>5 DEF WorkerRecv
  <2>3. UNCHANGED <<cstate, sent>>
    BY <1>5 DEF WorkerRecv
  <2> HIDE DEF c
  <2>4. peer' \in [Conn -> {"up", "fin", "rst"}] /\ rx' \in [Conn -> Nat]
    BY <2>1, <2>2
  <2>5. \A d \in Conn : rx'[d] <= rx[d]
    BY <2>1, <2>2
  <2>6. \A d \in Conn : rx'[d] <= sent[d]
    BY <2>4, <2>5
  <2> QED BY <2>3, <2>4, <2>6
<1>6. ASSUME NEW w \in Worker, WorkerDel(w) PROVE ClientT'
  BY <1>6 DEF WorkerDel, ConnInv, SharedType
<1>7. CASE UNCHANGED client
  BY <1>7 DEF client
<1>8. \/ \E c \in Conn : \/ Connect(c) \/ PeerSend(c)
                         \/ \E how \in {"fin", "rst"} : PeerClose(c, how)
      \/ Accept \/ (\E w \in Worker : WorkerRecv(w) \/ WorkerDel(w))
      \/ UNCHANGED client
  BY DEF Next, Clients, MakeThreads, Listener, ListenerBind, AcceptFail, AddEfdOverflow,
         AddEfd, AddFdlist, Poller, PollerCheck, PollerCall, PollerReturn, PollerSend,
         PollerSpurious, Iosched, SchedRecv, SchedPush, Work, WorkerPop, WorkerArg,
         WorkerEnter, WorkerEof, WorkerDelArg, WorkerDelList, client
<1> QED BY <1>1, <1>2, <1>3, <1>4, <1>5, <1>6, <1>7, <1>8

LEMMA StepListenerT == ASSUME ConnInv, EvInv, Next PROVE ListenerT'
<1> USE DEF EvInv, ListenerT
<1>1. CASE MakeThreads
  BY <1>1 DEF MakeThreads
<1>2. CASE ListenerBind
  BY <1>2, PortAssumption DEF ListenerBind
<1>3. CASE Accept
  <2>1. PICK f \in FreeFd : fd_client' = f
    BY <1>3 DEF Accept
  <2> QED BY <1>3, <2>1 DEF Accept, FreeFd
<1>4. CASE AcceptFail \/ AddEfd \/ AddFdlist
  BY <1>4 DEF AcceptFail, AddEfd, AddFdlist
<1>5. CASE UNCHANGED listener
  BY <1>5 DEF listener
<1>6. \/ MakeThreads \/ ListenerBind \/ Accept \/ AcceptFail \/ AddEfd \/ AddFdlist
      \/ UNCHANGED listener
  BY DEF Next, Clients, Connect, PeerSend, PeerClose, Listener, AddEfdOverflow,
         Poller, PollerCheck, PollerCall, PollerReturn, PollerSend,
         PollerSpurious, Iosched, SchedRecv, SchedPush, Work, WorkerPop, WorkerArg,
         WorkerEnter, WorkerRecv, WorkerEof, WorkerDelArg, WorkerDel, WorkerDelList, listener
<1> QED BY <1>1, <1>2, <1>3, <1>4, <1>5, <1>6

LEMMA StepPollerT == ASSUME ConnInv, EvInv, Next PROVE PollerT'
<1> USE DEF EvInv, PollerT
<1>1. CASE MakeThreads
  BY <1>1 DEF MakeThreads
<1>2. CASE AddEfd
  <2>1. /\ pcL' # "start"
        /\ cur_open_files' = cur_open_files + 1 /\ cur_open_files < max_open_files
        /\ pcP' = IF cur_open_files + 1 = 1 /\ pcP = "asleep" THEN "call" ELSE pcP
        /\ UNCHANGED <<maxev, a_mq_buf>>
    BY <1>2 DEF AddEfd, EfdRoom, Broadcast
  <2> QED BY <2>1, Sizes
<1>3. CASE PollerCheck \/ PollerSpurious \/ PollerCall
  BY <1>3 DEF PollerCheck, PollerSpurious, PollerCall, listener
<1>4. CASE PollerReturn
  <2>1. PICK n, q : /\ n > 0 /\ n = (IF Cardinality({f \in ready : Readable(fdtable[f])}) < maxev
                             THEN Cardinality({f \in ready : Readable(fdtable[f])}) ELSE maxev)
                    /\ q \in [1 .. n -> {f \in ready : Readable(fdtable[f])}]
                    /\ a_mq_buf' = q
    BY <1>4 DEF PollerReturn
  <2>2. {f \in ready : Readable(fdtable[f])} \subseteq Fd
    BY DEF QueueT
  <2>3. n \in Nat
    BY <2>1, <2>2, RegisteredCard, Sizes
  <2>4. q \in [1 .. n -> Fd]
    BY <2>1, <2>2
  <2>5. a_mq_buf' \in Seq(Fd)
    BY <2>1, <2>3, <2>4, BufferSeq
  <2>6. pcP = "wait" /\ pcP' = "send" /\ UNCHANGED <<cur_open_files, maxev, pcL>>
    BY <1>4 DEF PollerReturn, listener
  <2> QED BY <2>5, <2>6
<1>5. CASE PollerSend
  BY <1>5 DEF PollerSend, listener
<1>6. ASSUME NEW w \in Worker, WorkerDel(w) PROVE PollerT'
  <2>1. CASE arg[w] \in registered
    <3>1. cur_open_files' = cur_open_files - 1 /\ UNCHANGED <<maxev, pcP, a_mq_buf, pcL>>
      BY <1>6, <2>1 DEF WorkerDel, poller, listener
    <3>2. cur_open_files # 0
      BY <2>1, RegisteredCard DEF ConnInv, CountsRegistered, SharedType
    <3> QED BY <3>1, <3>2, Sizes
  <2>2. CASE arg[w] \notin registered
    BY <1>6, <2>2 DEF WorkerDel, poller, listener
  <2> QED BY <2>1, <2>2
<1>7. CASE UNCHANGED <<poller, cur_open_files>> /\ (pcL' = "start" => pcL = "start")
  BY <1>7 DEF poller
<1>8. \/ MakeThreads \/ AddEfd \/ PollerCheck \/ PollerSpurious \/ PollerCall \/ PollerReturn
      \/ PollerSend \/ (\E w \in Worker : WorkerDel(w))
      \/ UNCHANGED <<poller, cur_open_files>> /\ (pcL' = "start" => pcL = "start")
  BY DEF Next, Clients, Connect, PeerSend, PeerClose, Listener, ListenerBind, Accept, AcceptFail,
         AddEfdOverflow, AddFdlist, Poller, Iosched, SchedRecv, SchedPush, Work, WorkerPop,
         WorkerArg, WorkerEnter, WorkerRecv, WorkerEof, WorkerDelArg, WorkerDelList, poller,
         listener
<1> QED BY <1>1, <1>2, <1>3, <1>4, <1>5, <1>6, <1>7, <1>8

LEMMA StepQueueT == ASSUME ConnInv, EvInv, Next PROVE QueueT'
<1>t. /\ ready \in SUBSET Fd /\ mq \in Seq(Seq(Fd)) /\ sbuf \in Seq(Fd)
      /\ evl \in [Worker -> Seq(Fd)] /\ a_mq_buf \in Seq(Fd)
      /\ registered \subseteq Fd /\ (pcL = "addEfd" => fd_client \in Fd)
  BY DEF EvInv, QueueT, PollerT, ConnInv, SharedType, InHand
<1>1. ASSUME NEW c \in Conn,
             PeerSend(c) \/ \E how \in {"fin", "rst"} : PeerClose(c, how)
      PROVE  QueueT'
  BY <1>1, <1>t DEF PeerSend, PeerClose, Edge, QueueT, scheduler
<1>2. CASE AddEfd
  BY <1>2, <1>t DEF AddEfd, QueueT, scheduler
<1>3. CASE PollerReturn
  <2>1. ready' \subseteq ready /\ UNCHANGED <<mq, sbuf, evl>>
    BY <1>3 DEF PollerReturn, scheduler
  <2> QED BY <1>t, <2>1 DEF QueueT
<1>4. CASE PollerSend
  <2>1. (mq' = mq \/ mq' = Append(mq, a_mq_buf)) /\ UNCHANGED <<ready, sbuf, evl>>
    BY <1>4 DEF PollerSend, scheduler, kernel
  <2>2. Append(mq, a_mq_buf) \in Seq(Seq(Fd))
    BY <1>t, Members
  <2> QED BY <1>t, <2>1, <2>2 DEF QueueT
<1>5. CASE SchedRecv
  <2>1. sbuf' = Head(mq) /\ mq' = Tail(mq) /\ mq # << >> /\ UNCHANGED <<ready, evl>>
    BY <1>5 DEF SchedRecv, kernel
  <2>2. Head(mq) \in Seq(Fd) /\ Tail(mq) \in Seq(Seq(Fd))
    BY <1>t, <2>1, Members
  <2> QED BY <1>t, <2>1, <2>2 DEF QueueT
<1>6. CASE SchedPush
  <2> DEFINE w == IF idx_rr = MAX_WORKER_THREAD THEN 0 ELSE idx_rr
  <2>0. w \in Worker
    BY DEF EvInv, Dealt, Worker
  <2>1. /\ evl' = [evl EXCEPT ![w] = Append(@, Head(sbuf))]
        /\ sbuf # << >> /\ sbuf' = Tail(sbuf) /\ UNCHANGED <<ready, mq>>
    BY <1>6 DEF SchedPush, kernel
  <2> HIDE DEF w
  <2>2. Head(sbuf) \in Fd /\ Tail(sbuf) \in Seq(Fd)
    BY <1>t, <2>1, Members
  <2>3. Append(evl[w], Head(sbuf)) \in Seq(Fd)
    BY <1>t, <2>0, <2>2, Members
  <2>4. evl' \in [Worker -> Seq(Fd)]
    BY <1>t, <2>1, <2>3
  <2> QED BY <1>t, <2>1, <2>2, <2>4 DEF QueueT
<1>7. ASSUME NEW w \in Worker, WorkerPop(w) PROVE QueueT'
  <2>1. evl' = [evl EXCEPT ![w] = Tail(@)] /\ evl[w] # << >> /\ UNCHANGED <<ready, mq, sbuf>>
    BY <1>7 DEF WorkerPop, kernel, scheduler
  <2>2. Tail(evl[w]) \in Seq(Fd)
    BY <1>t, <2>1, Members
  <2>3. evl' \in [Worker -> Seq(Fd)]
    BY <1>t, <2>1, <2>2
  <2> QED BY <1>t, <2>1, <2>3 DEF QueueT
<1>8. ASSUME NEW w \in Worker, WorkerDel(w) PROVE QueueT'
  BY <1>8, <1>t DEF WorkerDel, QueueT, scheduler
<1>9. CASE UNCHANGED <<ready, mq, sbuf, evl>>
  BY <1>9, <1>t DEF QueueT
<1>10. \/ \E c \in Conn : PeerSend(c) \/ \E how \in {"fin", "rst"} : PeerClose(c, how)
       \/ AddEfd \/ PollerReturn \/ PollerSend \/ SchedRecv \/ SchedPush
       \/ (\E w \in Worker : WorkerPop(w) \/ WorkerDel(w))
       \/ UNCHANGED <<ready, mq, sbuf, evl>>
  BY DEF Next, Clients, Connect, MakeThreads, Listener, ListenerBind, Accept, AcceptFail,
         AddEfdOverflow, AddFdlist, Poller, PollerCheck, PollerCall, PollerSpurious, Iosched,
         Work, WorkerArg, WorkerEnter, WorkerRecv, WorkerEof, WorkerDelArg, WorkerDelList,
         kernel, scheduler
<1> QED BY <1>1, <1>2, <1>3, <1>4, <1>5, <1>6, <1>7, <1>8, <1>9, <1>10

LEMMA StepSlotT == ASSUME ConnInv, EvInv, Next PROVE SlotT'
<1> USE DEF EvInv, SlotT
<1>1. CASE AddFdlist
  BY <1>1 DEF AddFdlist, ListenerT
<1>2. ASSUME NEW w \in Worker, WorkerDelList(w) PROVE SlotT'
  BY <1>2 DEF WorkerDelList
<1>3. CASE UNCHANGED fdlist
  BY <1>3
<1>4. AddFdlist \/ (\E w \in Worker : WorkerDelList(w)) \/ UNCHANGED fdlist
  BY DEF Next, Clients, Connect, PeerSend, PeerClose, MakeThreads, Listener, ListenerBind,
         Accept, AcceptFail, AddEfdOverflow, AddEfd, Poller, PollerCheck, PollerCall,
         PollerReturn, PollerSend, PollerSpurious, Iosched, SchedRecv, SchedPush, Work,
         WorkerPop, WorkerArg, WorkerEnter, WorkerRecv, WorkerEof, WorkerDelArg, WorkerDel
<1> QED BY <1>1, <1>2, <1>3, <1>4

LEMMA StepWorkerT == ASSUME ConnInv, EvInv, Next PROVE WorkerT'
<1>t. WorkerT /\ SlotT /\ evl \in [Worker -> Seq(Fd)] /\ fdtable \in [Fd -> Conn \union {NoConn}]
  BY DEF EvInv, QueueT, ConnInv, SharedType
<1>1. ASSUME NEW w \in Worker, WorkerPop(w) PROVE WorkerT'
  <2>1. /\ evl[w] # << >> /\ pcW[w] = "idle" /\ pcW' = [pcW EXCEPT ![w] = "arg"]
        /\ ev' = [ev EXCEPT ![w] = Head(evl[w])] /\ UNCHANGED <<arg, wconn>>
        /\ contested' \subseteq contested \union {Head(evl[w])}
    BY <1>1 DEF WorkerPop, WGoto
  <2>2. Head(evl[w]) \in Fd
    BY <1>t, <2>1, Members
  <2> QED BY <1>t, <2>1, <2>2 DEF WorkerT
<1>2. ASSUME NEW w \in Worker, WorkerArg(w) \/ WorkerDelArg(w) PROVE WorkerT'
  <2>1. /\ pcW[w] # "idle" /\ UNCHANGED <<ev, wconn, contested>>
        /\ pcW' = [pcW EXCEPT ![w] = "enter"] \/ pcW' = [pcW EXCEPT ![w] = "del"]
        /\ arg' = [arg EXCEPT ![w] = fdlist[ev[w]]]
    BY <1>2, <1>t DEF WorkerArg, WorkerDelArg, WGoto, WorkerT
  <2>2. fdlist[ev[w]] \in {ev[w], 0, -1} /\ ev[w] \in Fd
    BY <1>t, <2>1 DEF WorkerT, SlotT
  <2>3. arg'[w] \in {ev'[w], 0, -1} /\ arg' \in [Worker -> Fd \union {0, -1}]
    BY <1>t, <2>1, <2>2 DEF WorkerT
  <2>4. \A v \in Worker : v # w => pcW'[v] = pcW[v] /\ arg'[v] = arg[v]
    BY <1>t, <2>1 DEF WorkerT
  <2>5. pcW'[w] \in {"enter", "del"} 
        /\ pcW' \in [Worker -> {"idle", "arg", "enter", "recv", "delArg", "del", "delList"}]
    BY <1>t, <2>1 DEF WorkerT
  <2>6. \A v \in Worker : pcW'[v] # "idle" => ev'[v] \in Fd
    BY <1>t, <2>1, <2>2, <2>4 DEF WorkerT
  <2>7. \A v \in Worker : pcW'[v] \in {"enter", "recv", "del"} => arg'[v] \in {ev'[v], 0, -1}
    BY <1>t, <2>1, <2>3, <2>4 DEF WorkerT
  <2>8. \A v \in Worker : pcW'[v] = "recv" => wconn'[v] \in Conn
    BY <1>t, <2>1, <2>4, <2>5 DEF WorkerT
  <2> QED BY <1>t, <2>1, <2>3, <2>5, <2>6, <2>7, <2>8 DEF WorkerT
<1>3. ASSUME NEW w \in Worker, WorkerEnter(w) PROVE WorkerT'
  <2>1. CASE arg[w] \in Fd /\ fdtable[arg[w]] # NoConn
    <3>1. /\ pcW[w] = "enter" /\ pcW' = [pcW EXCEPT ![w] = "recv"]
          /\ wconn' = [wconn EXCEPT ![w] = fdtable[arg[w]]] /\ UNCHANGED <<ev, arg, contested>>
      BY <1>3, <2>1 DEF WorkerEnter, WGoto
    <3>2. fdtable[arg[w]] \in Conn
      BY <1>t, <2>1
    <3> QED BY <1>t, <3>1, <3>2 DEF WorkerT
  <2>2. CASE ~(arg[w] \in Fd /\ fdtable[arg[w]] # NoConn)
    <3>1. /\ pcW[w] = "enter" /\ pcW' = [pcW EXCEPT ![w] = "idle"] /\ UNCHANGED <<wconn, contested>>
          /\ ev' = [ev EXCEPT ![w] = 0] /\ arg' = [arg EXCEPT ![w] = 0]
      BY <1>3, <2>2 DEF WorkerEnter, WGoto
    <3> QED BY <1>t, <3>1 DEF WorkerT
  <2> QED BY <2>1, <2>2
<1>4. ASSUME NEW w \in Worker, WorkerRecv(w) PROVE WorkerT'
  <2>1. /\ pcW' = [pcW EXCEPT ![w] = "idle"] /\ wconn' = [wconn EXCEPT ![w] = NoConn]
        /\ ev' = [ev EXCEPT ![w] = 0] /\ arg' = [arg EXCEPT ![w] = 0] /\ UNCHANGED contested
    BY <1>4 DEF WorkerRecv, WGoto
  <2> QED BY <1>t, <2>1 DEF WorkerT
<1>5. ASSUME NEW w \in Worker, WorkerEof(w) PROVE WorkerT'
  <2>1. /\ pcW[w] = "recv" /\ pcW' = [pcW EXCEPT ![w] = "delArg"]
        /\ contested' \subseteq contested \union {ev[w]} /\ UNCHANGED <<ev, arg, wconn>>
    BY <1>5 DEF WorkerEof, WGoto
  <2> QED BY <1>t, <2>1 DEF WorkerT
<1>6. ASSUME NEW w \in Worker, WorkerDel(w) PROVE WorkerT'
  <2>1. /\ pcW[w] = "del" /\ pcW' = [pcW EXCEPT ![w] = "delList"]
        /\ UNCHANGED <<ev, arg, wconn, contested>>
    BY <1>6 DEF WorkerDel, WGoto
  <2> QED BY <1>t, <2>1 DEF WorkerT
<1>7. ASSUME NEW w \in Worker, WorkerDelList(w) PROVE WorkerT'
  <2>1. /\ pcW' = [pcW EXCEPT ![w] = "idle"] /\ wconn' = [wconn EXCEPT ![w] = NoConn]
        /\ ev' = [ev EXCEPT ![w] = 0] /\ arg' = [arg EXCEPT ![w] = 0] /\ UNCHANGED contested
    BY <1>7 DEF WorkerDelList, WGoto
  <2> QED BY <1>t, <2>1 DEF WorkerT
<1>8. CASE UNCHANGED workers
  BY <1>8, <1>t DEF workers, WorkerT
<1>9. (\E w \in Worker : Work(w)) \/ UNCHANGED workers
  BY DEF Next, Clients, Connect, PeerSend, PeerClose, MakeThreads, Listener, ListenerBind,
         Accept, AcceptFail, AddEfdOverflow, AddEfd, AddFdlist, Poller, PollerCheck, PollerCall,
         PollerReturn, PollerSend, PollerSpurious, Iosched, SchedRecv, SchedPush
<1> QED BY <1>1, <1>2, <1>3, <1>4, <1>5, <1>6, <1>7, <1>8, <1>9 DEF Work

LEMMA StepDealt == ASSUME ConnInv, EvInv, Next PROVE Dealt'
<1>t. Dealt
  BY DEF EvInv
<1>1. CASE SchedPush
  <2> DEFINE w == IF idx_rr = MAX_WORKER_THREAD THEN 0 ELSE idx_rr
  <2>1. /\ npush[w] < MAX_EVENT_QUEUE /\ npush' = [npush EXCEPT ![w] = @ + 1]
        /\ idx_rr' = w + 1
    BY <1>1 DEF SchedPush
  <2>2. w \in Worker /\ w + 1 \in 0 .. MAX_WORKER_THREAD
    BY <1>t DEF Dealt, Worker
  <2>3. \A u, v \in Worker : npush[u] = npush[v] + (IF u < w THEN 1 ELSE 0)
                                                 - (IF v < w THEN 1 ELSE 0)
    <3>1. CASE idx_rr = MAX_WORKER_THREAD
      <4>1. \A x \in Worker : x \in Int /\ x < idx_rr /\ ~(x < 0)
        BY <3>1 DEF Worker
      <4>2. \A u, v \in Worker : npush[u] = npush[v]
        <5>1. \A x \in Worker : npush[x] \in Int
          BY <1>t DEF Dealt
        <5> QED BY <1>t, <4>1, <5>1 DEF Dealt
      <4>3. \A x \in Worker : npush[x] \in Int
        BY <1>t DEF Dealt
      <4> QED BY <3>1, <4>1, <4>2, <4>3
    <3>2. CASE idx_rr # MAX_WORKER_THREAD
      BY <1>t, <3>2 DEF Dealt
    <3> QED BY <3>1, <3>2
  <2> HIDE DEF w
  <2>4. npush' \in [Worker -> 0 .. MAX_EVENT_QUEUE]
    BY <1>t, <2>1, <2>2 DEF Dealt
  <2>5. ASSUME NEW u \in Worker, NEW v \in Worker
        PROVE  npush'[u] = npush'[v] + (IF u < w + 1 THEN 1 ELSE 0)
                                     - (IF v < w + 1 THEN 1 ELSE 0)
    <3>1. \A x \in Worker : npush'[x] = npush[x] + (IF x = w THEN 1 ELSE 0) /\ npush[x] \in Int
      BY <1>t, <2>1, <2>2 DEF Dealt
    <3>2. \A x \in Worker : x < w + 1 <=> x < w \/ x = w
      BY <2>2 DEF Worker
    <3>3. ~(w < w)
      BY <2>2 DEF Worker
    <3> QED BY <2>3, <3>1, <3>2, <3>3
  <2> QED BY <2>1, <2>2, <2>4, <2>5 DEF Dealt
<1>2. CASE UNCHANGED <<npush, idx_rr>>
  BY <1>2, <1>t DEF Dealt
<1>3. SchedPush \/ UNCHANGED <<npush, idx_rr>>
  BY DEF Next, Clients, Connect, PeerSend, PeerClose, MakeThreads, Listener, ListenerBind,
         Accept, AcceptFail, AddEfdOverflow, AddEfd, AddFdlist, Poller, PollerCheck, PollerCall,
         PollerReturn, PollerSend, PollerSpurious, Iosched, SchedRecv, Work, WorkerPop,
         WorkerArg, WorkerEnter, WorkerRecv, WorkerEof, WorkerDelArg, WorkerDel, WorkerDelList,
         scheduler
<1> QED BY <1>1, <1>2, <1>3

LEMMA StepOutcomeT == ASSUME ConnInv, EvInv, Next PROVE OutcomeT'
<1>t. OutcomeT
  BY DEF EvInv
<1>1. exited' \in {"no", "addOverflow", "einval", "delFailed", "overrun", "segv"}
  BY <1>t DEF OutcomeT, Next, Clients, Connect, PeerSend, PeerClose, MakeThreads, Listener,
         ListenerBind, Accept, AcceptFail, AddEfdOverflow, AddEfd, AddFdlist, Poller,
         PollerCheck, PollerCall, PollerReturn, PollerSend, PollerSpurious, Iosched, SchedRecv,
         SchedPush, Work, WorkerPop, WorkerArg, WorkerEnter, WorkerRecv, WorkerEof,
         WorkerDelArg, WorkerDel, WorkerDelList
<1>2. lost' \in SUBSET Conn
  <2>1. fdtable \in [Fd -> Conn \union {NoConn}] /\ a_mq_buf \in Seq(Fd) /\ WorkerT
    BY DEF EvInv, PollerT, ConnInv, SharedType
  <2>2. \A f \in Fd : Behind(f) \subseteq Conn
    BY <2>1 DEF Behind
  <2>3. CASE PollerSend
    <3>1. ToSet(a_mq_buf) \subseteq Fd
      BY <2>1, Members
    <3>2. lost' = lost \/ lost' = lost \union UNION {Behind(f) : f \in ToSet(a_mq_buf)}
      BY <2>3 DEF PollerSend
    <3> QED BY <1>t, <2>2, <3>1, <3>2 DEF OutcomeT
  <2>4. ASSUME NEW w \in Worker, WorkerEnter(w) PROVE lost' \in SUBSET Conn
    <3>1. pcW[w] = "enter" /\ (lost' = lost \/ lost' = lost \union Behind(ev[w]))
      BY <2>4 DEF WorkerEnter
    <3>2. ev[w] \in Fd
      BY <2>1, <3>1 DEF WorkerT
    <3> QED BY <1>t, <2>2, <3>1, <3>2 DEF OutcomeT
  <2>5. PollerSend \/ (\E w \in Worker : WorkerEnter(w)) \/ UNCHANGED lost
    BY DEF Next, Clients, Connect, PeerSend, PeerClose, MakeThreads, Listener, ListenerBind,
         Accept, AcceptFail, AddEfdOverflow, AddEfd, AddFdlist, Poller, PollerCheck, PollerCall,
         PollerReturn, PollerSpurious, Iosched, SchedRecv, SchedPush, Work, WorkerPop,
         WorkerArg, WorkerRecv, WorkerEof, WorkerDelArg, WorkerDel, WorkerDelList
  <2> QED BY <1>t, <2>3, <2>4, <2>5 DEF OutcomeT
<1> QED BY <1>1, <1>2 DEF OutcomeT

-----------------------------------------------------------------------------
\* A step that registers nothing and brings no data keeps DataHasEvent, if every event
\* that still matters stays on its way or its client is counted as lost.
LEMMA EventsMove ==
  ASSUME EvInv, Running, registered' \subseteq registered, lost \subseteq lost',
         \A f \in registered' : fdtable'[f] = fdtable[f],
         \A f \in registered : rx'[fdtable[f]] > 0 => rx[fdtable[f]] > 0,
         \A f \in registered' : \A c : c = fdtable[f] /\ rx'[c] > 0 /\ InFlight(f, c)
                                     => InFlight(f, c)' \/ c \in lost'
  PROVE  DataHasEvent'
<1> SUFFICES ASSUME MaxSend <= MAX_CLIENT_BUF, NEW f \in registered', rx'[fdtable'[f]] > 0
             PROVE  InFlight(f, fdtable[f])' \/ fdtable'[f] \in lost'
  BY DEF DataHasEvent
<1>1. PICK c : c = fdtable[f]
  OBVIOUS
<1>2. f \in registered /\ fdtable'[f] = c /\ rx'[c] > 0 /\ rx[c] > 0
  BY <1>1
<1>3. InFlight(f, c) \/ c \in lost
  BY <1>1, <1>2 DEF EvInv, DataHasEvent
<1>4. InFlight(f, c)' \/ c \in lost'
  BY <1>1, <1>2, <1>3
<1> QED BY <1>2, <1>4 DEF InFlight

\* Nothing moves between the places where an event can be.
LEMMA EventsStay ==
  ASSUME EvInv, Running, registered' \subseteq registered, lost \subseteq lost',
         \A f \in registered' : fdtable'[f] = fdtable[f],
         \A f \in registered : rx'[fdtable[f]] > 0 => rx[fdtable[f]] > 0,
         \A f \in registered' : f \in ready => f \in ready',
         UNCHANGED <<a_mq_buf, sbuf, mq, evl, pcW, ev, wconn>>
  PROVE  DataHasEvent'
<1>1. \A f \in registered' : \A c : InFlight(f, c) => InFlight(f, c)'
  BY DEF InFlight
<1> QED BY <1>1, EventsMove

\* A registered descriptor has a client behind it.
LEMMA RegisteredConn == ASSUME ConnInv PROVE \A f \in registered : fdtable[f] \in Conn
<1>1. \A f \in registered : f \in Fd /\ fdtable[f] # NoConn
  BY DEF ConnInv, CountsRegistered, Open
<1> QED BY <1>1 DEF ConnInv, SharedType

LEMMA ClientEvents ==
  ASSUME ConnInv, EvInv, NEW c \in Conn,
         \/ Connect(c) \/ PeerSend(c)
         \/ \E how \in {"fin", "rst"} : PeerClose(c, how)
  PROVE  DataHasEvent'
<1>t. ClientT /\ registered \subseteq Fd /\ WorkerT
  BY DEF EvInv, ConnInv, SharedType
<1>0. /\ Running
      /\ UNCHANGED <<registered, fdtable, a_mq_buf, sbuf, mq, evl, pcW, ev, wconn, lost>>
  BY DEF Connect, PeerSend, PeerClose, poller, scheduler, workers
<1>1. CASE Connect(c)
  <2>1. UNCHANGED <<rx, ready>>
    BY <1>1 DEF Connect
  <2> QED BY <1>0, <2>1, EventsStay
<1>2. CASE PeerSend(c) \/ \E how \in {"fin", "rst"} : PeerClose(c, how)
  <2>1. ready' = ready \union {f \in registered : fdtable[f] = c}
    BY <1>2 DEF PeerSend, PeerClose, Edge
  <2>2. \A d \in Conn : d # c => rx'[d] = rx[d]
    <3>1. PICK v : rx' = [rx EXCEPT ![c] = v]
      BY <1>2 DEF PeerSend, PeerClose
    <3> QED BY <1>t, <3>1 DEF ClientT
  <2>3. \A f, d : InFlight(f, d) => InFlight(f, d)'
    BY <1>0, <2>1 DEF InFlight
  <2>4. \A f \in registered : \A d : fdtable[f] = c => InFlight(f, d)'
    BY <1>0, <2>1 DEF InFlight
  <2> SUFFICES ASSUME MaxSend <= MAX_CLIENT_BUF, NEW f \in registered, rx'[fdtable[f]] > 0
               PROVE  InFlight(f, fdtable[f])' \/ fdtable[f] \in lost
    BY <1>0 DEF DataHasEvent
  <2>5. PICK d : d = fdtable[f]
    OBVIOUS
  <2>6. InFlight(f, d)' \/ d \in lost
    <3>1. CASE d = c
      BY <2>4, <2>5, <3>1
    <3>2. CASE d # c
      <4>1. rx[d] > 0
        BY <2>2, <2>5, <3>2, RegisteredConn
      <4>2. InFlight(f, d) \/ d \in lost
        BY <1>0, <2>5, <4>1 DEF EvInv, DataHasEvent
      <4> QED BY <2>3, <4>2
    <3> QED BY <3>1, <3>2
  <2> QED BY <1>0, <2>5, <2>6 DEF InFlight
<1> QED BY <1>1, <1>2

LEMMA ListenerEvents ==
  ASSUME ConnInv, EvInv, MakeThreads \/ Listener
  PROVE  DataHasEvent'
<1>1. CASE MakeThreads \/ ListenerBind \/ AcceptFail \/ AddEfdOverflow \/ AddFdlist
  <2>1. /\ Running
        /\ UNCHANGED <<registered, fdtable, a_mq_buf, sbuf, mq, evl, pcW, ev, wconn, lost, rx,
                       ready>>
    BY <1>1 DEF MakeThreads, ListenerBind, AcceptFail, AddEfdOverflow, AddFdlist, poller,
                scheduler, workers, kernel, client
  <2> QED BY <2>1, EventsStay
<1>2. CASE Accept
  <2>1. /\ Running
        /\ UNCHANGED <<registered, a_mq_buf, sbuf, mq, evl, pcW, ev, wconn, lost, rx, ready>>
    BY <1>2 DEF Accept, poller, scheduler, workers
  <2>2. PICK f \in FreeFd : fdtable' = [fdtable EXCEPT ![f] = Head(backlog)]
    BY <1>2 DEF Accept
  <2>3. f \notin registered
    BY DEF ConnInv, CountsRegistered, FreeFd, Open
  <2>4. \A g \in registered : fdtable'[g] = fdtable[g]
    BY <2>2, <2>3 DEF ConnInv, SharedType
  <2> QED BY <2>1, <2>4, EventsStay
<1>3. CASE AddEfd
  <2>1. /\ Running /\ registered' = registered \union {fd_client}
        /\ ready' = IF Readable(fdtable[fd_client]) THEN ready \union {fd_client} ELSE ready
        /\ UNCHANGED <<fdtable, a_mq_buf, sbuf, mq, evl, pcW, ev, wconn, lost, rx>>
    BY <1>3 DEF AddEfd, scheduler, workers, client
  <2>2. \A f, d : InFlight(f, d) => InFlight(f, d)'
    BY <2>1 DEF InFlight
  <2> SUFFICES ASSUME MaxSend <= MAX_CLIENT_BUF, NEW f \in registered', rx[fdtable[f]] > 0
               PROVE  InFlight(f, fdtable[f])' \/ fdtable[f] \in lost
    BY <2>1 DEF DataHasEvent
  <2>3. PICK d : d = fdtable[f]
    OBVIOUS
  <2>4. InFlight(f, d)' \/ d \in lost
    <3>1. CASE f = fd_client
      <4>1. f \in ready'
        BY <2>1, <3>1 DEF Readable
      <4> QED BY <4>1 DEF InFlight
    <3>2. CASE f \in registered
      <4>1. InFlight(f, d) \/ d \in lost
        BY <2>1, <2>3, <3>2 DEF EvInv, DataHasEvent
      <4> QED BY <2>2, <4>1
    <3> QED BY <2>1, <3>1, <3>2
  <2> QED BY <2>1, <2>3, <2>4 DEF InFlight
<1> QED BY <1>1, <1>2, <1>3 DEF Listener

LEMMA PollerEvents ==
  ASSUME ConnInv, EvInv, Poller \/ PollerSpurious
  PROVE  DataHasEvent'
<1>t. /\ a_mq_buf \in Seq(Fd) /\ mq \in Seq(Seq(Fd)) /\ ready \subseteq Fd
      /\ pcP # "send" => a_mq_buf = << >>
  BY DEF EvInv, PollerT, QueueT
<1>1. CASE PollerCheck \/ PollerSpurious \/ PollerCall
  <2>1. /\ Running
        /\ UNCHANGED <<registered, fdtable, a_mq_buf, sbuf, mq, evl, pcW, ev, wconn, lost, rx,
                       ready>>
    BY <1>1 DEF PollerCheck, PollerSpurious, PollerCall, scheduler, workers, kernel, client
  <2> QED BY <2>1, EventsStay
<1>2. CASE PollerReturn
  <2>1. /\ Running /\ pcP = "wait"
        /\ ready' = {f \in ready : Readable(fdtable[f])} \ ToSet(a_mq_buf')
        /\ UNCHANGED <<registered, fdtable, sbuf, mq, evl, pcW, ev, wconn, lost, rx>>
    BY <1>2 DEF PollerReturn, scheduler, workers, client
  <2>2. ToSet(a_mq_buf) = {}
    BY <1>t, <2>1 DEF ToSet
  <2>3. ASSUME NEW f \in registered, NEW c, c = fdtable[f], rx[c] > 0, InFlight(f, c)
        PROVE  InFlight(f, c)'
    <3>1. f \in ready => f \in ready' \/ f \in ToSet(a_mq_buf')
      BY <2>1, <2>3 DEF Readable
    <3>2. CASE f \in ready
      BY <3>1, <3>2 DEF InFlight
    <3>3. CASE f \notin ready
      BY <2>1, <2>2, <2>3, <3>3 DEF InFlight
    <3> QED BY <3>2, <3>3
  <2> QED BY <2>1, <2>3, EventsMove
<1>3. CASE PollerSend
  <2>1. /\ Running /\ a_mq_buf' = << >>
        /\ UNCHANGED <<registered, fdtable, sbuf, evl, pcW, ev, wconn, rx, ready>>
    BY <1>3 DEF PollerSend, scheduler, workers, client, kernel
  <2>2. \/ mq' = Append(mq, a_mq_buf) /\ lost' = lost
        \/ mq' = mq /\ lost' = lost \union UNION {Behind(f) : f \in ToSet(a_mq_buf)}
    BY <1>3 DEF PollerSend
  <2>3. ToSet(Append(mq, a_mq_buf)) = ToSet(mq) \union {a_mq_buf}
    BY <1>t, Members
  <2>4. ASSUME NEW f \in registered, NEW c, c = fdtable[f], InFlight(f, c)
        PROVE  InFlight(f, c)' \/ c \in lost'
    <3>1. c # NoConn
      BY <2>4 DEF ConnInv, CountsRegistered, Open
    <3>2. CASE f \in ToSet(a_mq_buf)
      <4>1. CASE mq' = Append(mq, a_mq_buf)
        <5>1. \E m \in ToSet(mq') : f \in ToSet(m)
          BY <2>3, <3>2, <4>1
        <5> QED BY <5>1 DEF InFlight
      <4>2. CASE lost' = lost \union UNION {Behind(g) : g \in ToSet(a_mq_buf)}
        <5>1. c \in Behind(f)
          BY <2>4, <3>1 DEF Behind
        <5> QED BY <3>2, <4>2, <5>1
      <4> QED BY <2>2, <4>1, <4>2
    <3>3. CASE f \notin ToSet(a_mq_buf)
      <4>1. ToSet(mq) \subseteq ToSet(mq')
        BY <2>2, <2>3
      <4> QED BY <2>1, <2>4, <3>3, <4>1 DEF InFlight
    <3> QED BY <3>2, <3>3
  <2>5. lost \subseteq lost'
    BY <2>2
  <2> QED BY <2>1, <2>4, <2>5, EventsMove
<1> QED BY <1>1, <1>2, <1>3 DEF Poller

LEMMA SchedulerEvents ==
  ASSUME ConnInv, EvInv, Iosched
  PROVE  DataHasEvent'
<1>t. /\ mq \in Seq(Seq(Fd)) /\ sbuf \in Seq(Fd) /\ evl \in [Worker -> Seq(Fd)]
  BY DEF EvInv, QueueT
<1>0. /\ Running
      /\ UNCHANGED <<registered, fdtable, a_mq_buf, pcW, ev, wconn, lost, rx, ready>>
  BY DEF Iosched, SchedRecv, SchedPush, poller, workers, client, kernel
<1>1. CASE SchedRecv
  <2>1. sbuf = << >> /\ mq # << >> /\ sbuf' = Head(mq) /\ mq' = Tail(mq) /\ evl' = evl
    BY <1>1 DEF SchedRecv
  <2>2. ToSet(mq) = {sbuf'} \union ToSet(mq')
    BY <1>t, <2>1, Members
  <2>3. ToSet(sbuf) = {}
    BY <2>1 DEF ToSet
  <2>4. \A f, c : InFlight(f, c) => InFlight(f, c)'
    BY <1>0, <2>1, <2>2, <2>3 DEF InFlight
  <2> QED BY <1>0, <2>4, EventsMove
<1>2. CASE SchedPush
  <2> DEFINE w == IF idx_rr = MAX_WORKER_THREAD THEN 0 ELSE idx_rr
  <2>0. w \in Worker
    BY DEF EvInv, Dealt, Worker
  <2>1. /\ sbuf # << >> /\ sbuf' = Tail(sbuf) /\ mq' = mq
        /\ evl' = [evl EXCEPT ![w] = Append(@, Head(sbuf))]
    BY <1>2 DEF SchedPush
  <2> HIDE DEF w
  <2>2. Head(sbuf) \in Fd /\ ToSet(sbuf) = {Head(sbuf)} \union ToSet(sbuf')
    BY <1>t, <2>1, Members
  <2>3. ToSet(evl'[w]) = ToSet(evl[w]) \union {Head(sbuf)}
    BY <1>t, <2>0, <2>1, <2>2, Members
  <2>4. \A v \in Worker : ToSet(evl[v]) \subseteq ToSet(evl'[v])
    BY <1>t, <2>0, <2>1, <2>3
  <2>5. ASSUME NEW f, NEW c, InFlight(f, c) PROVE InFlight(f, c)'
    <3>1. CASE f = Head(sbuf)
      BY <2>0, <2>3, <3>1 DEF InFlight
    <3>2. CASE f # Head(sbuf)
      BY <1>0, <2>1, <2>2, <2>4, <2>5, <3>2 DEF InFlight
    <3> QED BY <3>1, <3>2
  <2> QED BY <1>0, <2>5, EventsMove
<1> QED BY <1>1, <1>2 DEF Iosched

LEMMA WorkerEvents ==
  ASSUME ConnInv, EvInv, NEW w \in Worker, Work(w)
  PROVE  DataHasEvent'
<1>t. /\ WorkerT /\ ClientT /\ evl \in [Worker -> Seq(Fd)]
      /\ fdtable \in [Fd -> Conn \union {NoConn}] /\ registered \subseteq Fd
  BY DEF EvInv, QueueT, ConnInv, SharedType
<1>0. Running /\ UNCHANGED <<a_mq_buf, sbuf, mq>>
  BY DEF Work, WorkerPop, WorkerArg, WorkerEnter, WorkerRecv, WorkerEof, WorkerDelArg,
         WorkerDel, WorkerDelList, poller, scheduler
<1>1. CASE WorkerPop(w)
  <2>1. /\ evl[w] # << >> /\ pcW[w] = "idle" /\ pcW' = [pcW EXCEPT ![w] = "arg"]
        /\ ev' = [ev EXCEPT ![w] = Head(evl[w])]
        /\ evl' = [evl EXCEPT ![w] = Tail(@)]
        /\ UNCHANGED <<registered, fdtable, wconn, lost, rx, ready>>
    BY <1>1 DEF WorkerPop, WGoto, client, kernel
  <2>2. ToSet(evl[w]) = {Head(evl[w])} \union ToSet(Tail(evl[w]))
    BY <1>t, <2>1, Members
  <2>3. pcW'[w] = "arg" /\ ev'[w] = Head(evl[w]) /\ evl'[w] = Tail(evl[w])
    BY <1>t, <2>1 DEF WorkerT
  <2>4. \A v \in Worker : v # w => pcW'[v] = pcW[v] /\ ev'[v] = ev[v] /\ evl'[v] = evl[v]
    BY <1>t, <2>1 DEF WorkerT
  <2>5. \A f, c : InFlight(f, c) => InFlight(f, c)'
    BY <1>0, <2>1, <2>2, <2>3, <2>4 DEF InFlight
  <2> QED BY <1>0, <2>1, <2>5, EventsMove
<1>2. CASE WorkerArg(w)
  <2>1. /\ pcW[w] = "arg" /\ pcW' = [pcW EXCEPT ![w] = "enter"]
        /\ UNCHANGED <<registered, fdtable, wconn, ev, evl, lost, rx, ready>>
    BY <1>2 DEF WorkerArg, WGoto, client, kernel
  <2>2. pcW'[w] = "enter" /\ \A v \in Worker : v # w => pcW'[v] = pcW[v]
    BY <1>t, <2>1 DEF WorkerT
  <2>3. \A f, c : InFlight(f, c) => InFlight(f, c)'
    BY <1>0, <2>1, <2>2 DEF InFlight
  <2> QED BY <1>0, <2>1, <2>3, EventsMove
<1>3. CASE WorkerEnter(w)
  <2>1. /\ pcW[w] = "enter" /\ ev[w] \in Fd /\ arg[w] \in {ev[w], 0, -1}
        /\ UNCHANGED <<registered, fdtable, evl, rx, ready>>
    BY <1>3, <1>t DEF WorkerEnter, WorkerT, client, kernel
  <2>2. CASE arg[w] \in Fd /\ fdtable[arg[w]] # NoConn
    <3>1. /\ arg[w] = ev[w] /\ pcW' = [pcW EXCEPT ![w] = "recv"]
          /\ wconn' = [wconn EXCEPT ![w] = fdtable[ev[w]]] /\ UNCHANGED <<ev, lost>>
      BY <1>3, <2>1, <2>2, Sizes DEF WorkerEnter, WGoto
    <3>2. /\ pcW'[w] = "recv" /\ wconn'[w] = fdtable[ev[w]]
          /\ \A v \in Worker : v # w => pcW'[v] = pcW[v] /\ wconn'[v] = wconn[v]
      BY <1>t, <3>1 DEF WorkerT
    <3>3. ASSUME NEW f \in registered, NEW c, c = fdtable[f], InFlight(f, c)
          PROVE  InFlight(f, c)'
      <4>1. CASE f = ev[w]
        BY <3>2, <3>3, <4>1 DEF InFlight
      <4>2. CASE f # ev[w]
        BY <1>0, <2>1, <3>1, <3>2, <3>3, <4>2 DEF InFlight
      <4> QED BY <4>1, <4>2
    <3> QED BY <1>0, <2>1, <3>1, <3>3, EventsMove
  <2>3. CASE ~(arg[w] \in Fd /\ fdtable[arg[w]] # NoConn)
    <3>1. /\ pcW' = [pcW EXCEPT ![w] = "idle"] /\ lost' = lost \union Behind(ev[w])
          /\ ev' = [ev EXCEPT ![w] = 0] /\ wconn' = wconn
      BY <1>3, <2>3 DEF WorkerEnter, WGoto
    <3>2. \A v \in Worker : v # w => pcW'[v] = pcW[v] /\ ev'[v] = ev[v]
      BY <1>t, <3>1 DEF WorkerT
    <3>3. ASSUME NEW f \in registered, NEW c, c = fdtable[f], InFlight(f, c)
          PROVE  InFlight(f, c)' \/ c \in lost'
      <4>1. CASE f = ev[w]
        <5>1. c # NoConn
          BY <3>3 DEF ConnInv, CountsRegistered, Open
        <5> QED BY <3>1, <3>3, <4>1, <5>1 DEF Behind
      <4>2. CASE f # ev[w]
        BY <1>0, <2>1, <3>1, <3>2, <3>3, <4>2 DEF InFlight
      <4> QED BY <4>1, <4>2
    <3> QED BY <1>0, <2>1, <3>1, <3>3, EventsMove
  <2> QED BY <2>2, <2>3
<1>4. CASE WorkerRecv(w) \/ WorkerEof(w)
  <2>1. PICK c : c = wconn[w]
    OBVIOUS
  <2>2. pcW[w] = "recv" /\ c \in Conn
    BY <1>4, <1>t, <2>1 DEF WorkerRecv, WorkerEof, WGoto, WorkerT
  <2>3. /\ pcW' = [pcW EXCEPT ![w] = "idle"] \/ pcW' = [pcW EXCEPT ![w] = "delArg"]
        /\ wconn' = [wconn EXCEPT ![w] = NoConn] \/ wconn' = wconn
        /\ ev' = [ev EXCEPT ![w] = 0] \/ ev' = ev
        /\ UNCHANGED <<registered, fdtable, evl, lost, ready>>
    BY <1>4 DEF WorkerRecv, WorkerEof, WGoto, client, kernel
  <2>4. ASSUME MaxSend <= MAX_CLIENT_BUF
        PROVE  rx'[c] = 0 /\ \A d \in Conn : d # c => rx'[d] = rx[d]
    <3>1. rx[c] \in Nat /\ ~(rx[c] > MAX_CLIENT_BUF)
      BY <1>t, <2>2, <2>4 DEF ClientT
    <3>2. CASE WorkerRecv(w)
      <4>1. \/ rx' = [rx EXCEPT ![c] = IF @ > MAX_CLIENT_BUF THEN @ - MAX_CLIENT_BUF ELSE 0]
            \/ rx[c] = 0 /\ rx' = rx
        BY <2>1, <3>2 DEF WorkerRecv
      <4>2. \/ rx' = [rx EXCEPT ![c] = 0]
            \/ rx[c] = 0 /\ rx' = rx
        BY <3>1, <4>1
      <4> QED BY <1>t, <2>2, <4>2 DEF ClientT
    <3>3. CASE WorkerEof(w)
      BY <2>1, <3>3 DEF WorkerEof, client
    <3> QED BY <1>4, <3>2, <3>3
  <2>5. \A v \in Worker : v # w => pcW'[v] = pcW[v] /\ wconn'[v] = wconn[v] /\ ev'[v] = ev[v]
    BY <1>t, <2>3 DEF WorkerT
  <2>6. ASSUME NEW f, NEW d, d # c, InFlight(f, d) PROVE InFlight(f, d)'
    BY <1>0, <2>1, <2>2, <2>3, <2>5, <2>6 DEF InFlight
  <2>7. CASE MaxSend <= MAX_CLIENT_BUF
    <3>1. \A f \in registered : rx'[fdtable[f]] > 0 => rx[fdtable[f]] > 0
      BY <2>4, <2>7, RegisteredConn
    <3>2. \A f \in registered : \A d : d = fdtable[f] /\ rx'[d] > 0 /\ InFlight(f, d)
                                     => InFlight(f, d)'
      BY <2>4, <2>6, <2>7, RegisteredConn
    <3> QED BY <1>0, <2>3, <3>1, <3>2, EventsMove
  <2>8. CASE ~(MaxSend <= MAX_CLIENT_BUF)
    BY <2>8 DEF DataHasEvent
  <2> QED BY <2>7, <2>8
<1>5. CASE WorkerDelArg(w) \/ WorkerDelList(w)
  <2>1. /\ pcW[w] \in {"delArg", "delList"}
        /\ pcW' = [pcW EXCEPT ![w] = "del"] \/ pcW' = [pcW EXCEPT ![w] = "idle"]
        /\ ev' = [ev EXCEPT ![w] = 0] \/ ev' = ev
        /\ wconn' = [wconn EXCEPT ![w] = NoConn] \/ wconn' = wconn
        /\ UNCHANGED <<registered, fdtable, evl, lost, rx, ready>>
    BY <1>5 DEF WorkerDelArg, WorkerDelList, WGoto, client, kernel
  <2>2. \A v \in Worker : v # w => pcW'[v] = pcW[v] /\ ev'[v] = ev[v] /\ wconn'[v] = wconn[v]
    BY <1>t, <2>1 DEF WorkerT
  <2>3. \A f, c : InFlight(f, c) => InFlight(f, c)'
    BY <1>0, <2>1, <2>2 DEF InFlight
  <2> QED BY <1>0, <2>1, <2>3, EventsMove
<1>6. CASE WorkerDel(w)
  <2>1. /\ pcW[w] = "del" /\ pcW' = [pcW EXCEPT ![w] = "delList"]
        /\ UNCHANGED <<wconn, ev, evl, lost, rx>>
    BY <1>6 DEF WorkerDel, WGoto
  <2>2. \/ UNCHANGED <<registered, fdtable, ready>>
        \/ /\ fdtable' = [fdtable EXCEPT ![arg[w]] = NoConn]
           /\ registered' = registered \ {arg[w]} /\ ready' = ready \ {arg[w]}
    BY <1>6 DEF WorkerDel
  <2>3. \A v \in Worker : v # w => pcW'[v] = pcW[v]
    BY <1>t, <2>1 DEF WorkerT
  <2>4. /\ registered' \subseteq registered /\ \A f \in registered' : fdtable'[f] = fdtable[f]
        /\ \A f \in registered' : f \in ready => f \in ready'
    BY <1>t, <2>2
  <2>5. \A f \in registered' : \A c : InFlight(f, c) => InFlight(f, c)'
    BY <1>0, <2>1, <2>3, <2>4 DEF InFlight
  <2> QED BY <1>0, <2>1, <2>4, <2>5, EventsMove
<1> QED BY <1>1, <1>2, <1>3, <1>4, <1>5, <1>6 DEF Work

LEMMA StepEv == ConnInv /\ EvInv /\ [Next]_vars => EvInv'
<1> SUFFICES ASSUME ConnInv, EvInv, [Next]_vars PROVE EvInv'
  OBVIOUS
<1>1. CASE Next
  <2>1. DataHasEvent'
    BY <1>1, ClientEvents, ListenerEvents, PollerEvents, SchedulerEvents, WorkerEvents
       DEF Next, Clients
  <2> QED BY <1>1, <2>1, StepClientT, StepListenerT, StepPollerT, StepQueueT, StepSlotT,
             StepWorkerT, StepDealt, StepOutcomeT DEF EvInv
<1>2. CASE UNCHANGED vars
  <2> USE <1>2 DEF vars, client, kernel, listener, poller, scheduler, workers
  <2>1. ClientT' /\ ListenerT' /\ PollerT'
    BY DEF EvInv, ClientT, ListenerT, PollerT
  <2>2. QueueT' /\ SlotT' /\ WorkerT'
    BY DEF EvInv, QueueT, SlotT, WorkerT
  <2>3. Dealt' /\ OutcomeT'
    BY DEF EvInv, Dealt, OutcomeT
  <2>4. DataHasEvent'
    BY DEF EvInv, DataHasEvent, InFlight, Running
  <2> QED BY <2>1, <2>2, <2>3, <2>4 DEF EvInv
<1> QED BY <1>1, <1>2

LEMMA EvSuffices == ConnInv /\ EvInv => EventsKept
<1> SUFFICES ASSUME ConnInv, EvInv PROVE EventsKept
  OBVIOUS
<1>1. rx \in [Conn -> 0 .. MaxSend]
  BY DEF EvInv, ClientT
<1>2. TypeOK
  BY <1>1 DEF EvInv, ConnInv, SharedType, ClientT, ListenerT, PollerT, QueueT, SlotT, WorkerT,
              Dealt, OutcomeT, TypeOK
<1>3. RoundRobin
  <2> SUFFICES ASSUME NEW v \in Worker, NEW w \in Worker PROVE npush[v] <= npush[w] + 1
    BY DEF RoundRobin
  <2>1. npush[v] \in Int /\ npush[w] \in Int
    BY DEF EvInv, Dealt
  <2>2. npush[v] = npush[w] + (IF v < idx_rr THEN 1 ELSE 0) - (IF w < idx_rr THEN 1 ELSE 0)
    BY DEF EvInv, Dealt
  <2> QED BY <2>1, <2>2
<1> QED BY <1>2, <1>3 DEF EventsKept, EvInv

\* From epoll's ready list over the poller's buffer, the message queue, the scheduler and
\* the event lists to recv, the event for unread data is always somewhere, or was dropped
\* where the code drops it; and start_iosched deals evenly. For any number of clients,
\* descriptors, workers and queue places, and whatever the threads interleave.
THEOREM EventsCorrect == Spec => []EventsKept
<1>1. Spec => [](ConnInv /\ EvInv)
  BY InitConn, InitEv, StepConn, StepEv, PTL DEF Spec
<1> QED BY <1>1, EvSuffices, PTL

-----------------------------------------------------------------------------
(* The workers close only what has ended                                   *)

Closing(pc) == pc \in {"recv", "delArg", "del", "delList"}

\* Worker v has closed descriptor f and is about to clear its slot.
Clearing(v, f) == pcW[v] = "delList" /\ ev[v] = f

\* A slot that holds its descriptor is registered, unless a worker has just closed it and
\* is about to clear the slot; and the listener fills the slot of a registered descriptor.
SlotsRegistered ==
  /\ \A f \in Fd \ contested : fdlist[f] = f => f \in registered \/ \E v \in Worker : Clearing(v, f)
  /\ pcL = "addFdlist" /\ fd_client \notin contested =>
       /\ fd_client \in registered
       /\ fdlist[fd_client] = fd_client => \E v \in Worker : Clearing(v, fd_client)

\* From recv to the cleared slot a worker's descriptor is the event's, it stays the same
\* client's, and once recv has returned 0 that client is at its end.
Holds(w) ==
  /\ pcW[w] = "enter" /\ arg[w] \in Fd => arg[w] = ev[w] /\ fdlist[ev[w]] = ev[w]
  /\ Closing(pcW[w]) => fdlist[ev[w]] = ev[w]
  /\ pcW[w] \in {"recv", "delArg", "del"} => wconn[w] = fdtable[ev[w]]
  /\ pcW[w] \in {"delArg", "del"} => peer[wconn[w]] = "fin" /\ rx[wconn[w]] = 0
  /\ pcW[w] = "del" => arg[w] = ev[w]

WorkersHold == \A w \in Worker : ev[w] \notin contested => Holds(w)

\* A worker that closes a descriptor is alone with it.
Alone == \A v, w \in Worker : Closes(v) /\ ev[v] = ev[w] /\ v # w => ev[v] \in contested

CloseInv == SlotsRegistered /\ WorkersHold /\ Alone

LEMMA InitClose == Init => CloseInv
BY Sizes DEF Init, CloseInv, SlotsRegistered, WorkersHold, Holds, Alone, Closing, Closes

\* The client of the descriptor a worker is about to close.
LEMMA HeldClient ==
  ASSUME ConnInv, EvInv, CloseInv, NEW w \in Worker, ev[w] \notin contested,
         pcW[w] \in {"recv", "delArg", "del"}
  PROVE  ev[w] \in registered /\ ev[w] \in Fd /\ fdtable[ev[w]] \in Conn
<1>1. ev[w] \in Fd
  BY DEF EvInv, WorkerT
<1>2. fdlist[ev[w]] = ev[w]
  BY DEF CloseInv, WorkersHold, Holds, Closing
<1>3. \A v \in Worker : ~Clearing(v, ev[w])
  BY DEF CloseInv, Alone, Clearing, Closes
<1>4. ev[w] \in registered
  BY <1>1, <1>2, <1>3 DEF CloseInv, SlotsRegistered
<1> QED BY <1>1, <1>4, RegisteredConn

\* What a step that is no worker's must leave alone for the workers to hold what they hold.
LEMMA HoldsStay ==
  ASSUME ConnInv, EvInv, CloseInv, UNCHANGED <<pcW, ev, arg, wconn, contested>>,
         \A f \in Fd : fdlist[f] = f => fdlist'[f] = f,
         \A f \in registered : fdtable'[f] = fdtable[f],
         \A d \in Conn : peer[d] = "fin" /\ rx[d] = 0 => peer'[d] = "fin" /\ rx'[d] = 0
  PROVE  WorkersHold' /\ Alone'
<1>1. ASSUME NEW w \in Worker, ev[w] \notin contested PROVE Holds(w)'
  <2>1. Holds(w)
    BY <1>1 DEF CloseInv, WorkersHold
  <2>2. pcW[w] # "idle" => ev[w] \in Fd
    BY DEF EvInv, WorkerT
  <2>3. pcW[w] \in {"recv", "delArg", "del"} => ev[w] \in registered /\ wconn[w] \in Conn
    BY <1>1, <2>1, HeldClient DEF Holds
  <2> QED BY <2>1, <2>2, <2>3 DEF Holds, Closing
<1>2. Alone'
  BY DEF CloseInv, Alone, Closes
<1> QED BY <1>1, <1>2 DEF WorkersHold

\* Neither end of file nor the absence of data is undone for a client by a peer's step.
LEMMA ClientClose ==
  ASSUME ConnInv, EvInv, CloseInv, NEW c \in Conn,
         \/ Connect(c) \/ PeerSend(c)
         \/ \E how \in {"fin", "rst"} : PeerClose(c, how)
  PROVE  CloseInv'
<1>0. UNCHANGED <<fdtable, registered, fdlist, pcW, ev, arg, wconn, contested, pcL, fd_client>>
  BY DEF Connect, PeerSend, PeerClose, workers, listener
<1>1. \A d \in Conn : peer[d] = "fin" /\ rx[d] = 0 => peer'[d] = "fin" /\ rx'[d] = 0
  <2>1. CASE Connect(c)
    BY <2>1 DEF Connect
  <2>2. CASE PeerSend(c)
    BY <2>2 DEF PeerSend, EvInv, ClientT
  <2>3. ASSUME NEW how \in {"fin", "rst"}, PeerClose(c, how)
        PROVE  \A d \in Conn : peer[d] = "fin" /\ rx[d] = 0 => peer'[d] = "fin" /\ rx'[d] = 0
    BY <2>3 DEF PeerClose, EvInv, ClientT
  <2> QED BY <2>1, <2>2, <2>3
<1>2. SlotsRegistered'
  BY <1>0 DEF CloseInv, SlotsRegistered, Clearing
<1> QED BY <1>0, <1>1, <1>2, HoldsStay DEF CloseInv

LEMMA ListenerClose ==
  ASSUME ConnInv, EvInv, CloseInv, MakeThreads \/ Listener
  PROVE  CloseInv'
<1>0. UNCHANGED <<pcW, ev, arg, wconn, contested, peer, rx>>
  BY DEF MakeThreads, Listener, ListenerBind, Accept, AcceptFail, AddEfdOverflow, AddEfd,
         AddFdlist, client, workers
<1>1. CASE MakeThreads \/ ListenerBind \/ AcceptFail \/ AddEfdOverflow
  <2>1. UNCHANGED <<fdtable, registered, fdlist, fd_client>> /\ pcL' # "addFdlist"
    BY <1>1 DEF MakeThreads, ListenerBind, AcceptFail, AddEfdOverflow, kernel, listener
  <2>2. SlotsRegistered'
    BY <1>0, <2>1 DEF CloseInv, SlotsRegistered, Clearing
  <2> QED BY <1>0, <2>1, <2>2, HoldsStay DEF CloseInv
<1>2. CASE Accept
  <2>1. UNCHANGED <<registered, fdlist>> /\ pcL' = "addEfd"
    BY <1>2 DEF Accept
  <2>2. PICK f \in FreeFd : fdtable' = [fdtable EXCEPT ![f] = Head(backlog)]
    BY <1>2 DEF Accept
  <2>3. \A g \in registered : fdtable'[g] = fdtable[g]
    BY <2>2 DEF ConnInv, CountsRegistered, FreeFd, Open, SharedType
  <2>4. SlotsRegistered'
    BY <1>0, <2>1 DEF CloseInv, SlotsRegistered, Clearing
  <2> QED BY <1>0, <2>1, <2>3, <2>4, HoldsStay DEF CloseInv
<1>3. CASE AddEfd
  <2>1. /\ UNCHANGED <<fdtable, fdlist, fd_client>>
        /\ registered' = registered \union {fd_client} /\ pcL = "addEfd"
    BY <1>3 DEF AddEfd
  <2>2. fd_client \in Fd /\ fd_client \notin registered
    BY <2>1 DEF ConnInv, InHand
  <2>3. SlotsRegistered'
    BY <1>0, <2>1, <2>2 DEF CloseInv, SlotsRegistered, Clearing
  <2> QED BY <1>0, <2>1, <2>3, HoldsStay DEF CloseInv
<1>4. CASE AddFdlist
  <2>1. /\ UNCHANGED <<fdtable, registered, fd_client>>
        /\ pcL = "addFdlist" /\ pcL' = "accept"
        /\ fdlist' = [fdlist EXCEPT ![fd_client] = fd_client]
    BY <1>4 DEF AddFdlist, kernel
  <2>2. fd_client \notin contested => fd_client \in registered
    BY <2>1 DEF CloseInv, SlotsRegistered
  <2>3. \A f \in Fd : fdlist'[f] = IF f = fd_client THEN f ELSE fdlist[f]
    BY <2>1 DEF EvInv, SlotT
  <2>4. SlotsRegistered'
    BY <1>0, <2>1, <2>2, <2>3 DEF CloseInv, SlotsRegistered, Clearing
  <2> QED BY <1>0, <2>1, <2>3, <2>4, HoldsStay DEF CloseInv
<1> QED BY <1>1, <1>2, <1>3, <1>4 DEF Listener

LEMMA QuietClose ==
  ASSUME ConnInv, EvInv, CloseInv, Poller \/ PollerSpurious \/ Iosched
  PROVE  CloseInv'
<1>1. UNCHANGED <<fdtable, registered, fdlist, pcW, ev, arg, wconn, contested, peer, rx,
                  fd_client, pcL>>
  BY DEF Poller, PollerCheck, PollerCall, PollerReturn, PollerSend, PollerSpurious, Iosched,
         SchedRecv, SchedPush, client, kernel, workers, listener
<1>2. SlotsRegistered'
  BY <1>1 DEF CloseInv, SlotsRegistered, Clearing
<1> QED BY <1>1, <1>2, HoldsStay DEF CloseInv

\* A worker moves before it closes: pc, event and argument are its own, and the others' stay.
LEMMA WorkerMoves ==
  ASSUME ConnInv, EvInv, CloseInv, NEW w \in Worker, Work(w)
  PROVE  /\ UNCHANGED <<pcL, fd_client>> /\ contested \subseteq contested'
         /\ \A v \in Worker : v # w => /\ pcW'[v] = pcW[v] /\ ev'[v] = ev[v]
                                       /\ arg'[v] = arg[v] /\ wconn'[v] = wconn[v]
<1>t. WorkerT
  BY DEF EvInv
<1>1. UNCHANGED <<pcL, fd_client>> /\ contested \subseteq contested'
  BY DEF Work, WorkerPop, WorkerArg, WorkerEnter, WorkerRecv, WorkerEof, WorkerDelArg,
         WorkerDel, WorkerDelList, listener
<1>2. \A v \in Worker : v # w => pcW'[v] = pcW[v]
  BY <1>t DEF Work, WorkerPop, WorkerArg, WorkerEnter, WorkerRecv, WorkerEof, WorkerDelArg,
         WorkerDel, WorkerDelList, WGoto, WorkerT
<1>3. \A v \in Worker : v # w => ev'[v] = ev[v]
  BY <1>t DEF Work, WorkerPop, WorkerArg, WorkerEnter, WorkerRecv, WorkerEof, WorkerDelArg,
         WorkerDel, WorkerDelList, WorkerT
<1>4. \A v \in Worker : v # w => arg'[v] = arg[v]
  BY <1>t DEF Work, WorkerPop, WorkerArg, WorkerEnter, WorkerRecv, WorkerEof, WorkerDelArg,
         WorkerDel, WorkerDelList, WorkerT
<1>5. \A v \in Worker : v # w => wconn'[v] = wconn[v]
  BY <1>t DEF Work, WorkerPop, WorkerArg, WorkerEnter, WorkerRecv, WorkerEof, WorkerDelArg,
         WorkerDel, WorkerDelList, WorkerT
<1> QED BY <1>1, <1>2, <1>3, <1>4, <1>5

\* What the other workers hold stays theirs, if what this one writes is its own event's.
LEMMA OthersHold ==
  ASSUME ConnInv, EvInv, CloseInv, NEW w \in Worker, Work(w),
         \A f \in Fd : f # ev[w] \/ ~Closes(w) => fdlist'[f] = fdlist[f] /\ fdtable'[f] = fdtable[f],
         \A d \in Conn : peer[d] = "fin" /\ rx[d] = 0 => peer'[d] = "fin" /\ rx'[d] = 0,
         NEW v \in Worker, v # w, ev'[v] \notin contested'
  PROVE  Holds(v)'
<1>1. /\ pcW'[v] = pcW[v] /\ ev'[v] = ev[v] /\ arg'[v] = arg[v] /\ wconn'[v] = wconn[v]
      /\ ev[v] \notin contested
  BY WorkerMoves
<1>2. Holds(v) /\ (pcW[v] # "idle" => ev[v] \in Fd)
  BY <1>1 DEF CloseInv, WorkersHold, EvInv, WorkerT
<1>3. Closes(w) => ev[v] # ev[w]
  BY <1>1 DEF CloseInv, Alone
<1>4. ev[v] \in Fd => fdlist'[ev[v]] = fdlist[ev[v]] /\ fdtable'[ev[v]] = fdtable[ev[v]]
  BY <1>3
<1>5. pcW[v] \in {"recv", "delArg", "del"} => wconn[v] \in Conn
  BY <1>1, <1>2, HeldClient DEF Holds
<1> QED BY <1>1, <1>2, <1>4, <1>5 DEF Holds, Closing

\* A worker that does not close leaves slots, table and epoll set alone.
LEMMA ReceivingSlots ==
  ASSUME ConnInv, EvInv, CloseInv, NEW w \in Worker, Work(w),
         UNCHANGED <<fdlist, registered>>, pcW[w] # "delList"
  PROVE  SlotsRegistered'
<1>1. \A v \in Worker : \A f \in Fd : Clearing(v, f) => Clearing(v, f)'
  BY WorkerMoves DEF Clearing
<1>2. pcL = "addFdlist" => fd_client \in Fd
  BY DEF EvInv, ListenerT
<1> QED BY <1>1, <1>2, WorkerMoves DEF CloseInv, SlotsRegistered

\* The worker's own steps.
LEMMA WorkerClose ==
  ASSUME ConnInv, EvInv, CloseInv, NEW w \in Worker, Work(w)
  PROVE  CloseInv'
<1>t. WorkerT /\ SlotT /\ ClientT /\ -1 \notin Fd /\ 0 \notin Fd
  BY Sizes DEF EvInv
<1>m. /\ UNCHANGED <<pcL, fd_client>> /\ contested \subseteq contested'
      /\ \A v \in Worker : v # w => /\ pcW'[v] = pcW[v] /\ ev'[v] = ev[v]
                                    /\ arg'[v] = arg[v] /\ wconn'[v] = wconn[v]
  BY WorkerMoves
<1>h. ev[w] \notin contested => Holds(w)
  BY DEF CloseInv, WorkersHold
<1>a. CASE UNCHANGED <<fdlist, fdtable, registered>> /\ ~Closes(w)'
  <2> SUFFICES ASSUME /\ \A d \in Conn : peer[d] = "fin" /\ rx[d] = 0 => peer'[d] = "fin" /\ rx'[d] = 0
                      /\ ev'[w] \notin contested' => Holds(w)'
                      /\ ~Closes(w)
                      /\ \A v \in Worker : Closes(v) /\ v # w /\ ev[v] = ev'[w] => ev[v] \in contested'
               PROVE  CloseInv'
    <3>1. CASE WorkerPop(w)
      <4>1. /\ pcW[w] = "idle" /\ pcW'[w] = "arg" /\ ev'[w] = Head(evl[w])
            /\ UNCHANGED <<peer, rx>>
            /\ contested' = contested \union {f \in {Head(evl[w])} : \E v \in Worker : Closes(v) /\ ev[v] = f}
        BY <3>1, <1>t DEF WorkerPop, WGoto, WorkerT, client
      <4>2. \A v \in Worker : Closes(v) /\ ev[v] = ev'[w] => ev[v] \in contested'
        BY <4>1
      <4>3. Holds(w)' /\ ~Closes(w)
        BY <4>1 DEF Holds, Closing, Closes
      <4> QED BY <4>1, <4>2, <4>3
    <3>2. CASE WorkerArg(w)
      <4>1. /\ pcW[w] = "arg" /\ pcW'[w] = "enter" /\ arg'[w] = fdlist[ev[w]]
            /\ UNCHANGED <<peer, rx, ev, contested>>
        BY <3>2, <1>t DEF WorkerArg, WGoto, client, WorkerT
      <4>2. fdlist[ev[w]] \in {ev[w], 0, -1}
        BY <1>t, <4>1 DEF WorkerT, SlotT
      <4>3. Holds(w)' /\ ~Closes(w)
        BY <1>a, <1>t, <4>1, <4>2 DEF Holds, Closing, Closes
      <4>4. \A v \in Worker : Closes(v) /\ v # w /\ ev[v] = ev'[w] => ev[v] \in contested'
        BY <4>1 DEF CloseInv, Alone
      <4> QED BY <4>1, <4>3, <4>4
    <3>3. CASE WorkerEnter(w)
      <4>1. /\ pcW[w] = "enter" /\ UNCHANGED <<peer, rx, contested>>
            /\ \/ pcW'[w] = "idle" /\ ev'[w] = 0
               \/ arg[w] \in Fd /\ pcW'[w] = "recv" /\ wconn'[w] = fdtable[arg[w]] /\ ev' = ev
        BY <3>3, <1>t DEF WorkerEnter, WGoto, client, WorkerT
      <4>2. ev'[w] \notin contested' => Holds(w)'
        BY <1>a, <1>h, <4>1 DEF Holds, Closing
      <4>3. \A v \in Worker : Closes(v) => ev[v] # 0
        BY <1>t DEF WorkerT, Closes
      <4>4. \A v \in Worker : Closes(v) /\ v # w /\ ev[v] = ev'[w] => ev[v] \in contested'
        BY <4>1, <4>3 DEF CloseInv, Alone
      <4>5. ~Closes(w)
        BY <4>1 DEF Closes
      <4> QED BY <4>1, <4>2, <4>4, <4>5
    <3>4. CASE WorkerRecv(w)
      <4>1. /\ pcW[w] = "recv" /\ pcW'[w] = "idle" /\ ev'[w] = 0 /\ UNCHANGED contested
        BY <3>4, <1>t DEF WorkerRecv, WGoto, WorkerT
      <4>2. PICK c : c = wconn[w]
        OBVIOUS
      <4>3. c \in Conn
        BY <1>t, <4>1, <4>2 DEF WorkerT
      <4>4. \/ /\ rx' = [rx EXCEPT ![c] = IF @ > MAX_CLIENT_BUF THEN @ - MAX_CLIENT_BUF ELSE 0]
               /\ rx[c] > 0 /\ peer' = peer
            \/ rx' = rx /\ peer' = [peer EXCEPT ![c] = "fin"]
        BY <3>4, <4>2 DEF WorkerRecv
      <4>5. \A d \in Conn : peer[d] = "fin" /\ rx[d] = 0 => peer'[d] = "fin" /\ rx'[d] = 0
        <5>1. CASE rx' = rx /\ peer' = [peer EXCEPT ![c] = "fin"]
          BY <1>t, <4>3, <5>1 DEF ClientT
        <5>2. CASE /\ rx' = [rx EXCEPT ![c] = IF @ > MAX_CLIENT_BUF THEN @ - MAX_CLIENT_BUF ELSE 0]
                   /\ rx[c] > 0 /\ peer' = peer
          <6>1. \A d \in Conn : rx[d] = 0 => d # c
            BY <5>2
          <6>2. \A d \in Conn : d # c => rx'[d] = rx[d]
            BY <1>t, <5>2 DEF ClientT
          <6> QED BY <5>2, <6>1, <6>2
        <5> QED BY <4>4, <5>1, <5>2
      <4>6. Holds(w)' /\ ~Closes(w) /\ \A v \in Worker : Closes(v) => ev[v] # ev'[w]
        BY <1>t, <4>1 DEF Holds, Closing, Closes, WorkerT
      <4> QED BY <4>5, <4>6
    <3>5. pcW'[w] \notin {"delArg", "del", "delList"}
      BY <1>a DEF Closes
    <3>6. CASE WorkerEof(w) \/ WorkerDelArg(w) \/ WorkerDel(w)
      <4>1. pcW'[w] \in {"delArg", "del", "delList"}
        BY <3>6, <1>t DEF WorkerEof, WorkerDelArg, WorkerDel, WGoto, WorkerT
      <4> QED BY <3>5, <4>1
    <3>7. CASE WorkerDelList(w)
      <4>1. /\ pcW[w] = "delList" /\ pcW'[w] = "idle" /\ ev'[w] = 0 /\ ev[w] \in Fd
            /\ UNCHANGED <<peer, rx, contested>>
        BY <3>7, <1>t DEF WorkerDelList, WGoto, WorkerT, client
      <4>2. fdlist[ev[w]] # ev[w]
        <5>1. fdlist[ev[w]] \in Fd => fdlist' = [fdlist EXCEPT ![fdlist[ev[w]]] = -1]
          BY <3>7 DEF WorkerDelList
        <5>2. fdlist[ev[w]] \in Fd => fdlist'[fdlist[ev[w]]] = -1
          BY <1>t, <5>1 DEF SlotT
        <5> QED BY <1>a, <1>t, <4>1, <5>2
      <4>3. \A v \in Worker \ {w} : \A f : Clearing(v, f) => Clearing(v, f)'
        BY <1>m DEF Clearing
      <4>4. SlotsRegistered'
        BY <1>a, <1>m, <4>1, <4>2, <4>3 DEF CloseInv, SlotsRegistered, Clearing, EvInv, ListenerT
      <4>5. \A v \in Worker : v # w /\ ev'[v] \notin contested' => Holds(v)'
        BY <1>a, <4>1, OthersHold
      <4>6. Holds(w)'
        BY <4>1 DEF Holds, Closing
      <4>7. Alone'
        BY <1>m, <1>t, <4>1 DEF CloseInv, Alone, Closes, WorkerT
      <4> QED BY <4>4, <4>5, <4>6, <4>7 DEF CloseInv, WorkersHold
    <3> QED BY <3>1, <3>2, <3>3, <3>4, <3>6, <3>7 DEF Work
  <2>1. pcW[w] # "delList"
    BY DEF Closes
  <2>2. SlotsRegistered'
    BY <1>a, <2>1, ReceivingSlots
  <2>3. \A v \in Worker : v # w /\ ev'[v] \notin contested' => Holds(v)'
    BY <1>a, OthersHold
  <2>4. Alone'
    <3> SUFFICES ASSUME NEW u \in Worker, NEW v \in Worker, Closes(u)', ev'[u] = ev'[v], u # v
                 PROVE  ev'[u] \in contested'
      BY DEF Alone
    <3>1. u # w /\ Closes(u) /\ ev'[u] = ev[u]
      BY <1>a, <1>m DEF Closes
    <3>2. CASE v = w
      BY <3>1, <3>2
    <3>3. CASE v # w
      BY <1>m, <3>1, <3>3 DEF CloseInv, Alone
    <3> QED BY <3>2, <3>3
  <2> QED BY <2>2, <2>3, <2>4 DEF CloseInv, WorkersHold
<1>5. CASE WorkerEof(w)
  <2>1. /\ pcW[w] = "recv" /\ pcW'[w] = "delArg" /\ rx[wconn[w]] = 0 /\ peer[wconn[w]] = "fin"
        /\ UNCHANGED <<fdtable, registered, fdlist, peer, rx, ev, wconn>>
        /\ contested' = contested \union {f \in {ev[w]} : \E v \in Worker \ {w} : ev[v] = f}
    BY <1>5, <1>t DEF WorkerEof, WGoto, client, kernel, WorkerT
  <2>2. SlotsRegistered'
    BY <2>1, ReceivingSlots
  <2>3. \A v \in Worker : v # w /\ ev'[v] \notin contested' => Holds(v)'
    BY <2>1, OthersHold
  <2>4. ev'[w] \notin contested' => Holds(w)'
    BY <1>h, <1>m, <2>1 DEF Holds, Closing
  <2>5. Alone'
    <3> SUFFICES ASSUME NEW u \in Worker, NEW v \in Worker, Closes(u)', ev'[u] = ev'[v], u # v
                 PROVE  ev'[u] \in contested'
      BY DEF Alone
    <3>1. CASE u = w
      BY <2>1, <3>1
    <3>2. CASE u # w
      BY <1>m, <2>1, <3>2 DEF CloseInv, Alone, Closes
    <3> QED BY <3>1, <3>2
  <2> QED BY <2>2, <2>3, <2>4, <2>5 DEF CloseInv, WorkersHold
<1>6. CASE WorkerDelArg(w)
  <2>1. /\ pcW[w] = "delArg" /\ pcW'[w] = "del" /\ arg'[w] = fdlist[ev[w]]
        /\ UNCHANGED <<fdtable, registered, fdlist, peer, rx, ev, wconn, contested>>
    BY <1>6, <1>t DEF WorkerDelArg, WGoto, client, kernel, WorkerT
  <2>2. SlotsRegistered'
    BY <2>1, ReceivingSlots
  <2>3. \A v \in Worker : v # w /\ ev'[v] \notin contested' => Holds(v)'
    BY <2>1, OthersHold
  <2>4. ev'[w] \notin contested' => Holds(w)'
    BY <1>h, <2>1 DEF Holds, Closing
  <2>5. Alone'
    BY <1>m, <2>1 DEF CloseInv, Alone, Closes
  <2> QED BY <2>2, <2>3, <2>4, <2>5 DEF CloseInv, WorkersHold
<1>7. CASE WorkerDel(w)
  <2>1. /\ pcW[w] = "del" /\ pcW'[w] = "delList" /\ ev[w] \in Fd
        /\ UNCHANGED <<ev, arg, wconn, fdlist, peer, rx, contested>>
    BY <1>7, <1>t DEF WorkerDel, WGoto, WorkerT
  <2>2. PICK f \in Fd : f = ev[w]
    BY <2>1
  <2>3. arg[w] \in {f, 0, -1}
    BY <1>t, <2>1, <2>2 DEF WorkerT
  <2>4. \A g \in Fd : g # f => fdtable'[g] = fdtable[g] /\ (g \in registered => g \in registered')
    <3>1. arg[w] \in registered =>
            /\ fdtable' = [fdtable EXCEPT ![arg[w]] = NoConn] /\ registered' = registered \ {arg[w]}
      BY <1>7 DEF WorkerDel
    <3>2. arg[w] \notin registered => UNCHANGED <<fdtable, registered>>
      BY <1>7 DEF WorkerDel
    <3>3. arg[w] \in registered => arg[w] = f
      BY <1>t, <2>3 DEF ConnInv, SharedType
    <3> QED BY <3>1, <3>2, <3>3 DEF ConnInv, SharedType
  <2>5. Closes(w) /\ Closes(w)'
    BY <2>1 DEF Closes
  <2>6. \A v \in Worker : v # w /\ ev'[v] \notin contested' => Holds(v)'
    BY <2>1, <2>2, <2>4, <2>5, OthersHold
  <2>7. ev'[w] \notin contested' => Holds(w)'
    BY <1>h, <2>1 DEF Holds, Closing
  <2>8. Alone'
    BY <1>m, <2>1, <2>5 DEF CloseInv, Alone, Closes
  <2>9. Clearing(w, f)' /\ \A v \in Worker : \A g : Clearing(v, g) => Clearing(v, g)'
    BY <1>m, <2>1, <2>2 DEF Clearing
  <2>10. pcL = "addFdlist" /\ fd_client \notin contested => fd_client # f
    <3> SUFFICES ASSUME pcL = "addFdlist", fd_client \notin contested, fd_client = f PROVE FALSE
      OBVIOUS
    <3>1. fdlist[f] = f
      BY <1>h, <2>1, <2>2 DEF Holds, Closing
    <3>2. PICK v \in Worker : Clearing(v, f)
      BY <3>1 DEF CloseInv, SlotsRegistered
    <3> QED BY <2>1, <2>2, <3>2 DEF CloseInv, Alone, Clearing, Closes
  <2>11. SlotsRegistered'
    <3>1. pcL = "addFdlist" => fd_client \in Fd
      BY DEF EvInv, ListenerT
    <3> QED BY <1>m, <2>1, <2>4, <2>9, <2>10, <3>1 DEF CloseInv, SlotsRegistered
  <2> QED BY <2>6, <2>7, <2>8, <2>11 DEF CloseInv, WorkersHold
<1>8. CASE WorkerDelList(w) /\ ~UNCHANGED fdlist
  <2>1. /\ pcW[w] = "delList" /\ pcW'[w] = "idle" /\ ev'[w] = 0 /\ ev[w] \in Fd
        /\ UNCHANGED <<fdtable, registered, peer, rx, contested>>
    BY <1>8, <1>t DEF WorkerDelList, WGoto, WorkerT, client, kernel
  <2>2. fdlist[ev[w]] = ev[w] /\ fdlist' = [fdlist EXCEPT ![ev[w]] = -1]
    <3>1. fdlist[ev[w]] \in Fd /\ fdlist' = [fdlist EXCEPT ![fdlist[ev[w]]] = -1]
      BY <1>8 DEF WorkerDelList
    <3> QED BY <1>t, <2>1, <3>1 DEF SlotT
  <2>3. /\ \A g \in Fd : g # ev[w] => fdlist'[g] = fdlist[g]
        /\ fdlist'[ev[w]] # ev[w]
    BY <1>t, <2>1, <2>2 DEF SlotT
  <2>4. Closes(w)
    BY <2>1 DEF Closes
  <2>5. \A v \in Worker : v # w /\ ev'[v] \notin contested' => Holds(v)'
    BY <2>1, <2>3, <2>4, OthersHold
  <2>6. Holds(w)'
    BY <2>1 DEF Holds, Closing
  <2>7. Alone'
    BY <1>m, <1>t, <2>1 DEF CloseInv, Alone, Closes, WorkerT
  <2>8. \A v \in Worker : \A g \in Fd : g # ev[w] /\ Clearing(v, g) => Clearing(v, g)'
    BY <1>m DEF Clearing
  <2>9. SlotsRegistered'
    <3>1. pcL = "addFdlist" => fd_client \in Fd
      BY DEF EvInv, ListenerT
    <3> QED BY <1>m, <2>1, <2>3, <2>8, <3>1 DEF CloseInv, SlotsRegistered
  <2> QED BY <2>5, <2>6, <2>7, <2>9 DEF CloseInv, WorkersHold
<1>9. CASE WorkerPop(w) \/ WorkerArg(w) \/ WorkerEnter(w) \/ WorkerRecv(w)
  <2>1. UNCHANGED <<fdlist, fdtable, registered>> /\ ~Closes(w)'
    BY <1>9, <1>t DEF WorkerPop, WorkerArg, WorkerEnter, WorkerRecv, WGoto, kernel, Closes, WorkerT
  <2> QED BY <1>a, <2>1
<1>10. CASE WorkerDelList(w) /\ UNCHANGED fdlist
  <2>1. UNCHANGED <<fdtable, registered>> /\ ~Closes(w)'
    BY <1>10, <1>t DEF WorkerDelList, WGoto, kernel, Closes, WorkerT
  <2> QED BY <1>a, <1>10, <2>1
<1> QED BY <1>5, <1>6, <1>7, <1>8, <1>9, <1>10 DEF Work

LEMMA StepClose == ConnInv /\ EvInv /\ CloseInv /\ [Next]_vars => CloseInv'
<1> SUFFICES ASSUME ConnInv, EvInv, CloseInv, [Next]_vars PROVE CloseInv'
  OBVIOUS
<1>1. CASE UNCHANGED vars
  BY <1>1 DEF vars, client, kernel, listener, workers, CloseInv, SlotsRegistered, Clearing,
              WorkersHold, Holds, Alone, Closes
<1> QED BY <1>1, ClientClose, ListenerClose, QuietClose, WorkerClose DEF Next, Clients

\* However many workers there are, and however descriptors are reused between the steps of a
\* close, a worker closes the descriptor of the client whose end it has read, which epoll
\* knows, unless another worker had an event for that descriptor while it was being closed.
THEOREM ClosesCorrect == Spec => []ClosesRightly
<1>1. ConnInv /\ EvInv /\ CloseInv /\ [Next]_vars => (ConnInv /\ EvInv /\ CloseInv)'
  BY StepConn, StepEv, StepClose
<1>2. Init => ConnInv /\ EvInv /\ CloseInv
  BY InitConn, InitEv, InitClose
<1>3. ConnInv /\ EvInv /\ CloseInv => ClosesRightly
  <2> SUFFICES ASSUME ConnInv, EvInv, CloseInv, NEW w \in Worker, pcW[w] = "del",
                      ev[w] \notin contested
               PROVE  /\ arg[w] \in registered /\ fdtable[arg[w]] = wconn[w]
                      /\ peer[wconn[w]] = "fin" /\ rx[wconn[w]] = 0
    BY DEF ClosesRightly
  <2> QED BY HeldClient DEF CloseInv, WorkersHold, Holds
<1> QED BY <1>1, <1>2, <1>3, PTL DEF Spec
=============================================================================
