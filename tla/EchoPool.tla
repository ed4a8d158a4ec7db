------------------------------ MODULE EchoPool ------------------------------
(***************************************************************************)
(* The pooled echo servers of 6.io_interface and their client.  main sets  *)
(* up a listening socket and forks children that accept and echo:          *)
(*   "serv1"    in_stream_serv1                                            *)
(*   "serv2"    in_stream_serv2, SO_REUSEADDR                              *)
(*   "serv3"    in_stream_serv3, dead children are replaced (see Prefork)  *)
(*   "unix"     un_stream_serv, a path in the file system                  *)
(*   "oob"      so_oobinline                                               *)
(*   "reuse"    so_reuseaddr_tcp                                           *)
(*   "timeo"    so_timeo, recv with a timeout                              *)
(* An octet is its client's, and numbered.  A client that leaves may have  *)
(* octets under way in both directions, and the connection may be reset.   *)
(***************************************************************************)
EXTENDS Integers, Sequences, FiniteSets

CONSTANTS Kid,        \* the pool (MAX_POOL)
          Client,
          MaxSaid,    \* bound: octets a client sends
          BufLen,     \* octets of buf (40)
          MaxFds      \* bound: connections a child can have open

ASSUME EchoAssumption == /\ IsFiniteSet(Kid) /\ IsFiniteSet(Client) /\ MaxSaid \in Nat
                         /\ {BufLen, MaxFds} \subseteq Nat \ {0}
                         /\ {"none", "closed"} \intersect Kid = {}

VARIABLES pool,
          pmain,     \* where main is
          kid,       \* child -> [at, on, buf, len]: place, client, buffer, ret_len
          cl,        \* client -> "out", "queued", "open", "left"
          said,      \* client -> number of octets sent
          unread,    \* client -> octets the server has not received
          heard,     \* client -> octets echoed to it
          reset,     \* client -> the connection was reset
          fd         \* client -> its descriptor at the server: "none", child, "closed"

poolvars == <<pool, pmain, kid, cl, said, unread, heard, reset, fd>>

Pools == {"serv1", "serv2", "serv3", "unix", "oob", "reuse", "timeo"}
NoClient == "nobody"
NewKid(at) == [at |-> at, on |-> NoClient, buf |-> << >>, len |-> 0]

PoolAt(g, at) ==
  /\ pool = g /\ pmain = at /\ kid = [k \in Kid |-> NewKid("none")]
  /\ cl = [c \in Client |-> "out"] /\ said = [c \in Client |-> 0]
  /\ unread = [c \in Client |-> << >>] /\ heard = [c \in Client |-> << >>]
  /\ reset = [c \in Client |-> FALSE] /\ fd = [c \in Client |-> "none"]

PoolInit == \E g \in Pools : PoolAt(g, "socket")

----------------------------------------------------------------------------
(* main: each call may fail, which ends the program before it has forked.  *)

Main(from, to) ==
  /\ pmain = from /\ pmain' \in {to, "exit"}
  /\ UNCHANGED <<pool, kid, cl, said, unread, heard, reset, fd>>

Socket(to) == Main("socket", to)
SetSockOpt == Main("option", "bind")
RemovePath == Main("option", "bind")
Bind       == Main("bind", "fork")

\* fork may fail, which costs the pool a child; then main pauses.
ForkPool ==
  /\ pmain = "fork"
  /\ \E forked \in SUBSET Kid :
       kid' = [k \in Kid |-> IF k \in forked THEN NewKid("accept") ELSE kid[k]]
  /\ pmain' = "pause"
  /\ UNCHANGED <<pool, cl, said, unread, heard, reset, fd>>

serv1_main == pool = "serv1" /\ (Socket("bind") \/ Bind \/ ForkPool)
serv2_main == pool = "serv2" /\ (Socket("option") \/ SetSockOpt \/ Bind \/ ForkPool)
unix_main  == pool = "unix"  /\ (Socket("option") \/ RemovePath \/ Bind \/ ForkPool)
oob_main   == pool = "oob"   /\ (Socket("option") \/ SetSockOpt \/ Bind \/ ForkPool)
reuse_main == pool = "reuse" /\ (Socket("option") \/ SetSockOpt \/ Bind \/ ForkPool)
timeo_main == pool = "timeo" /\ (Socket("bind") \/ Bind \/ ForkPool)
serv3_main == pool = "serv3" /\ (Socket("bind") \/ Bind \/ ForkPool)
PoolMain   == serv1_main \/ serv2_main \/ serv3_main \/ unix_main \/ oob_main \/ reuse_main
              \/ timeo_main
----------------------------------------------------------------------------
(* start_child                                                             *)

Goto(k, at) == kid' = [kid EXCEPT ![k].at = at]
Peer(k)  == kid[k].on
OpenAt(k) == {c \in Client : fd[c] = k}

\* so_timeo gives the new socket a timeout before it receives.
FirstPlace == IF pool = "timeo" THEN "option" ELSE "recv"
InSession(k) == kid[k].at \in {"option", "recv", "send"}

\* accept fails for ever once the leaked descriptors have used up the limit.  buf is the
\* child's, not the session's: it still holds what earlier clients sent.
Accept(k) ==
  /\ kid[k].at = "accept" /\ Cardinality(OpenAt(k)) < MaxFds
  /\ \E c \in Client :
       /\ cl[c] \in {"queued", "left"} /\ fd[c] = "none"
       /\ fd' = [fd EXCEPT ![c] = k]
       /\ cl' = [cl EXCEPT ![c] = IF @ = "left" THEN @ ELSE "open"]
       /\ kid' = [kid EXCEPT ![k].at = FirstPlace, ![k].on = c]
  /\ UNCHANGED <<pool, pmain, said, unread, heard, reset>>

\* recv takes what is there, at most a buffer full, after a reset too; the rest of the
\* buffer keeps what an earlier recv, of this session or another, has left in it.
Recv(k) ==
  LET c == Peer(k)
      n == IF Len(unread[c]) < BufLen THEN Len(unread[c]) ELSE BufLen
      b == kid[k].buf
  IN  /\ kid[k].at = "recv" /\ fd[c] = k /\ n > 0
      /\ kid' = [kid EXCEPT ![k].at = "send", ![k].len = n,
                            ![k].buf = SubSeq(unread[c], 1, n) \o SubSeq(b, n + 1, Len(b))]
      /\ unread' = [unread EXCEPT ![c] = SubSeq(@, n + 1, Len(@))]
      /\ UNCHANGED <<pool, pmain, cl, said, heard, reset, fd>>

\* recv returns 0: the client has left and all it sent was received.
RecvEof(k) ==
  LET c == Peer(k)
  IN  /\ kid[k].at = "recv" /\ fd[c] = k /\ ~reset[c] /\ cl[c] = "left" /\ unread[c] = << >>
      /\ fd' = [fd EXCEPT ![c] = "closed"] /\ Goto(k, "accept")
      /\ UNCHANGED <<pool, pmain, cl, said, unread, heard, reset>>

\* break
AfterError == "accept"

\* recv fails (ECONNRESET): the session ends and the descriptor stays open.
RecvError(k) ==
  /\ kid[k].at = "recv" /\ reset[Peer(k)] /\ fd[Peer(k)] = k /\ Goto(k, AfterError)
  /\ UNCHANGED <<pool, pmain, cl, said, unread, heard, reset, fd>>

\* recv of a descriptor that a failing send has closed: EBADF, which ends the session.
RecvClosed(k) ==
  /\ kid[k].at = "recv" /\ fd[Peer(k)] # k /\ Goto(k, AfterError)
  /\ UNCHANGED <<pool, pmain, cl, said, unread, heard, reset, fd>>

\* Mutant of Echo: send(cfd, buf, sizeof(buf), 0).
EchoWhole(k) == kid[k].buf
\* send(cfd, buf, ret_len, 0)
Echo(k) == SubSeq(kid[k].buf, 1, kid[k].len)

\* A send to this client raises SIGPIPE: of TCP once a reset has come in, of AF_UNIX as soon
\* as the client has left.
Broken(c) == reset[c] \/ (pool = "unix" /\ cl[c] = "left")

\* A TCP client that has left answers with a reset.
Send(k) ==
  LET c == Peer(k)
  IN  /\ kid[k].at = "send" /\ ~Broken(c) /\ Goto(k, "recv")
      /\ heard' = IF cl[c] = "left" THEN heard ELSE [heard EXCEPT ![c] = @ \o Echo(k)]
      /\ reset' = [reset EXCEPT ![c] = cl[c] = "left"]
      /\ UNCHANGED <<pool, pmain, cl, said, unread, fd>>

\* The child ends, and what it had open is closed.
Dies(k) ==
  /\ Goto(k, "dead") /\ fd' = [c \in Client |-> IF fd[c] = k THEN "closed" ELSE fd[c]]
  /\ UNCHANGED <<pool, pmain, cl, said, unread, heard, reset>>

\* Nobody handles SIGPIPE.
SendPipe(k) == kid[k].at = "send" /\ Broken(Peer(k)) /\ Dies(k)

\* send fails otherwise: the descriptor is closed, and the inner loop goes on.
SendFails(k) ==
  /\ kid[k].at = "send"
  /\ fd' = [fd EXCEPT ![Peer(k)] = "closed"] /\ Goto(k, "recv")
  /\ UNCHANGED <<pool, pmain, cl, said, unread, heard, reset>>

\* SO_RCVTIMEO: EAGAIN, and recv is called again.
RecvTimeout(k) == kid[k].at = "recv" /\ UNCHANGED poolvars

SetTimeout(k) ==
  /\ kid[k].at = "option" /\ Goto(k, "recv")
  /\ UNCHANGED <<pool, pmain, cl, said, unread, heard, reset, fd>>

\* A setsockopt that fails ends the child.
TimeoutFails(k) == kid[k].at = "option" /\ Dies(k)

Session(k) == Recv(k) \/ RecvEof(k) \/ RecvError(k) \/ RecvClosed(k) \/ Send(k)
              \/ SendPipe(k)

serv1_child(k) == pool = "serv1" /\ (Accept(k) \/ Session(k))
serv2_child(k) == pool = "serv2" /\ (Accept(k) \/ Session(k))
serv3_child(k) == pool = "serv3" /\ (Accept(k) \/ Session(k))
unix_child(k)  == pool = "unix"  /\ (Accept(k) \/ Session(k))
oob_child(k)   == pool = "oob"   /\ (Accept(k) \/ Session(k))
reuse_child(k) == pool = "reuse" /\ (Accept(k) \/ Session(k))
timeo_child(k) == pool = "timeo" /\ (Accept(k) \/ SetTimeout(k) \/ Session(k))

PoolChild(k) == serv1_child(k) \/ serv2_child(k) \/ serv3_child(k) \/ unix_child(k)
                \/ oob_child(k) \/ reuse_child(k) \/ timeo_child(k)

\* restart_child of in_stream_serv3, which may miss a child (module Prefork); in the other
\* servers main pauses for ever.
Restart(k) ==
  /\ pool = "serv3" /\ kid[k].at = "dead" /\ kid' = [kid EXCEPT ![k] = NewKid("accept")]
  /\ UNCHANGED <<pool, pmain, cl, said, unread, heard, reset, fd>>
----------------------------------------------------------------------------
(* in_stream_cli                                                           *)

Connect(c) ==
  /\ pmain \in {"fork", "pause"} /\ cl[c] = "out" /\ cl' = [cl EXCEPT ![c] = "queued"]
  /\ UNCHANGED <<pool, pmain, kid, said, unread, heard, reset, fd>>

\* "1": the client sends, before or after it was accepted.  What it sends to a connection that
\* the server has closed reaches nobody.
Say(c) ==
  /\ cl[c] \in {"queued", "open"} /\ fd[c] # "closed" /\ said[c] < MaxSaid
  /\ said' = [said EXCEPT ![c] = @ + 1]
  /\ unread' = [unread EXCEPT ![c] = Append(@, <<c, said[c] + 1>>)]
  /\ UNCHANGED <<pool, pmain, kid, cl, heard, reset, fd>>

\* "0": it never reads, so the echo it has not read makes the kernel reset the connection.
Leave(c) ==
  /\ cl[c] \in {"queued", "open"} /\ cl' = [cl EXCEPT ![c] = "left"]
  /\ reset' = [reset EXCEPT ![c] = @ \/ heard[c] # << >>]
  /\ UNCHANGED <<pool, pmain, kid, said, unread, heard, fd>>

PoolNext == \/ PoolMain
            \/ \E k \in Kid : PoolChild(k) \/ SendFails(k) \/ Restart(k)
            \/ \E k \in Kid : pool = "timeo" /\ (RecvTimeout(k) \/ TimeoutFails(k))
            \/ \E c \in Client : Connect(c) \/ Say(c) \/ Leave(c)

\* Children are scheduled. Clients may stay for ever without a word.
PoolFairness == /\ WF_poolvars(PoolMain)
                /\ \A k \in Kid : WF_poolvars(PoolChild(k))
PoolSpec == PoolInit /\ [][PoolNext]_poolvars /\ PoolFairness
----------------------------------------------------------------------------
(* Properties                                                              *)

\* A client hears its own octets, in order and without a gap, however they were cut into
\* receives: nothing of the clients that the child has served before, whose octets are still
\* in its buffer (in_stream_serv1.c:89), is sent along.
EchoInOrder ==
  \A c \in Client : heard[c] = [i \in 1 .. Len(heard[c]) |-> <<c, i>>] /\ Len(heard[c]) <= said[c]

\* What a connection that goes wrong costs the server: a descriptor that is open without a
\* session is of a client that was reset, and a child that died was in the session of a client
\* that had left - or of so_timeo, when setsockopt fails - and no two died of the same one.
FailuresCost ==
  /\ \A c \in Client :
       fd[c] \in Kid /\ ~ (\E k \in Kid : InSession(k) /\ Peer(k) = c) => reset[c]
  /\ \A k \in Kid : kid[k].at = "dead" =>
       /\ fd[Peer(k)] = "closed" /\ (cl[Peer(k)] = "left" \/ pool = "timeo")
       /\ \A l \in Kid : kid[l].at = "dead" /\ Peer(l) = Peer(k) => l = k

\* No child stays in the session of a client that has left, and none that could accept
\* leaves a client in the queue.
PoolServes ==
  <>[](\A k \in Kid :
         /\ InSession(k) => cl[Peer(k)] # "left"
         /\ kid[k].at = "accept" /\ Cardinality(OpenAt(k)) < MaxFds =>
              \A c \in Client : cl[c] # "out" => fd[c] # "none")

\* Each client hears itself, and failures cost a descriptor or a child only as they must.
EchoKept == EchoInOrder /\ FailuresCost
=============================================================================
