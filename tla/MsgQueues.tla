----------------------------- MODULE MsgQueues -----------------------------
(***************************************************************************)
(* The message queue samples: a sender that sends the lines of a file and  *)
(* receivers, each a process that finds the queue by its key or name.      *)
(*   "sysv", "regex"    System V queue with message types; the sender does *)
(*                      not wait for room and removes the queue at its end *)
(*   "posix", "sigev"   POSIX queue; the sender waits for room, nobody     *)
(*                      ends but by mq_unlink of the name; receivers of    *)
(*                      "sigev" also ask for a signal                      *)
(***************************************************************************)
EXTENDS Integers, Sequences, SequencesExt, FiniteSets

CONSTANTS Receiver,
          TypeOf,   \* receiver -> the message type it asks for, 0 for any
          Files,    \* files to send: sequences of lines, see Fate
          Cap       \* messages a queue holds

Sender == "sender"
Nobody == "nobody"

ASSUME MsgAssumption ==
         /\ IsFiniteSet(Receiver) /\ Sender \notin Receiver /\ Nobody \notin Receiver
         /\ Cap \in Nat \ {0}
         /\ Files \subseteq Seq([type : Nat, text : {"good", "short", "long"}])

VARIABLES mkind, file, line,   \* program, the file, and the next line to send
          mkey,       \* the queue that key or name leads to, 0 for none
          mqueue,     \* queue -> [state, msgs]
          note,       \* queue -> receiver whose mq_notify is registered, or Nobody
          at, qid,    \* process -> place, and its queue or 0
          sent, taken     \* numbers of the lines sent, and of those received

mqvars == <<mkind, file, line, mkey, mqueue, note, at, qid, sent, taken>>

Proc == {Sender} \cup Receiver
Queue == 1 .. Cardinality(Proc)
Posix == mkind \in {"posix", "sigev"}

MsgAt(k, f, place) ==
  /\ mkind = k /\ file = f /\ line = 1
  /\ mkey = 0 /\ mqueue = [q \in Queue |-> [state |-> "none", msgs |-> << >>]]
  /\ note = [q \in Queue |-> Nobody]
  /\ at = [p \in Proc |-> place] /\ qid = [p \in Proc |-> 0]
  /\ sent = {} /\ taken = {}

MsgInit == \E k \in {"sysv", "regex", "posix", "sigev"}, f \in Files : MsgAt(k, f, "start")

MGoes(p, l) == at' = [at EXCEPT ![p] = l]
FreshQueue == CHOOSE q \in Queue : /\ mqueue[q].state = "none"
                                   /\ \A r \in Queue : r < q => mqueue[r].state # "none"
AfterOpen(p) == IF p = Sender THEN "send" ELSE IF mkind = "sigev" THEN "attr" ELSE "recv"

\* sysv_msgget and mq_open: the exclusive call, and the other one when that fails.
OpenNew(p) ==
  /\ at[p] = "start"
  /\ IF mkey # 0 THEN MGoes(p, "again") /\ UNCHANGED <<mkey, mqueue, qid>>
     ELSE /\ mkey' = FreshQueue /\ qid' = [qid EXCEPT ![p] = FreshQueue]
          /\ mqueue' = [mqueue EXCEPT ![FreshQueue].state = "live"]
          /\ MGoes(p, AfterOpen(p))
  /\ UNCHANGED <<mkind, file, line, note, sent, taken>>

OpenAgain(p) ==
  /\ at[p] = "again"
  /\ qid' = [qid EXCEPT ![p] = mkey]
  /\ MGoes(p, IF mkey = 0 THEN "exit" ELSE AfterOpen(p))
  /\ UNCHANGED <<mkind, file, line, mkey, mqueue, note, sent, taken>>

----------------------------------------------------------------------------
(* The sender.  A line has a type and is "good", "short" (nothing behind   *)
(* the type) or "long" (more than mq_msgsize or MSGMAX).                   *)

\* What becomes of a line: sent; passed over, because the expression does not match; the
\* send fails, which ends the loop; or memcpy gets a negative length.
Fate(l) ==
  CASE l.text = "long"  -> "fails"
    [] l.text = "short" -> IF Posix THEN "send" ELSE IF mkind = "regex" THEN "skip" ELSE "crash"
    [] l.text = "good"  -> IF ~Posix /\ l.type = 0 THEN "fails" ELSE "send"

Sending == at[Sender] = "send" /\ line <= Len(file)
Q == qid[Sender]
Full(q) == Len(mqueue[q].msgs) >= Cap

Wants(r, type) == Posix \/ TypeOf[r] \in {0, type}

\* Receivers asleep in mq_receive or msgrcv.
Asleep(q) == {r \in Receiver : at[r] = "asleep" /\ qid[r] = q}

\* Mutant of AfterReceive: the notification is installed before the loop, once.
AfterReceiveOnce(r) == "recv"

\* The top of the receiver's loop.
AfterReceive(r) == IF mkind = "sigev" THEN "attr" ELSE "recv"

SendOne ==
  /\ Sending /\ Fate(file[line]) = "send" /\ mqueue[Q].state = "live" /\ ~Full(Q)
  /\ sent' = sent \cup {line} /\ line' = line + 1
  /\ UNCHANGED <<mkind, file, mkey, qid>>

Sleeper(type) == {r \in Asleep(Q) : Wants(r, type)}

\* The kernel hands the message to a receiver that sleeps for it, and rings nobody.
SendTo(r) ==
  /\ SendOne /\ r \in Sleeper(file[line].type)
  /\ taken' = taken \cup {line} /\ MGoes(r, AfterReceive(r))
  /\ UNCHANGED <<mqueue, note>>

\* There is none: the message waits, and the first one in an empty queue makes the kernel
\* send the registered signal, which ends the registration.
Send ==
  /\ SendOne /\ Sleeper(file[line].type) = {}
  /\ mqueue' = [mqueue EXCEPT ![Q].msgs = Append(@, [n |-> line, type |-> file[line].type])]
  /\ note' = IF mqueue[Q].msgs = << >> THEN [note EXCEPT ![Q] = Nobody] ELSE note
  /\ UNCHANGED <<taken, at>>

Skip ==
  /\ Sending /\ Fate(file[line]) = "skip" /\ line' = line + 1
  /\ UNCHANGED <<mkind, file, mkey, mqueue, note, at, qid, sent, taken>>

\* The loop ends at the end of the file, at a line that cannot be sent and, because of
\* IPC_NOWAIT, at a full queue.
StopSending ==
  /\ at[Sender] = "send"
  /\ \/ line > Len(file)
     \/ line <= Len(file) /\ Fate(file[line]) = "fails"
     \/ line <= Len(file) /\ Fate(file[line]) = "send" /\ ~Posix
        /\ (Full(Q) \/ mqueue[Q].state = "gone")
  /\ MGoes(Sender, "finished")
  /\ UNCHANGED <<mkind, file, line, mkey, mqueue, note, qid, sent, taken>>

Crash ==
  /\ Sending /\ Fate(file[line]) = "crash" /\ MGoes(Sender, "crashed")
  /\ UNCHANGED <<mkind, file, line, mkey, mqueue, note, qid, sent, taken>>

\* A key is pressed: sysv_msgrm removes the queue with what is in it; mq_close does not.
PressKey ==
  /\ at[Sender] = "finished" /\ MGoes(Sender, "exit")
  /\ IF Posix THEN UNCHANGED <<mqueue, mkey>>
     ELSE /\ mqueue' = [mqueue EXCEPT ![Q] = [state |-> "gone", msgs |-> << >>]]
          /\ mkey' = IF mkey = Q THEN 0 ELSE mkey
  /\ UNCHANGED <<mkind, file, line, note, qid, sent, taken>>

----------------------------------------------------------------------------
(* Receivers.                                                              *)

Wanted(r, q) == {i \in DOMAIN mqueue[q].msgs : Wants(r, mqueue[q].msgs[i].type)}

FirstWanted(I) == CHOOSE i \in I : \A j \in I : i <= j

Receive(r) ==
  /\ at[r] = "recv" /\ Wanted(r, qid[r]) # {}
  /\ LET i == FirstWanted(Wanted(r, qid[r]))
     IN  /\ taken' = taken \cup {mqueue[qid[r]].msgs[i].n}
         /\ mqueue' = [mqueue EXCEPT ![qid[r]].msgs = RemoveAt(@, i)]
  /\ MGoes(r, AfterReceive(r))
  /\ UNCHANGED <<mkind, file, line, mkey, note, qid, sent>>

\* mq_receive or msgrcv finds nothing and sleeps.
FallAsleep(r) ==
  /\ at[r] = "recv" /\ mqueue[qid[r]].state = "live" /\ Wanted(r, qid[r]) = {}
  /\ MGoes(r, "asleep")
  /\ UNCHANGED <<mkind, file, line, mkey, mqueue, note, qid, sent, taken>>

\* msgrcv fails when the queue is removed; its own sysv_msgrm then fails too.
ReceiveFails(r) ==
  /\ at[r] \in {"recv", "asleep"} /\ mqueue[qid[r]].state = "gone" /\ MGoes(r, "exit")
  /\ UNCHANGED <<mkind, file, line, mkey, mqueue, note, qid, sent, taken>>

\* mq_getattr: a receiver that sees an empty queue asks for a signal first.
GetAttr(r) ==
  /\ at[r] = "attr" /\ MGoes(r, IF mqueue[qid[r]].msgs = << >> THEN "notify" ELSE "recv")
  /\ UNCHANGED <<mkind, file, line, mkey, mqueue, note, qid, sent, taken>>

\* EBUSY when there is a registration already.
Registered(old, r) == IF old = Nobody THEN r ELSE old

Notify(r) ==
  /\ at[r] = "notify" /\ MGoes(r, "recv")
  /\ note' = [note EXCEPT ![qid[r]] = Registered(@, r)]
  /\ UNCHANGED <<mkind, file, line, mkey, mqueue, qid, sent, taken>>

\* The program called with "unlink".
Unlink ==
  /\ Posix /\ mkey # 0 /\ mkey' = 0
  /\ UNCHANGED <<mkind, file, line, mqueue, note, at, qid, sent, taken>>

SenderStep == OpenNew(Sender) \/ OpenAgain(Sender) \/ Send \/ Skip \/ StopSending \/ Crash
              \/ \E r \in Receiver : SendTo(r)
ReceiverStep(r) == \/ OpenNew(r) \/ OpenAgain(r) \/ Receive(r) \/ FallAsleep(r)
                   \/ ReceiveFails(r) \/ GetAttr(r) \/ Notify(r)

MsgNext == SenderStep \/ PressKey \/ Unlink \/ \E r \in Receiver : ReceiverStep(r)

\* Processes run; keys are pressed and names unlinked at will.
MsgFairness == WF_mqvars(SenderStep) /\ \A r \in Receiver : WF_mqvars(ReceiverStep(r))

MsgSpec == MsgInit /\ [][MsgNext]_mqvars /\ MsgFairness

----------------------------------------------------------------------------
\* Lines are sent without a gap: whatever stops the sender, a full queue included, nothing is
\* sent behind a line that was not, unless the expression passed that line over.
NoGaps == \A n \in sent : \A m \in 1 .. n : m \in sent \/ Fate(file[m]) = "skip"

\* When every receiver of the queue sleeps in mq_receive one of them is registered for the
\* signal, and no message waits: the look at mq_curmsgs, the registration and mq_receive are
\* three calls, but whoever takes a message that came in between looks again.
AsleepIsArmed ==
  mkind = "sigev" => \A q \in Queue :
    LET R == {r \in Receiver : qid[r] = q /\ at[r] # "exit"}
    IN  R # {} /\ R = Asleep(q) => note[q] # Nobody /\ mqueue[q].msgs = << >>

\* Every message sent is received in the end when some receiver of its queue wants it, or
\* is lost with the queue when the sender's key press removes it.
SentArrives ==
  <>[](\A n \in sent :
         \/ n \in taken
         \/ mqueue[Q].state = "gone"
         \/ ~\E r \in Receiver : qid[r] = Q /\ Wants(r, file[n].type))

\* A sender does not stay in its loop, but for a POSIX queue that is full and has never had
\* a receiver.
SenderEnds ==
  <>[](/\ at[Sender] \notin {"start", "again"}
       /\ at[Sender] = "send" => Posix /\ Full(Q) /\ ~\E r \in Receiver : qid[r] = Q)

\* The sender leaves no gap, and receivers that sleep will be told of the next message.
MessagesKept == NoGaps /\ AsleepIsArmed
=============================================================================
