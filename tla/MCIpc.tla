------------------------------- MODULE MCIpc -------------------------------
(***************************************************************************)
(* The interprocess communication samples for TLC: in each behaviour one   *)
(* of the families runs, and the others stay where they start.             *)
(***************************************************************************)
EXTENDS Semaphores, MsgQueues, ShmSegments

VARIABLE which

CONSTANTS i1, i2

TypeOfReceiver == [r \in Receiver |-> IF r = "one" THEN 1 ELSE 0]

Good(t)  == [type |-> t, text |-> "good"]
Short(t) == [type |-> t, text |-> "short"]
Long(t)  == [type |-> t, text |-> "long"]

SentFiles == {<<Good(1), Good(2), Good(1)>>, <<Good(1), Short(1), Good(2)>>,
              <<Good(0), Good(1)>>, << >>, <<Good(1), Long(2), Good(1)>>}

\* A family that does not run: nothing is set up, and its processes are through.
SemIdle == SemAt("sysv", 0, "done")
MsgIdle == MsgAt("sysv", << >>, "exit")
ShmIdle == ShmAt("sysv")

MCInit ==
  /\ which \in {"sem", "msg", "shm"}
  /\ IF which = "sem" THEN SemInit ELSE SemIdle
  /\ IF which = "msg" THEN MsgInit ELSE MsgIdle
  /\ IF which = "shm" THEN ShmInit ELSE ShmIdle

MCNext ==
  /\ \/ which = "sem" /\ SemNext /\ UNCHANGED <<mqvars, shmvars>>
     \/ which = "msg" /\ MsgNext /\ UNCHANGED <<semvars, shmvars>>
     \/ which = "shm" /\ ShmNext /\ UNCHANGED <<semvars, mqvars>>
  /\ UNCHANGED which

MCSpec == MCInit /\ [][MCNext]_<<semvars, mqvars, shmvars, which>> /\ SemFairness /\ MsgFairness

\* Nobody waits for a semaphore for ever, messages arrive and senders end, with the
\* exceptions that NobodyWaitsForEver, SentArrives and SenderEnds name.
IpcLive == NobodyWaitsForEver /\ SentArrives /\ SenderEnds
=============================================================================
