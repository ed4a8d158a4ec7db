------------------------------- MODULE Prefork -------------------------------
(***************************************************************************)
(* in_stream_serv3.c: a server that forks MAX_POOL children and forks a    *)
(* new one when a child dies. Its two signal handlers, kill_child and      *)
(* restart_child, interrupt main, and each other, between any two steps;   *)
(* the frames on "stack" say who runs (the first) and who was interrupted. *)
(* A child inherits handlers, mask and table. Its echo loop is left out.   *)
(*                                                                         *)
(* set_signalset fills in sigact_term where it means sigact_chld, so that  *)
(* mask and flags of the SIGCHLD handler are what was on the stack: each   *)
(* run of the program has flags of SigFlags, and SIGTERM masked or not.    *)
(***************************************************************************)
EXTENDS Integers, Sequences, FiniteSets

CONSTANTS
  MAX_POOL,    \* children
  Pid,         \* process numbers, given out in turn; fork fails when they are used up
  SigFlags,    \* sets of flags that the SIGCHLD handler may have
  SigMask,     \* whether its mask may have SIGTERM
  MaxDeaths,   \* bound: children that die or stop by themselves
  MaxTerm      \* bound: SIGTERMs that are sent to the server or to a child

Slot == 0 .. MAX_POOL - 1

ASSUME PoolAssumption == MAX_POOL \in Nat \ {0}
ASSUME PidAssumption  == Pid \subseteq Nat \ {0} /\ IsFiniteSet(Pid)
ASSUME SignalAssumption ==
  /\ SigFlags \subseteq SUBSET {"NODEFER", "NOCLDWAIT", "NOCLDSTOP", "RESETHAND"}
  /\ SigMask \subseteq BOOLEAN
ASSUME BoundAssumption == MaxDeaths \in Nat /\ MaxTerm \in Nat

VARIABLES
  server,      \* "up", "exited" (kill_child) or "killed" (no handler yet)
  stack,       \* frames [fn, pc, i, pid] of main and the handlers, running one first
  proc_tab,
  handlers,    \* the signals that set_signalset has installed handlers for
  flags, mask, \* sa_flags of the SIGCHLD handler; does sa_mask have SIGTERM?
  pending,     \* signals pending for the server
  status,      \* of each process: "unused", "running", "zombie" or "gone"
  child,       \* of each child: [inherits, masked, tab, term]
  deaths, terms, \* how many so far
  lost,        \* history: deaths that raised no SIGCHLD of their own
  raced        \* history: the child that kill_child is about to signal has been reaped
               \* since kill_child looked at its entry

sig  == <<handlers, flags, mask>>
env  == <<deaths, terms>>
hist == <<lost, raced>>
vars == <<server, stack, proc_tab, sig, pending, status, child, env, hist>>

\* A child: its SIGTERM leads to kill_child, SIGTERM is masked, its copy of proc_tab
\* (while kill_child may use it), SIGTERM is pending.
Child == [inherits : BOOLEAN, masked : BOOLEAN, tab : [Slot -> Pid \union {0, -1}],
          term : BOOLEAN]

NoChild == [inherits |-> FALSE, masked |-> FALSE, tab |-> [k \in Slot |-> 0], term |-> FALSE]

Init ==
  /\ server = "up" /\ proc_tab = [k \in Slot |-> 0]
  /\ stack = <<[fn |-> "main", pc |-> "fork", i |-> 0, pid |-> 0]>>
  /\ handlers = {} /\ flags \in SigFlags /\ mask \in SigMask
  /\ pending = {} /\ status = [p \in Pid |-> "unused"]
  /\ child = [p \in Pid |-> NoChild]
  /\ deaths = 0 /\ terms = 0 /\ lost = 0 /\ raced = FALSE
-----------------------------------------------------------------------------
(* The running frame                                                       *)

\* The running frame is at a point of a function, goes on, or returns.
At(fn, pc) == server = "up" /\ Head(stack).fn = fn /\ Head(stack).pc = pc
me         == Head(stack)
Goto(pc, i, pid) == stack' = <<[me EXCEPT !.pc = pc, !.i = i, !.pid = pid]>> \o Tail(stack)
Return     == stack' = Tail(stack)

\* Frames of a function on the stack.
Active(fn) == \E n \in DOMAIN stack : stack[n].fn = fn

\* Mutant of TermMasked: the mask of the SIGCHLD handler has no effect.
TermMaskedByItself == Active("kill")

\* A handler blocks its own signal, and those of its mask.
TermMasked == Active("kill") \/ (mask /\ Active("restart"))

ChldMasked == Active("restart") /\ "NODEFER" \notin flags
-----------------------------------------------------------------------------
(* Children                                                                *)

\* A child dies. SIGCHLD is raised if there is a handler, and is not counted.
Dies(p, ch) ==
  /\ status' = [status EXCEPT ![p] =
       IF server # "up" \/ ("SIGCHLD" \in handlers /\ "NOCLDWAIT" \in flags)
       THEN "gone" ELSE "zombie"]
  /\ child' = [ch EXCEPT ![p] = NoChild]
  /\ IF server = "up" /\ "SIGCHLD" \in handlers
     THEN /\ pending' = pending \union {"SIGCHLD"}
          /\ lost' = IF "SIGCHLD" \in pending THEN lost + 1 ELSE lost
     ELSE /\ lost' = lost + 1
          /\ UNCHANGED pending
  /\ UNCHANGED raced

\* Something ends a child: a signal, a crash, SIGPIPE in its send.
ChildDie(p) ==
  /\ status[p] = "running" /\ deaths < MaxDeaths
  /\ deaths' = deaths + 1
  /\ Dies(p, child)
  /\ UNCHANGED <<server, stack, proc_tab, sig, terms>>

\* A child that is stopped raises SIGCHLD too, unless the flags say otherwise.
ChildStop(p) ==
  /\ status[p] = "running" /\ deaths < MaxDeaths /\ server = "up"
  /\ "SIGCHLD" \in handlers /\ "NOCLDSTOP" \notin flags
  /\ deaths' = deaths + 1
  /\ pending' = pending \union {"SIGCHLD"}
  /\ UNCHANGED <<server, stack, proc_tab, sig, status, child, terms, hist>>

\* start_child of a child that was forked with handlers: SIGTERM gets its default
\* action back, the mask stays.
start_child(p) ==
  /\ status[p] = "running" /\ child[p].inherits
  /\ child' = [child EXCEPT ![p] = [child[p] EXCEPT !.inherits = FALSE, !.tab = NoChild.tab]]
  /\ UNCHANGED <<server, stack, proc_tab, sig, pending, status, env, hist>>

\* SIGTERM of the processes of a table that run.
Terminated(tab) ==
  [p \in Pid |-> IF status[p] = "running" /\ \E k \in Slot : tab[k] = p
                 THEN [child[p] EXCEPT !.term = TRUE] ELSE child[p]]

\* SIGTERM ends a child. One that still has the server's handler runs kill_child
\* first, on its own copy of the table.
ChildTerm(p) ==
  /\ status[p] = "running" /\ child[p].term /\ ~child[p].masked
  /\ Dies(p, IF child[p].inherits THEN Terminated(child[p].tab) ELSE child)
  /\ UNCHANGED <<server, stack, proc_tab, sig, env>>

\* Somebody sends SIGTERM to a child, or to the server.
TermChild(p) ==
  /\ status[p] = "running" /\ terms < MaxTerm
  /\ terms' = terms + 1
  /\ child' = [child EXCEPT ![p].term = TRUE]
  /\ UNCHANGED <<server, stack, proc_tab, sig, pending, status, deaths, hist>>

TermServer ==
  /\ server = "up" /\ terms < MaxTerm
  /\ terms' = terms + 1
  /\ pending' = pending \union {"SIGTERM"}
  /\ UNCHANGED <<server, stack, proc_tab, sig, status, child, deaths, hist>>
-----------------------------------------------------------------------------
(* main                                                                    *)

\* fork in main or in restart_child.
Fork ==
  /\ At("main", "fork") \/ At("restart", "fork")
  /\ \E p \in Pid :
       /\ status[p] = "unused" /\ \A q \in Pid : q < p => status[q] # "unused"
       /\ status' = [status EXCEPT ![p] = "running"]
       /\ child' = [child EXCEPT ![p] =
            [inherits |-> "SIGTERM" \in handlers, masked |-> TermMasked,
             tab |-> proc_tab, term |-> FALSE]]
       /\ Goto("store", me.i, p)
  /\ UNCHANGED <<server, proc_tab, sig, pending, env, hist>>

\* The frame after entry i of the table was written.
Stored ==
  IF me.fn = "restart" THEN Return
  ELSE Goto(IF me.i + 1 < MAX_POOL THEN "fork" ELSE "setterm", me.i + 1, 0)

ForkFail ==
  /\ At("main", "fork") \/ At("restart", "fork")
  /\ proc_tab' = [proc_tab EXCEPT ![me.i] = -1]
  /\ Stored
  /\ UNCHANGED <<server, sig, pending, status, child, env, hist>>

\* Mutant of Store: the table keeps the number of the dead child.
StoreNot ==
  /\ At("main", "store") \/ At("restart", "store")
  /\ proc_tab' = IF me.fn = "main" THEN [proc_tab EXCEPT ![me.i] = me.pid] ELSE proc_tab
  /\ Stored
  /\ UNCHANGED <<server, sig, pending, status, child, env, hist>>

\* The parent's side of fork.
Store ==
  /\ At("main", "store") \/ At("restart", "store")
  /\ proc_tab' = [proc_tab EXCEPT ![me.i] = me.pid]
  /\ Stored
  /\ UNCHANGED <<server, sig, pending, status, child, env, hist>>

\* set_signalset, first SIGTERM and then SIGCHLD. main is in pause from then on.
set_signalset ==
  /\ \/ At("main", "setterm") /\ handlers' = {"SIGTERM"} /\ Goto("setchld", me.i, 0)
     \/ At("main", "setchld") /\ handlers' = {"SIGTERM", "SIGCHLD"} /\ Goto("pause", me.i, 0)
  /\ UNCHANGED <<server, proc_tab, flags, mask, pending, status, child, env, hist>>
-----------------------------------------------------------------------------
(* Signal handlers                                                         *)

\* The server ends; whatever adopts its zombies reaps them.
Ends(how) ==
  /\ server' = how /\ stack' = << >> /\ pending' = {}
  /\ status' = [p \in Pid |-> IF status[p] = "zombie" THEN "gone" ELSE status[p]]

\* SIGTERM is delivered.
DeliverTerm ==
  /\ server = "up" /\ "SIGTERM" \in pending /\ ~TermMasked
  /\ IF "SIGTERM" \in handlers
     THEN /\ stack' = <<[fn |-> "kill", pc |-> "kill", i |-> 0, pid |-> 0]>> \o stack
          /\ pending' = pending \ {"SIGTERM"}
          /\ UNCHANGED <<server, status>>
     ELSE Ends("killed")
  /\ UNCHANGED <<proc_tab, sig, child, env, hist>>

\* kill_child: if (proc_tab[i] > 0), for the next entry of the table.
KillTest ==
  /\ At("kill", "kill") /\ me.i < MAX_POOL
  /\ IF proc_tab[me.i] > 0 THEN Goto("load", me.i, proc_tab[me.i]) ELSE Goto("kill", me.i + 1, 0)
  /\ raced' = FALSE
  /\ UNCHANGED <<server, proc_tab, sig, pending, status, child, env, lost>>

\* The argument of kill: the entry is read again, or, as it is not volatile, the value of
\* the test is kept.
KillLoad ==
  /\ At("kill", "load")
  /\ \E pid \in {me.pid, proc_tab[me.i]} : Goto("send", me.i, pid)
  /\ UNCHANGED <<server, proc_tab, sig, pending, status, child, env, hist>>

\* kill: a process that has gone gets nothing, and with -1 every process gets the signal.
KillSend ==
  /\ At("kill", "send")
  /\ child' = [p \in Pid |-> IF status[p] = "running" /\ me.pid \in {p, -1}
                             THEN [child[p] EXCEPT !.term = TRUE] ELSE child[p]]
  /\ Goto("kill", me.i + 1, 0)
  /\ UNCHANGED <<server, proc_tab, sig, pending, status, env, hist>>

\* Mutant of KillExit: the handler returns instead.
KillReturn ==
  /\ At("kill", "kill") /\ me.i = MAX_POOL
  /\ Return
  /\ UNCHANGED <<server, proc_tab, sig, pending, status, child, env, hist>>

\* close(fd_listener) and exit.
KillExit ==
  /\ At("kill", "kill") /\ me.i = MAX_POOL
  /\ Ends("exited")
  /\ UNCHANGED <<proc_tab, sig, child, env, hist>>

\* SIGCHLD is delivered: restart_child is called.
DeliverChld ==
  /\ server = "up" /\ "SIGCHLD" \in pending /\ ~ChldMasked
  /\ stack' = <<[fn |-> "restart", pc |-> "wait", i |-> 0, pid |-> 0]>> \o stack
  /\ pending' = pending \ {"SIGCHLD"}
  /\ handlers' = IF "RESETHAND" \in flags THEN handlers \ {"SIGCHLD"} ELSE handlers
  /\ UNCHANGED <<server, proc_tab, flags, mask, status, child, env, hist>>

\* waitpid(-1, WNOHANG) returns a child that is dead.
WaitPid ==
  /\ At("restart", "wait")
  /\ \E p \in Pid :
       /\ status[p] = "zombie"
       /\ status' = [status EXCEPT ![p] = "gone"]
       /\ Goto("find", 0, p)
       /\ raced' = (raced \/ \E n \in DOMAIN stack : stack[n].pc \in {"load", "send"}
                                                     /\ stack[n].pid = p)
  /\ UNCHANGED <<server, proc_tab, sig, pending, child, env, lost>>

\* waitpid has nothing to return.
WaitPidNone ==
  /\ At("restart", "wait") /\ \A p \in Pid : status[p] # "zombie"
  /\ Return
  /\ UNCHANGED <<server, proc_tab, sig, pending, status, child, env, hist>>

\* Mutant of Find: the search leaves out the first entry.
FindLate ==
  /\ At("restart", "find")
  /\ \/ \E k \in Slot \ {0} : proc_tab[k] = me.pid /\ Goto("fork", k, 0)
     \/ (\A k \in Slot \ {0} : proc_tab[k] # me.pid) /\ Return
  /\ UNCHANGED <<server, proc_tab, sig, pending, status, child, env, hist>>

\* The search for the dead child in the table.
Find ==
  /\ At("restart", "find")
  /\ \/ \E k \in Slot : /\ proc_tab[k] = me.pid /\ \A l \in 0 .. k - 1 : proc_tab[l] # me.pid
                        /\ Goto("fork", k, 0)
     \/ (\A k \in Slot : proc_tab[k] # me.pid) /\ Return
  /\ UNCHANGED <<server, proc_tab, sig, pending, status, child, env, hist>>
-----------------------------------------------------------------------------
Server == \/ Fork \/ ForkFail \/ Store \/ set_signalset \/ DeliverTerm \/ KillTest
          \/ KillLoad \/ KillSend \/ KillExit \/ DeliverChld \/ WaitPid \/ WaitPidNone \/ Find
Next   == \/ Server \/ TermServer
          \/ \E p \in Pid : \/ ChildDie(p) \/ ChildStop(p) \/ start_child(p)
                            \/ ChildTerm(p) \/ TermChild(p)

Spec == Init /\ [][Next]_vars

\* Processes run; nothing makes a child die, and a fork need not succeed.
FairSpec == Spec /\ WF_vars(Server) /\ \A p \in Pid : WF_vars(start_child(p) \/ ChildTerm(p))
-----------------------------------------------------------------------------
(* Correctness                                                             *)

Frame == [fn : {"main", "restart", "kill"}, i : 0 .. MAX_POOL, pid : Pid \union {0, -1},
          pc : {"fork", "store", "setterm", "setchld", "pause", "wait", "find", "kill",
                "load", "send"}]

TypeOK ==
  /\ server \in {"up", "exited", "killed"} /\ stack \in Seq(Frame)
  /\ proc_tab \in [Slot -> Pid \union {0, -1}]
  /\ handlers \subseteq {"SIGTERM", "SIGCHLD"} /\ flags \in SigFlags /\ mask \in SigMask
  /\ pending \subseteq {"SIGTERM", "SIGCHLD"}
  /\ status \in [Pid -> {"unused", "running", "zombie", "gone"}] /\ child \in [Pid -> Child]
  /\ deaths \in 0 .. MaxDeaths /\ terms \in 0 .. MaxTerm /\ lost \in Nat /\ raced \in BOOLEAN

Zombies == {p \in Pid : status[p] = "zombie"}
Holding(pc) == {n \in DOMAIN stack : stack[n].pc = pc}

\* Every dead child has a call of waitpid coming: restart_child calls it once for each
\* SIGCHLD, and what a signal does not announce (one is pending already, or there is no
\* handler yet) costs the pool one child and not more.
ZombieHasSignal ==
  server = "up" =>
    Cardinality(Zombies) <= lost + Cardinality(Holding("wait"))
                            + Cardinality(pending \ {"SIGTERM"})

\* No child is forgotten: each one is in one entry of the table, or is about to be
\* written there. The handler must not be interrupted by itself for this, and a dead
\* child must keep its number until it is waited for.
EachChildOnce ==
  server = "up" /\ flags \cap {"NODEFER", "NOCLDWAIT"} = {} =>
    /\ \A k, l \in Slot : proc_tab[k] = proc_tab[l] /\ proc_tab[k] > 0 => k = l
    /\ \A p \in Pid : status[p] \in {"running", "zombie"} =>
         \/ \E k \in Slot : proc_tab[k] = p
         \/ \E n \in Holding("store") : stack[n].pid = p

\* restart_child was interrupted while it replaced the child of frame f's entry.
BeingReplaced(f) ==
  \E n \in DOMAIN stack :
    /\ stack[n].fn = "restart"
    /\ \/ stack[n].pc = "find" /\ stack[n].pid = f.pid
       \/ stack[n].pc \in {"fork", "store"} /\ stack[n].i = f.i

\* What kill_child hands to kill is the number of a child that has not been waited for, and
\* not one that may have a new owner, nor the -1 that signals every process. There are two
\* exceptions: a SIGCHLD, which kill_child leaves unmasked, had that very child reaped between
\* the test of the entry and the call of kill; or SIGTERM, where the SIGCHLD handler's mask
\* does not have it, interrupted restart_child in the middle of replacing that child.
KillHitsChild ==
  flags \cap {"NODEFER", "NOCLDWAIT"} = {} /\ At("kill", "send") =>
    \/ me.pid \in Pid /\ status[me.pid] # "gone"
    \/ raced
    \/ ~mask /\ BeingReplaced(me)

\* A child that dies is replaced ("if killed child, refork one"), unless a SIGCHLD was
\* lost, fork fails or the server ends.
Reforked ==
  \A k \in Slot : \A p \in Pid :
    (proc_tab[k] = p /\ status[p] = "zombie") ~>
      \/ lost > 0 \/ server # "up" \/ proc_tab[k] = -1
      \/ flags \cap {"NODEFER", "NOCLDWAIT", "RESETHAND"} # {}
      \/ proc_tab[k] \in Pid /\ status[proc_tab[k]] = "running"

\* SIGTERM ends the server, however many children die meanwhile.
TermEnds == ("SIGTERM" \in pending) ~> (server # "up")

\* What the comment on kill_child says, "Kill all child process on proc_tab[]": no child
\* in the table survives the server. SIGCHLD of the children it has killed interrupts
\* kill_child, and restart_child puts new children behind its index: this is false.
KillsAll ==
  server = "exited" => \A k \in Slot : \A p \in Pid :
    proc_tab[k] = p /\ status[p] = "running" => child[p].term

\* The table is true to the processes: each child is in it once, and each that died is
\* announced or being waited for.
TableTrue == TypeOK /\ EachChildOnce /\ ZombieHasSignal
=============================================================================
