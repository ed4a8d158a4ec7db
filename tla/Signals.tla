------------------------------ MODULE Signals ------------------------------
(***************************************************************************)
(* The signal samples of 9.signal and the timer of 10.realtime, one        *)
(* process with its mask, its pending signals and the handlers it runs:    *)
(*   "basic"      sig_basic, with and without WITH_SA_NOMASK, and          *)
(*                sig_siginfo, whose handlers are installed the same way   *)
(*   "pending"    sig_pending: signals are blocked and looked at           *)
(*   "nocldstop"  sig_nocldstop: a child and SA_NOCLDSTOP                  *)
(*   "sigthread"  pthread_signal: a thread that takes signals by sigwait   *)
(*   "timer"      rt_timer: a periodic timer raises a real-time signal     *)
(* Signals are pending once, however often they were sent.                 *)
(***************************************************************************)
EXTENDS Integers, Sequences

CONSTANT MaxSent      \* bound: how often each signal is sent
ASSUME SignalAssumption == MaxSent \in Nat

VARIABLES sprog,
          nodefer,    \* built with WITH_SA_NOMASK
          sat,        \* where main is
          installed,  \* signals that have a handler
          smask,      \* the signals main, or the handler that runs, has blocked
          oldmask,    \* sigset_oldmask
          spend,      \* pending signals
          stack,      \* the handlers that run: [sig, saved mask, may still call waitpid]
          child,      \* of sig_nocldstop
          taker,      \* the thread in sigwait
          sended,     \* how the process ended: "no", "exit", or the signal that killed it
          vain,       \* history: a SIGCHLD handler found no child to wait for
          sent        \* signal, or a stop of the child -> how often there was one

sigvars == <<sprog, nodefer, sat, installed, smask, oldmask, spend, stack, child, taker,
             sended, vain, sent>>

Sig == {"USR1", "USR2", "INT", "TERM", "CHLD", "RT"}

SigAt(g, d, how) ==
  /\ sprog = g /\ nodefer = d /\ sat = "install" /\ installed = {}
  /\ smask = {} /\ oldmask = {} /\ spend = {} /\ stack = << >>
  /\ child = "none" /\ taker = "none" /\ sended = how /\ vain = FALSE
  /\ sent = [s \in Sig \union {"STOP"} |-> 0]

SigInit ==
  \E g \in {"basic", "pending", "nocldstop", "sigthread", "timer"}, d \in BOOLEAN :
    (d => g = "basic") /\ SigAt(g, d, "no")

Alive == sended = "no"
Deliverable == spend \ smask
----------------------------------------------------------------------------
(* Handlers                                                                *)

\* Mutant of SaMask: sigfillset of the first handler is forgotten.
SaMaskEmpty(s) == {}
\* sa_mask: filled for SIGUSR1 and SIGCHLD, empty for SIGUSR2 and the timer.
SaMask(s) == IF s \in {"USR1", "CHLD"} THEN Sig ELSE {}

\* A handler runs with its sa_mask added, and its own signal unless SA_NODEFER.
Enter(s) ==
  /\ Alive /\ s \in Deliverable /\ s \in installed
  /\ spend' = spend \ {s}
  /\ stack' = Append(stack, [sig |-> s, saved |-> smask, waits |-> s = "CHLD"])
  /\ smask' = smask \union SaMask(s) \union (IF nodefer THEN {} ELSE {s})
  /\ UNCHANGED <<sprog, nodefer, sat, installed, oldmask, child, taker, sended, vain, sent>>

\* The default action: SIGCHLD is ignored, the others end the process.
Default(s) ==
  /\ Alive /\ s \in Deliverable /\ s \notin installed
  /\ spend' = spend \ {s} /\ sended' = IF s = "CHLD" THEN sended ELSE s
  /\ UNCHANGED <<sprog, nodefer, sat, installed, smask, oldmask, stack, child, taker, vain, sent>>

Top == stack[Len(stack)]
InHandler == Alive /\ Deliverable = {} /\ stack # << >>

\* chk_chld: one waitpid(-1, &status, WNOHANG).
WaitChild ==
  /\ InHandler /\ Top.waits
  /\ stack' = [stack EXCEPT ![Len(stack)].waits = FALSE]
  /\ child' = IF child = "dead" THEN "reaped" ELSE child
  /\ vain' = (vain \/ child # "dead")
  /\ UNCHANGED <<sprog, nodefer, sat, installed, smask, oldmask, spend, taker, sended, sent>>

\* The handler returns: the mask is restored, and a pause or sigsuspend ends.
HandlerReturn ==
  /\ InHandler /\ ~Top.waits
  /\ stack' = SubSeq(stack, 1, Len(stack) - 1) /\ smask' = Top.saved
  /\ sat' = IF sat = "pause" /\ Len(stack) = 1 THEN "woken" ELSE sat
  /\ UNCHANGED <<sprog, nodefer, installed, oldmask, spend, child, taker, sended, vain, sent>>
----------------------------------------------------------------------------
(* main                                                                    *)

InMain(at) == Alive /\ Deliverable = {} /\ stack = << >> /\ sat = at
\* What main does besides moving on is left to its caller.
Then(at) == sat' = at /\ UNCHANGED <<sprog, nodefer, spend, stack, vain, sent>>

\* The sigaction calls of each program, before anything else happens.
HandlerOf == CASE sprog = "basic"     -> {"USR1", "USR2"}
               [] sprog = "pending"   -> {"USR1"}
               [] sprog = "nocldstop" -> {"CHLD"}
               [] sprog = "timer"     -> {"RT"}
               [] OTHER               -> {}

\* One sigaction after the other; a program without handlers goes straight on.
Install ==
  /\ InMain("install")
  /\ IF HandlerOf \subseteq installed
     THEN /\ Then(CASE sprog = "pending" -> "block" [] sprog = "sigthread" -> "mask"
                    [] sprog = "nocldstop" -> "fork" [] OTHER -> "pause")
          /\ UNCHANGED installed
     ELSE /\ \E s \in HandlerOf \ installed :
               (s = "USR2" => "USR1" \in installed) /\ installed' = installed \union {s}
          /\ Then("install")
  /\ UNCHANGED <<smask, oldmask, child, taker, sended>>

\* inst_timer: sigaction, timer_create or timer_settime fails.
InstallFails == /\ InMain("install") /\ sprog = "timer" /\ Then("install") /\ sended' = "exit"
                /\ UNCHANGED <<installed, smask, oldmask, child, taker>>

\* The end of the loop around pause.
Woken == /\ InMain("woken") /\ Then("pause")
         /\ UNCHANGED <<installed, smask, oldmask, child, taker, sended>>

\* sigfillset, sigdelset(SIGINT)
Blocked == Sig \ {"INT"}

\* sig_pending: everything but SIGINT is blocked for five seconds ...
Block == /\ InMain("block") /\ Then("look") /\ smask' = Blocked /\ oldmask' = smask
         /\ UNCHANGED <<installed, child, taker, sended>>

\* ... sigpending: a SIGTERM that came meanwhile ends the program ...
Look == /\ InMain("look") /\ Then("unblock")
        /\ sended' = IF "TERM" \in spend THEN "exit" ELSE "no"
        /\ UNCHANGED <<installed, smask, oldmask, child, taker>>

\* ... and the rest is let in: sigprocmask does not return before it was delivered.
Unblock == /\ InMain("unblock") /\ Then("block") /\ smask' = oldmask
           /\ UNCHANGED <<installed, oldmask, child, taker, sended>>

\* sig_nocldstop: fork, which may fail.
ForkChild == /\ InMain("fork") /\ Then("pause") /\ child' \in {"running", "none"}
             /\ UNCHANGED <<installed, smask, oldmask, taker, sended>>

\* pthread_signal: main masks before it creates threads, which inherit its mask.
MaskAll == /\ InMain("mask") /\ Then("create") /\ smask' = Blocked /\ oldmask' = smask
           /\ UNCHANGED <<installed, child, taker, sended>>

\* pthread_create of the signal thread and of the workers; a failure returns from main.
CreateThreads ==
  /\ InMain("create")
  /\ \/ taker = "none" /\ Then("create") /\ taker' = "wait" /\ UNCHANGED sended
     \/ taker # "none" /\ Then("join") /\ UNCHANGED <<taker, sended>>
     \/ Then("join") /\ sended' = "exit" /\ UNCHANGED taker
  /\ UNCHANGED <<installed, smask, oldmask, child>>

\* sigaddset(SIGUSR1), sigaddset(SIGTERM)
Waited == {"USR1", "TERM"}

\* start_sigthread: sigwait takes a pending signal; SIGTERM ends the process.
SigWait(s) ==
  /\ Alive /\ taker = "wait" /\ s \in spend \intersect Waited
  /\ spend' = spend \ {s} /\ sended' = IF s = "TERM" THEN "exit" ELSE "no"
  /\ UNCHANGED <<sprog, nodefer, sat, installed, smask, oldmask, stack, child, taker, vain, sent>>

SigMain == Install \/ InstallFails \/ Woken \/ Block \/ Look \/ Unblock \/ ForkChild \/ MaskAll
           \/ CreateThreads
----------------------------------------------------------------------------
(* The rest of the system                                                  *)

\* A user sends a signal, a SIGCHLD by hand too; the timer expires once it was armed by
\* timer_settime.
Kill(s) ==
  /\ Alive /\ s \in {"USR1", "USR2", "INT", "TERM", "CHLD"} /\ sent[s] < MaxSent
  /\ sent' = [sent EXCEPT ![s] = @ + 1] /\ spend' = spend \union {s}
  /\ UNCHANGED <<sprog, nodefer, sat, installed, smask, oldmask, stack, child, taker, sended, vain>>

Expire ==
  /\ Alive /\ sprog = "timer" /\ sat \in {"pause", "woken"} /\ sent["RT"] < MaxSent
  /\ sent' = [sent EXCEPT !["RT"] = @ + 1] /\ spend' = spend \union {"RT"}
  /\ UNCHANGED <<sprog, nodefer, sat, installed, smask, oldmask, stack, child, taker, sended, vain>>

\* SA_NOCLDSTOP: a child that stops or goes on is not announced.
StopSignals == {}

ChildStops ==
  /\ Alive /\ child \in {"running", "stopped"} /\ sent["STOP"] < MaxSent
  /\ child' = IF child = "running" THEN "stopped" ELSE "running"
  /\ spend' = spend \union StopSignals /\ sent' = [sent EXCEPT !["STOP"] = @ + 1]
  /\ UNCHANGED <<sprog, nodefer, sat, installed, smask, oldmask, stack, taker, sended, vain>>

ChildDies ==
  /\ Alive /\ child \in {"running", "stopped"}
  /\ child' = "dead" /\ spend' = spend \union {"CHLD"}
  /\ UNCHANGED <<sprog, nodefer, sat, installed, smask, oldmask, stack, taker, sended, vain, sent>>

Deliver == \E s \in Sig : Enter(s) \/ Default(s)
Handle  == WaitChild \/ HandlerReturn
TakeOne == \E s \in Sig : SigWait(s)

SigNext == \/ Deliver \/ Handle \/ SigMain \/ TakeOne
           \/ \E s \in Sig : Kill(s)
           \/ Expire \/ ChildStops \/ ChildDies

\* The process is scheduled; who sends signals, and the child, need not do anything.
SigFairness == /\ WF_sigvars(Deliver \/ Handle) /\ WF_sigvars(SigMain) /\ WF_sigvars(TakeOne)

SigSpec == SigInit /\ [][SigNext]_sigvars /\ SigFairness
----------------------------------------------------------------------------
(* Properties                                                              *)

\* A handler that filled its mask is never interrupted, not even when it was built with
\* SA_NODEFER, and the handler of SIGUSR2 interrupts itself in that build only
\* (sig_basic.c:23 and :30).
HandlersNest ==
  \A i, j \in 1 .. Len(stack) : i < j =>
    /\ stack[i].sig \notin {"USR1", "CHLD"}
    /\ stack[i].sig = stack[j].sig => nodefer

\* With SA_NOCLDSTOP the child's SIGCHLD is a death, so chk_chld calls waitpid in vain only if
\* somebody sent the signal by hand; and a dead child is either reaped or still announced.
EachChldReaps ==
  /\ vain => sent["CHLD"] > 0
  /\ child = "dead" /\ Alive =>
       \/ "CHLD" \in spend
       \/ \E i \in 1 .. Len(stack) : stack[i].waits

\* Once the program is set up, the default action of a signal ends it only for SIGINT,
\* for what a program does not handle at all, and in sig_pending outside of its blocked
\* stretch (what came within it ends the program at the unblock, sig_pending.c:42): never
\* by SIGUSR1, by the timer, or in pthread_signal by anything blocked.
KilledByDesign ==
  sended \in Sig /\ sat # "install" =>
    \/ sended = "INT"
    \/ sended = "TERM" /\ sprog # "sigthread"
    \/ sended = "USR2" /\ sprog \notin {"basic", "sigthread"}
    \/ sended = "USR1" /\ sprog \in {"nocldstop", "timer"}
    \/ sprog = "sigthread" /\ sat = "mask"

\* No signal is left waiting: it is delivered, taken by the signal thread, or found by
\* sigpending. What pthread_signal blocks and waits for nowhere is the exception.
NothingPends ==
  <>[](~Alive \/ spend \subseteq (IF sprog = "sigthread" THEN {"USR2", "CHLD"} ELSE {}))

\* Handlers nest as their masks say, every SIGCHLD of a child reaps it and no program is ended by a
\* signal that it handles or blocks.
SignalsKept == HandlersNest /\ EachChldReaps /\ KilledByDesign
=============================================================================
