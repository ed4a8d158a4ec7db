----------------------------- MODULE MCSamples -----------------------------
(***************************************************************************)
(* The sample programs checked in one run: threads (ThreadSamples),        *)
(* signals and timers (Signals), asynchronous copies (AioCopy), echo       *)
(* servers (EchoPool), and servers told by edge, level or signal           *)
(* (Triggers).  They are separate programs: a behaviour runs one of them,  *)
(* and the others have ended before it begins.                             *)
(***************************************************************************)
EXTENDS ThreadSamples, Signals, AioCopy, EchoPool, Triggers

allvars == <<thrvars, sigvars, aiovars, poolvars, trgvars>>

ThrIdle  == ThrAt("rand", "returned")
SigIdle  == SigAt("basic", FALSE, "exit")
AioIdle  == AioAt("wait", 0, 0, "end")
PoolIdle == PoolAt("serv1", "exit")
TrgIdle  == TrgAt("level", "returned", Fds)

MCInit == \/ ThrInit  /\ SigIdle /\ AioIdle /\ PoolIdle /\ TrgIdle
          \/ SigInit  /\ ThrIdle /\ AioIdle /\ PoolIdle /\ TrgIdle
          \/ AioInit  /\ ThrIdle /\ SigIdle /\ PoolIdle /\ TrgIdle
          \/ PoolInit /\ ThrIdle /\ SigIdle /\ AioIdle /\ TrgIdle
          \/ TrgInit  /\ ThrIdle /\ SigIdle /\ AioIdle /\ PoolIdle

MCNext == \/ ThrNext  /\ UNCHANGED <<sigvars, aiovars, poolvars, trgvars>>
          \/ SigNext  /\ UNCHANGED <<thrvars, aiovars, poolvars, trgvars>>
          \/ AioNext  /\ UNCHANGED <<thrvars, sigvars, poolvars, trgvars>>
          \/ PoolNext /\ UNCHANGED <<thrvars, sigvars, aiovars, trgvars>>
          \/ TrgNext  /\ UNCHANGED <<thrvars, sigvars, aiovars, poolvars>>

MCSpec == MCInit /\ [][MCNext]_allvars /\ ThrFairness /\ SigFairness /\ PoolFairness
          /\ TrgFairness

\* Programs return, signals are taken, and clients that wait or left are attended to, with the
\* exceptions that MainReturns, NothingPends, PoolServes and LeftIsClosed name.
SamplesLive == MainReturns /\ NothingPends /\ PoolServes /\ LeftIsClosed
=============================================================================
