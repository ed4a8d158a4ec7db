----------------------------- MODULE Semaphores -----------------------------
(***************************************************************************)
(* The critical section samples.  Two instances of one program run at the  *)
(* same time and find their semaphore by one key or name:                  *)
(*   "sysv"      sysv_sem: a System V semaphore, SEM_UNDO                  *)
(*   "zero"      sysv_sem_waitforzero: value 2, and a child that waits for *)
(*               the value 0                                               *)
(*   "nameless"  posix_nameless_sem: a sem_t in POSIX shared memory        *)
(*   "named"     posix_named_sem: interactive, no children                 *)
(* The child with index 2 aborts inside its critical section.              *)
(***************************************************************************)
EXTENDS Integers, FiniteSets

CONSTANTS Inst,     \* the instances
          MaxChild  \* bound: the number of children that an instance is called with

ASSUME SemAssumption == IsFiniteSet(Inst) /\ MaxChild \in Nat

VARIABLES kind, n_child,
          key,      \* the semaphore that key or name leads to, 0 for none
          sem,      \* semaphore -> [state, val]
          parent,   \* instance -> place in main
          id,       \* instance -> sem_id or p_psem: a semaphore, or NoId
          child,    \* <<instance, index>> -> place of the child
          undo,     \* child -> semaphore -> adjustment the kernel makes when it exits
          zeros,    \* wait-for-zero children that the kernel has let go
          blame     \* what the callers did wrong to each other so far

semvars == <<kind, n_child, key, sem, parent, id, child, undo, zeros, blame>>

Gen    == 1 .. Cardinality(Inst)
NoId   == -1
Child  == Inst \X (0 .. MaxChild)
ZChild == MaxChild                \* the place of the wait-for-zero child
Value  == IF kind = "zero" THEN 2 ELSE 1
SysV   == kind \in {"sysv", "zero"}

SemAt(k, n, place) ==
  /\ kind = k /\ n_child = n
  /\ key = 0 /\ sem = [g \in Gen |-> [state |-> "none", val |-> 0]]
  /\ parent = [i \in Inst |-> place] /\ id = [i \in Inst |-> NoId]
  /\ child = [c \in Child |-> "none"] /\ undo = [c \in Child |-> [g \in Gen |-> 0]]
  /\ zeros = {} /\ blame = {}

SemInit == \E k \in {"sysv", "zero", "nameless", "named"}, n \in 0 .. MaxChild : SemAt(k, n, "start")

Fresh == CHOOSE g \in Gen : sem[g].state = "none"
Live(g) == g # NoId /\ sem[g].state # "gone"
Goes(i, l) == parent' = [parent EXCEPT ![i] = l]
Blame(b, x) == blame' = IF b THEN blame \cup {x} ELSE blame

----------------------------------------------------------------------------
(* Finding the semaphore.                                                  *)

\* The call with IPC_CREAT | IPC_EXCL or O_CREAT | O_EXCL.  Only sem_open creates and
\* sets the value in one step.
Create(i) ==
  /\ parent[i] = "start"
  /\ IF key # 0 THEN Goes(i, "attach") /\ UNCHANGED <<key, sem, id>>
     ELSE /\ key' = Fresh /\ id' = [id EXCEPT ![i] = Fresh]
          /\ sem' = [sem EXCEPT ![Fresh] =
                        [state |-> IF kind = "nameless" THEN "empty" ELSE "live",
                         val   |-> IF kind = "named" THEN 1 ELSE 0]]
          /\ Goes(i, IF kind = "named" THEN "wait" ELSE "init")
  /\ UNCHANGED <<kind, n_child, child, undo, zeros, blame>>

\* The second call after EEXIST; the name may be gone by then.  sysv_semget returns -1,
\* which nobody looks at; sem_open returns SEM_FAILED, which the program dereferences.
Attach(i) ==
  /\ parent[i] = "attach"
  /\ id' = [id EXCEPT ![i] = IF key = 0 THEN NoId ELSE key]
  /\ Goes(i, IF kind = "nameless" THEN "map"
             ELSE IF kind = "named" THEN (IF key = 0 THEN "crashed" ELSE "wait") ELSE "fork")
  /\ Blame(key = 0, "no id")
  /\ UNCHANGED <<kind, n_child, key, sem, child, undo, zeros>>

\* Mutant of SetAll: the initial value is one too large.
SetAllMore(i) ==
  /\ SysV /\ parent[i] = "init" /\ Goes(i, "fork")
  /\ sem' = [sem EXCEPT ![id[i]].val = Value + 1]
  /\ UNCHANGED <<kind, n_child, key, id, child, undo, zeros, blame>>

\* semctl SETALL clears the adjustments of every process.
SetAll(i) ==
  /\ SysV /\ parent[i] = "init" /\ Goes(i, "fork")
  /\ IF Live(id[i])
     THEN /\ sem' = [sem EXCEPT ![id[i]].val = Value]
          /\ undo' = [c \in Child |-> [undo[c] EXCEPT ![id[i]] = 0]]
          /\ UNCHANGED <<id, blame>>
     ELSE id' = [id EXCEPT ![i] = NoId] /\ Blame(TRUE, "no id") /\ UNCHANGED <<sem, undo>>
  /\ UNCHANGED <<kind, n_child, key, child, zeros>>

\* malloc fails: the set stays behind with the value 0.
SetAllFail(i) ==
  /\ SysV /\ parent[i] = "init" /\ Goes(i, "fork")
  /\ id' = [id EXCEPT ![i] = NoId] /\ Blame(TRUE, "no id")
  /\ UNCHANGED <<kind, n_child, key, sem, child, undo, zeros>>

\* ftruncate of the shared memory; a failure leaves it behind without a size.
Ftruncate(i) ==
  /\ kind = "nameless" /\ parent[i] = "init"
  /\ \/ Goes(i, "map") /\ sem' = [sem EXCEPT ![id[i]].state = "live"]
     \/ Goes(i, "dead") /\ UNCHANGED sem
  /\ UNCHANGED <<kind, n_child, key, id, child, undo, zeros, blame>>

\* mmap and sem_init, whether or not the memory was there before; it traps when the other
\* instance has not given it a size yet.
InitSem(i) ==
  /\ kind = "nameless" /\ parent[i] = "map"
  /\ IF sem[id[i]].state = "empty" THEN Goes(i, "crashed") /\ UNCHANGED <<sem, blame>>
     ELSE /\ Goes(i, "fork")
          /\ sem' = [sem EXCEPT ![id[i]].val = 1]
          /\ Blame(\E c \in Child : child[c] \in {"wait", "in"}, "second sem_init")
  /\ UNCHANGED <<kind, n_child, key, id, child, undo, zeros>>

----------------------------------------------------------------------------
(* Children.                                                               *)

Indices == (0 .. n_child - 1) \cup (IF kind = "zero" THEN {ZChild} ELSE {})
Kids(i) == {<<i, k>> : k \in Indices}
Over(c) == child[c] \in {"done", "aborted", "unborn"}

Left(i) == {c \in Kids(i) : child[c] = "none"}
ZeroLeft(i) == <<i, ZChild>> \in Left(i)

\* The wait-for-zero child is forked first, and nobody looks whether that fork fails.
ForkZero(i) ==
  /\ parent[i] = "fork" /\ ZeroLeft(i)
  /\ \E l \in {"zcall", "unborn"} : child' = [child EXCEPT ![<<i, ZChild>>] = l]
  /\ UNCHANGED <<kind, n_child, key, sem, parent, id, undo, zeros, blame>>

Fork(i) ==
  /\ parent[i] = "fork" /\ ~ZeroLeft(i)
  /\ \/ Left(i) = {} /\ Goes(i, "reap") /\ UNCHANGED child
     \/ \E c \in Left(i) :
          /\ \A d \in Left(i) : c[2] <= d[2]
          /\ child' = [child EXCEPT ![c] = "wait"] /\ UNCHANGED parent
  /\ UNCHANGED <<kind, n_child, key, sem, id, undo, zeros, blame>>

\* The fork of another child fails: main exits and leaves children and semaphore behind.
ForkFail(i) ==
  /\ parent[i] = "fork" /\ ~ZeroLeft(i) /\ Left(i) # {}
  /\ Goes(i, "dead")
  /\ UNCHANGED <<kind, n_child, key, sem, id, child, undo, zeros, blame>>

\* P and V: a semaphore that is gone, or no id, makes them fail, unnoticed by the caller.
Permit(c, g, d) ==
  IF ~Live(g) THEN UNCHANGED <<sem, undo>>
  ELSE /\ sem' = [sem EXCEPT ![g].val = @ + d]
       /\ undo' = IF SysV THEN [undo EXCEPT ![c][g] = @ - d] ELSE undo

\* The value 0 lets those go that sleep for it.
sysv_semwait(c) ==
  /\ child[c] = "wait" /\ (Live(id[c[1]]) => sem[id[c[1]]].val > 0)
  /\ Permit(c, id[c[1]], -1)
  /\ child' = [child EXCEPT ![c] = "in"]
  /\ zeros' = IF Live(id[c[1]]) /\ sem[id[c[1]]].val = 1
              THEN zeros \cup {d \in Child : child[d] = "zwait" /\ id[d[1]] = id[c[1]]} ELSE zeros
  /\ UNCHANGED <<kind, n_child, key, parent, id, blame>>

\* Mutant of sysv_sempost: the child with the sem_t forgets its sem_post.
sysv_sempostForgot(c) ==
  /\ child[c] = "in" /\ c[2] # 2
  /\ IF SysV THEN Permit(c, id[c[1]], 1) ELSE UNCHANGED <<sem, undo>>
  /\ child' = [child EXCEPT ![c] = "done"]
  /\ UNCHANGED <<kind, n_child, key, parent, id, zeros, blame>>

sysv_sempost(c) ==
  /\ child[c] = "in" /\ c[2] # 2
  /\ Permit(c, id[c[1]], 1)
  /\ child' = [child EXCEPT ![c] = "done"]
  /\ UNCHANGED <<kind, n_child, key, parent, id, zeros, blame>>

Adjusted(c) ==
  [g \in Gen |-> IF sem[g].state = "live" THEN [sem[g] EXCEPT !.val = @ + undo[c][g]] ELSE sem[g]]

\* abort: the kernel applies the adjustments of a System V semaphore.
Abort(c) ==
  /\ child[c] = "in" /\ c[2] = 2
  /\ child' = [child EXCEPT ![c] = "aborted"]
  /\ sem' = Adjusted(c) /\ undo' = [undo EXCEPT ![c] = [g \in Gen |-> 0]]
  /\ UNCHANGED <<kind, n_child, key, parent, id, zeros, blame>>

\* The call: the value is 0 now, or the child sleeps.
sysv_semzwait(c) ==
  /\ child[c] = "zcall" /\ child' = [child EXCEPT ![c] = "zwait"]
  /\ zeros' = IF Live(id[c[1]]) /\ sem[id[c[1]]].val = 0 THEN zeros \cup {c} ELSE zeros
  /\ Blame(\E i \in Inst : parent[i] = "init" /\ id[i] = id[c[1]], "not set yet")
  /\ UNCHANGED <<kind, n_child, key, sem, parent, id, undo>>

\* It returns when the kernel has let it go, or fails because the set is gone.
ZeroReturns(c) ==
  /\ child[c] = "zwait" /\ (c \in zeros \/ ~Live(id[c[1]]))
  /\ child' = [child EXCEPT ![c] = "done"]
  /\ UNCHANGED <<kind, n_child, key, sem, parent, id, undo, zeros, blame>>

\* waitpid for every child, then sysv_semrm; sem_destroy of glibc does nothing and the
\* shared memory is never unlinked.
Reap(i) ==
  /\ parent[i] = "reap" /\ \A c \in Kids(i) : Over(c)
  /\ Goes(i, "done")
  /\ IF SysV /\ Live(id[i])
     THEN /\ sem' = [sem EXCEPT ![id[i]].state = "gone"]
          /\ key' = IF key = id[i] THEN 0 ELSE key
          /\ Blame(\E j \in Inst \ {i} : id[j] = id[i] /\ parent[j] # "done", "removed in use")
     ELSE UNCHANGED <<sem, key, blame>>
  /\ UNCHANGED <<kind, n_child, id, child, undo, zeros>>

----------------------------------------------------------------------------
(* posix_named_sem: wait, type something inside, post.                     *)

NamedWait(i) ==
  /\ kind = "named" /\ parent[i] = "wait" /\ sem[id[i]].val > 0
  /\ sem' = [sem EXCEPT ![id[i]].val = @ - 1] /\ Goes(i, "in")
  /\ UNCHANGED <<kind, n_child, key, id, child, undo, zeros, blame>>

\* "e" leaves the loop, anything else stays in it.
NamedPost(i) ==
  /\ kind = "named" /\ parent[i] = "in"
  /\ sem' = [sem EXCEPT ![id[i]].val = @ + 1]
  /\ \E l \in {"wait", "asked"} : Goes(i, l)
  /\ UNCHANGED <<kind, n_child, key, id, child, undo, zeros, blame>>

\* End of input inside the critical section: the program exits without a post.
NamedEof(i) ==
  /\ kind = "named" /\ parent[i] = "in" /\ Goes(i, "dead")
  /\ Blame(TRUE, "left inside")
  /\ UNCHANGED <<kind, n_child, key, sem, id, child, undo, zeros>>

\* After sem_close: the name is removed, or kept.
NamedRemove(i) ==
  /\ kind = "named" /\ parent[i] = "asked" /\ Goes(i, "done")
  /\ \/ UNCHANGED <<key, blame>>
     \/ /\ key' = 0
        /\ Blame(\E j \in Inst \ {i} : id[j] = key /\ parent[j] \in {"wait", "in", "asked"},
                 "removed in use")
  /\ UNCHANGED <<kind, n_child, sem, id, child, undo, zeros>>

ParentStep(i) ==
  \/ Create(i) \/ Attach(i) \/ SetAll(i) \/ SetAllFail(i) \/ Ftruncate(i) \/ InitSem(i)
  \/ ForkZero(i) \/ Fork(i) \/ ForkFail(i) \/ Reap(i)

ChildStep(c) == sysv_semwait(c) \/ sysv_sempost(c) \/ Abort(c) \/ sysv_semzwait(c) \/ ZeroReturns(c)

NamedStep(i) == NamedWait(i) \/ NamedPost(i) \/ NamedEof(i) \/ NamedRemove(i)

SemNext == \/ \E i \in Inst : ParentStep(i) \/ NamedStep(i)
           \/ \E c \in Child : ChildStep(c)

SemSpec == SemInit /\ [][SemNext]_semvars

\* Processes run until they wait; nobody has to type anything.
SemFairness == /\ \A i \in Inst : WF_semvars(ParentStep(i))
               /\ \A c \in Child : WF_semvars(ChildStep(c))

----------------------------------------------------------------------------
Inside == Cardinality({c \in Child : child[c] = "in"})
          + Cardinality({i \in Inst : parent[i] = "in"})

\* The critical section admits no more than its value allows, with two instances, a child
\* that aborts inside and creation split over several calls: unless one instance removed
\* or initialised the semaphore again while the other used it, or ran without any.
Exclusion == Inside <= Value \/ blame # {}

\* A wait-for-zero child is let go only when both places are taken, and none that sleeps is
\* forgotten then.
ZeroMeansFull ==
  \/ blame' # {}
  \/ /\ zeros' # zeros => Inside' = Value
     /\ Inside' = Value => \A c \in Child : child'[c] = "zwait" => c \in zeros'

\* In the end no child is left waiting.  The abort does not prevent it for a System V
\* semaphore, because of SEM_UNDO; it does for the sem_t.  A wait-for-zero child waits, and
\* its parent for it, when the value was not 0 at any time since it went to sleep.
NobodyWaitsForEver ==
  <>[](\A c \in Child : child[c] \in {"wait", "zwait"} =>
         \/ blame # {}
         \/ kind = "nameless" /\ \E d \in Child : child[d] = "aborted"
         \/ child[c] = "zwait" /\ c \notin zeros)

\* The section admits what the semaphore allows, and waiting for zero means waiting for it.
\* Nobody is inside at the start; a step keeps the one and is the other.
SemaphoreKept == [][Exclusion' /\ ZeroMeansFull]_semvars
=============================================================================
