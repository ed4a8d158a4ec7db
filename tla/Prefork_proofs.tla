--------------------------- MODULE Prefork_proofs ---------------------------
(***************************************************************************)
(* Proofs about Prefork, for pools of any size, any number of processes    *)
(* and any flags of the SIGCHLD handler: the table is true to the children *)
(* and what kill_child signals outside two windows. What makes it work is the  *)
(* shape of the stack of interrupted functions: which handlers can be      *)
(* under way at once, and what main can be doing below them.               *)
(***************************************************************************)
EXTENDS Prefork, FiniteSetTheorems, SequenceTheorems, TLAPS

USE PoolAssumption, PidAssumption, BoundAssumption

----------------------------------------------------------------------------
(* The stack: an interrupt puts a frame in front, a return takes it away   *)

LEMMA PushFrame ==
  ASSUME NEW S, NEW s \in Seq(S), NEW x \in S
  PROVE  /\ <<x>> \o s \in Seq(S) /\ Len(<<x>> \o s) = Len(s) + 1
         /\ (<<x>> \o s)[1] = x
         /\ \A n \in 1 .. Len(s) : (<<x>> \o s)[n + 1] = s[n]
<1>1. <<x>> \in Seq(S) /\ Len(<<x>>) = 1 /\ <<x>>[1] = x /\ Len(s) \in Nat
  OBVIOUS
<1>2. /\ <<x>> \o s \in Seq(S) /\ Len(<<x>> \o s) = Len(<<x>>) + Len(s)
      /\ \A i \in 1 .. Len(<<x>>) + Len(s) :
           (<<x>> \o s)[i] = IF i <= Len(<<x>>) THEN <<x>>[i] ELSE s[i - Len(<<x>>)]
  BY <1>1, ConcatProperties
<1>3. Len(<<x>> \o s) = Len(s) + 1
  BY <1>1, <1>2
<1>4. (<<x>> \o s)[1] = x
  BY <1>1, <1>2
<1>5. ASSUME NEW n \in 1 .. Len(s) PROVE (<<x>> \o s)[n + 1] = s[n]
  <2>1. n + 1 \in 1 .. 1 + Len(s) /\ ~(n + 1 <= 1) /\ (n + 1) - 1 = n
    BY <1>1
  <2> QED BY <1>1, <1>2, <2>1
<1> QED BY <1>2, <1>3, <1>4, <1>5

LEMMA TopFrame ==
  ASSUME NEW S, NEW s \in Seq(S), s # << >>
  PROVE  /\ Head(s) = s[1] /\ Head(s) \in S /\ Len(s) \in Nat /\ Len(s) >= 1
         /\ DOMAIN s = 1 .. Len(s)
         /\ Tail(s) \in Seq(S) /\ Len(Tail(s)) = Len(s) - 1
         /\ \A n \in 1 .. Len(s) - 1 : Tail(s)[n] = s[n + 1]
OBVIOUS

LEMMA ReplaceFrame ==
  ASSUME NEW S, NEW s \in Seq(S), s # << >>, NEW x \in S
  PROVE  /\ <<x>> \o Tail(s) \in Seq(S) /\ Len(<<x>> \o Tail(s)) = Len(s)
         /\ (<<x>> \o Tail(s))[1] = x
         /\ \A n \in 2 .. Len(s) : (<<x>> \o Tail(s))[n] = s[n]
<1>1. /\ Tail(s) \in Seq(S) /\ Len(Tail(s)) = Len(s) - 1 /\ Len(s) \in Nat
      /\ \A n \in 1 .. Len(s) - 1 : Tail(s)[n] = s[n + 1]
  BY TopFrame
<1> DEFINE t == Tail(s)
           u == <<x>> \o t
<1>2. /\ u \in Seq(S) /\ Len(u) = Len(t) + 1 /\ u[1] = x
      /\ \A n \in 1 .. Len(t) : u[n + 1] = t[n]
  BY <1>1, PushFrame
<1> HIDE DEF u
<1>3. ASSUME NEW n \in 2 .. Len(s) PROVE u[n] = s[n]
  <2>1. n - 1 \in 1 .. Len(s) - 1 /\ (n - 1) + 1 = n
    BY <1>1
  <2>2. u[n] = t[n - 1] /\ t[n - 1] = s[n]
    BY <1>1, <1>2, <2>1
  <2> QED BY <2>2
<1>4. Len(u) = Len(s)
  BY <1>1, <1>2
<1> QED BY <1>2, <1>3, <1>4 DEF u

----------------------------------------------------------------------------
(* The invariant                                                           *)

\* What a function can be doing, and with which locals.
Shaped(f) ==
  /\ f.fn = "main" => f.pc \in {"fork", "store", "setterm", "setchld", "pause"}
  /\ f.fn = "restart" => f.pc \in {"wait", "find", "fork", "store"}
  /\ f.fn = "kill" => f.pc \in {"kill", "load", "send"}
  /\ f.pc \in {"load", "send"} => f.fn = "kill" /\ f.i \in Slot
  /\ f.pc \in {"fork", "store"} => f.i \in Slot
  /\ f.pc \in {"store", "find"} => f.pid \in Pid

Depth == 1 .. Len(stack)
Is(n, fn) == stack[n].fn = fn

\* main is at the bottom; kill_child is not interrupted by itself, and restart_child only
\* if its flags say NODEFER; with the mask kill_child does not interrupt restart_child.
StackInv ==
  /\ Len(stack) >= 1
  /\ \A n \in Depth : Shaped(stack[n]) /\ (Is(n, "main") <=> n = Len(stack))
  /\ \A m, n \in Depth : Is(m, "kill") /\ Is(n, "kill") => m = n
  /\ "NODEFER" \notin flags => \A m, n \in Depth : Is(m, "restart") /\ Is(n, "restart") => m = n
  /\ mask => \A m, n \in Depth : Is(m, "kill") /\ Is(n, "restart") => n < m

\* Handlers come after the children: until main pauses no SIGCHLD is handled, and until it
\* has installed the first handler nothing interrupts it.
PhaseInv ==
  \A n \in Depth : Is(n, "main") =>
    /\ stack[n].pc \in {"fork", "store", "setterm"} => handlers = {} /\ n = 1
    /\ stack[n].pc # "pause" => /\ "SIGCHLD" \notin handlers \union pending
                                /\ \A m \in Depth : ~Is(m, "restart")

Plain == flags \cap {"NODEFER", "NOCLDWAIT"} = {}

\* An entry that restart_child is replacing: the child was reaped, and its number is being
\* looked for, or was found in entry k.
Replacing(n, k) ==
  /\ Is(n, "restart")
  /\ \/ stack[n].pc = "find" /\ stack[n].pid = proc_tab[k]
     \/ stack[n].pc \in {"fork", "store"} /\ stack[n].i = k

TableInv ==
  /\ \A k, l \in Slot : proc_tab[k] = proc_tab[l] /\ proc_tab[k] \in Pid => k = l
  /\ \A p \in Pid : status[p] \in {"running", "zombie"} =>
       \/ \E k \in Slot : proc_tab[k] = p
       \/ \E n \in Depth : stack[n].pc = "store" /\ stack[n].pid = p
  /\ \A k \in Slot : proc_tab[k] \in Pid => status[proc_tab[k]] # "unused"
  /\ \A k \in Slot : proc_tab[k] \in Pid /\ status[proc_tab[k]] = "gone" =>
       \E n \in Depth : Replacing(n, k)
  /\ \A n \in Depth : stack[n].pc = "store" =>
       /\ status[stack[n].pid] \in {"running", "zombie"}
       /\ \A k \in Slot : proc_tab[k] # stack[n].pid
  /\ \A n \in Depth : Is(n, "restart") =>
       /\ stack[n].pc = "find" => status[stack[n].pid] = "gone"
       /\ stack[n].pc \in {"fork", "store"} => /\ proc_tab[stack[n].i] \in Pid
                                               /\ status[proc_tab[stack[n].i]] = "gone"
  /\ \A n \in Depth : Is(n, "main") /\ stack[n].pc \in {"fork", "store"} =>
       \A k \in Slot : k >= stack[n].i => proc_tab[k] = 0

PInv ==
  /\ TypeOK /\ ZombieHasSignal
  /\ server = "up" => StackInv /\ PhaseInv
  /\ server = "up" /\ Plain => TableInv

----------------------------------------------------------------------------
(* What the invariant gives                                                *)

LEMMA UpStack ==
  ASSUME PInv, server = "up"
  PROVE  /\ stack \in Seq(Frame) /\ stack # << >> /\ Len(stack) \in Nat /\ 1 \in Depth
         /\ me = stack[1] /\ me \in Frame /\ DOMAIN stack = Depth /\ Shaped(me)
<1>1. stack \in Seq(Frame) /\ Len(stack) >= 1 /\ \A n \in Depth : Shaped(stack[n])
  BY DEF PInv, TypeOK, StackInv
<1>2. stack # << >> /\ Len(stack) \in Nat
  BY <1>1
<1>3. 1 \in Depth
  BY <1>1, <1>2 DEF Depth
<1> QED BY <1>1, <1>2, <1>3, TopFrame DEF me, Depth

LEMMA PInvSuffices == PInv => TableTrue
<1> SUFFICES ASSUME PInv PROVE TableTrue
  OBVIOUS
<1>0. /\ proc_tab \in [Slot -> Pid \union {0, -1}]
      /\ \A k \in Slot : proc_tab[k] > 0 => proc_tab[k] \in Pid
  <2>1. proc_tab \in [Slot -> Pid \union {0, -1}]
    BY DEF PInv, TypeOK
  <2> QED BY <2>1
<1>1. EachChildOnce
  <2> SUFFICES ASSUME server = "up", Plain
               PROVE /\ \A k, l \in Slot : proc_tab[k] = proc_tab[l] /\ proc_tab[k] > 0 => k = l
                     /\ \A p \in Pid : status[p] \in {"running", "zombie"} =>
                          \/ \E k \in Slot : proc_tab[k] = p
                          \/ \E n \in Holding("store") : stack[n].pid = p
    BY DEF EachChildOnce, Plain
  <2>1. TableInv
    BY DEF PInv
  <2>2. DOMAIN stack = Depth
    BY UpStack
  <2> QED BY <1>0, <2>1, <2>2 DEF TableInv, Holding
<1> QED BY <1>1 DEF TableTrue, PInv

LEMMA InitP == Init => PInv
<1> SUFFICES ASSUME Init PROVE PInv
  OBVIOUS
<1> DEFINE f == [fn |-> "main", pc |-> "fork", i |-> 0, pid |-> 0]
<1>1. stack = <<f>> /\ f \in Frame /\ 0 \in Slot
  BY DEF Init, Frame, Slot
<1>2. stack \in Seq(Frame) /\ Len(stack) = 1 /\ stack[1] = f /\ Depth = {1}
  BY <1>1 DEF Depth
<1>3. TypeOK
  <2>1. child \in [Pid -> Child]
    BY DEF Init, Child, NoChild
  <2>2. raced \in BOOLEAN
    BY DEF Init
  <2> QED BY <1>2, <2>1, <2>2 DEF Init, TypeOK
<1>4. ZombieHasSignal
  <2>1. Zombies = {}
    BY DEF Init, Zombies
  <2>2. IsFiniteSet(Holding("wait")) /\ pending \ {"SIGTERM"} = {}
    <3>1. DOMAIN stack = 1 .. 1
      BY <1>2
    <3>2. Holding("wait") \subseteq 1 .. 1
      BY <3>1 DEF Holding
    <3> QED BY <3>2, FS_Interval, FS_Subset DEF Init
  <2>3. Cardinality({}) = 0 /\ Cardinality(Holding("wait")) \in Nat
    BY <2>2, FS_EmptySet, FS_CardinalityType
  <2>4. lost = 0
    BY DEF Init
  <2> QED BY <2>1, <2>2, <2>3, <2>4 DEF ZombieHasSignal
<1>5. StackInv /\ PhaseInv
  BY <1>1, <1>2 DEF Init, StackInv, PhaseInv, Shaped, Is
<1>6. TableInv
  BY <1>1, <1>2 DEF Init, TableInv, Is
<1> QED BY <1>3, <1>4, <1>5, <1>6 DEF PInv

----------------------------------------------------------------------------
(* The three ways in which a step moves the stack                          *)

PC == {"fork", "store", "setterm", "setchld", "pause", "wait", "find", "kill", "load", "send"}

\* The running frame goes on at f; f interrupts it; it returns.
Replaced(f) ==
  /\ stack' \in Seq(Frame) /\ Len(stack') = Len(stack) /\ stack'[1] = f
  /\ \A n \in 2 .. Len(stack) : stack'[n] = stack[n]
Pushed(f) ==
  /\ stack' \in Seq(Frame) /\ Len(stack') = Len(stack) + 1 /\ stack'[1] = f
  /\ \A n \in 1 .. Len(stack) : stack'[n + 1] = stack[n]
Popped ==
  /\ stack' \in Seq(Frame) /\ Len(stack') = Len(stack) - 1
  /\ \A n \in 1 .. Len(stack) - 1 : stack'[n] = stack[n + 1]

LEMMA GotoMoves ==
  ASSUME PInv, server = "up", NEW pc \in PC, NEW i \in 0 .. MAX_POOL,
         NEW pid \in Pid \union {0, -1}, Goto(pc, i, pid)
  PROVE  \E f \in Frame : /\ Replaced(f)
                          /\ f.fn = me.fn /\ f.pc = pc /\ f.i = i /\ f.pid = pid
<1> DEFINE f == [me EXCEPT !.pc = pc, !.i = i, !.pid = pid]
<1>1. stack \in Seq(Frame) /\ stack # << >> /\ me \in Frame
  BY UpStack
<1>2. f \in Frame /\ f.fn = me.fn /\ f.pc = pc /\ f.i = i /\ f.pid = pid
  BY <1>1 DEF Frame, PC
<1>3. stack' = <<f>> \o Tail(stack)
  BY DEF Goto
<1> HIDE DEF f
<1>4. Replaced(f)
  BY <1>1, <1>2, <1>3, ReplaceFrame DEF Replaced
<1> QED BY <1>2, <1>4

LEMMA ReturnMoves ==
  ASSUME PInv, server = "up", Return
  PROVE  Popped
<1>1. stack \in Seq(Frame) /\ stack # << >>
  BY UpStack
<1> QED BY <1>1, TopFrame DEF Return, Popped

LEMMA SignalMoves ==
  ASSUME PInv, server = "up", NEW f \in Frame, stack' = <<f>> \o stack
  PROVE  Pushed(f)
<1>1. stack \in Seq(Frame)
  BY UpStack
<1> QED BY <1>1, PushFrame DEF Pushed

\* Where the frames of one state are in the other.
LEMMA ReplacedFrames ==
  ASSUME PInv, server = "up", NEW f, Replaced(f)
  PROVE  /\ Depth' = Depth /\ 1 \in Depth /\ stack'[1] = f
         /\ \A n \in Depth : n # 1 => stack'[n] = stack[n]
BY UpStack DEF Replaced, Depth

LEMMA PushedFrames ==
  ASSUME PInv, server = "up", NEW f, Pushed(f)
  PROVE  /\ \A n \in Depth : n + 1 \in Depth' /\ stack'[n + 1] = stack[n]
         /\ \A n \in Depth' : n # 1 => n - 1 \in Depth /\ stack'[n] = stack[n - 1]
         /\ 1 \in Depth' /\ stack'[1] = f
<1>1. Len(stack) \in Nat /\ Len(stack') = Len(stack) + 1
  BY UpStack DEF Pushed
<1>2. \A n \in Depth : n + 1 \in Depth' /\ stack'[n + 1] = stack[n]
  BY <1>1 DEF Pushed, Depth
<1>3. ASSUME NEW n \in Depth', n # 1 PROVE n - 1 \in Depth /\ stack'[n] = stack[n - 1]
  <2>1. n - 1 \in Depth /\ (n - 1) + 1 = n
    BY <1>1, <1>3 DEF Depth
  <2> QED BY <2>1, <1>2
<1>4. 1 \in Depth' /\ stack'[1] = f
  BY <1>1 DEF Pushed, Depth
<1> QED BY <1>2, <1>3, <1>4

LEMMA PoppedFrames ==
  ASSUME PInv, server = "up", Popped
  PROVE  /\ \A n \in Depth : n # 1 => n - 1 \in Depth' /\ stack'[n - 1] = stack[n]
         /\ \A n \in Depth' : n + 1 \in Depth /\ stack'[n] = stack[n + 1]
<1>1. Len(stack) \in Nat /\ Len(stack') = Len(stack) - 1
  BY UpStack DEF Popped
<1>2. \A n \in Depth' : n + 1 \in Depth /\ stack'[n] = stack[n + 1]
  BY <1>1 DEF Popped, Depth
<1>3. ASSUME NEW n \in Depth, n # 1 PROVE n - 1 \in Depth' /\ stack'[n - 1] = stack[n]
  <2>1. n - 1 \in Depth' /\ (n - 1) + 1 = n
    BY <1>1, <1>3 DEF Depth
  <2> QED BY <2>1, <1>2
<1> QED BY <1>2, <1>3

----------------------------------------------------------------------------
(* The shape of the stack                                                  *)

LEMMA ShapeGoto ==
  ASSUME PInv, server = "up", UNCHANGED <<flags, mask>>,
         NEW f, Replaced(f), Shaped(f), f.fn = me.fn
  PROVE  StackInv'
<1>1. /\ Depth' = Depth /\ 1 \in Depth /\ stack'[1] = f /\ me = stack[1]
      /\ \A n \in Depth : n # 1 => stack'[n] = stack[n]
  BY ReplacedFrames, UpStack
<1>2. Len(stack') = Len(stack)
  BY DEF Replaced
<1>3. StackInv
  BY DEF PInv
<1>4. \A n \in Depth : stack'[n].fn = stack[n].fn /\ Shaped(stack'[n])
  BY <1>1, <1>3 DEF StackInv
<1> QED BY <1>1, <1>2, <1>3, <1>4 DEF StackInv, Is, Shaped

LEMMA ShapeReturn ==
  ASSUME PInv, server = "up", UNCHANGED <<flags, mask>>, Popped, me.fn # "main"
  PROVE  StackInv'
<1>1. /\ \A n \in Depth' : n + 1 \in Depth /\ stack'[n] = stack[n + 1]
      /\ me = stack[1] /\ 1 \in Depth /\ Len(stack) \in Nat
  BY PoppedFrames, UpStack
<1>2. Len(stack') = Len(stack) - 1 /\ Len(stack') \in Nat
  BY DEF Popped
<1>3. StackInv
  BY DEF PInv
<1>4. Len(stack) # 1
  BY <1>1, <1>3 DEF StackInv, Is
<1>5. \A n \in Depth' : n \in Int
  BY <1>2 DEF Depth
<1>6. Len(stack') >= 1
  BY <1>1, <1>2, <1>4
<1>7. ASSUME NEW n \in Depth' PROVE Shaped(stack'[n]) /\ (Is(n, "main")' <=> n = Len(stack'))
  <2>1. n + 1 = Len(stack) <=> n = Len(stack')
    BY <1>1, <1>2, <1>5
  <2> QED BY <1>1, <1>3, <2>1 DEF StackInv, Is
<1>8. \A m, n \in Depth' : m + 1 = n + 1 => m = n
  BY <1>5
<1>9. \A m, n \in Depth' : m + 1 < n + 1 => m < n
  BY <1>5
<1>10. \A m, n \in Depth' : Is(m, "kill")' /\ Is(n, "kill")' => m = n
  BY <1>1, <1>3, <1>8 DEF StackInv, Is
<1>11. "NODEFER" \notin flags => \A m, n \in Depth' : Is(m, "restart")' /\ Is(n, "restart")' => m = n
  BY <1>1, <1>3, <1>8 DEF StackInv, Is
<1>12. mask => \A m, n \in Depth' : Is(m, "kill")' /\ Is(n, "restart")' => n < m
  BY <1>1, <1>3, <1>9 DEF StackInv, Is
<1> QED BY <1>6, <1>7, <1>10, <1>11, <1>12 DEF StackInv, Is, Shaped

LEMMA ShapeSignal ==
  ASSUME PInv, server = "up", UNCHANGED <<flags, mask>>,
         NEW f, Pushed(f), Shaped(f), f.fn # "main",
         f.fn = "kill" => ~TermMasked,
         f.fn = "restart" => ~ChldMasked
  PROVE  StackInv'
<1>1. /\ \A n \in Depth' : n # 1 => n - 1 \in Depth /\ stack'[n] = stack[n - 1]
      /\ 1 \in Depth' /\ stack'[1] = f
      /\ DOMAIN stack = Depth /\ Len(stack) \in Nat
  BY PushedFrames, UpStack
<1>2. Len(stack') = Len(stack) + 1 /\ Len(stack') \in Nat
  BY DEF Pushed
<1>3. StackInv
  BY DEF PInv
<1>4. \A n \in Depth' : n \in Int /\ n >= 1
  BY <1>2 DEF Depth
<1>5. f.fn = "kill" => \A n \in Depth : ~Is(n, "kill") /\ (mask => ~Is(n, "restart"))
  BY <1>1 DEF TermMasked, Active, Is
<1>6. f.fn = "restart" /\ "NODEFER" \notin flags => \A n \in Depth : ~Is(n, "restart")
  BY <1>1 DEF ChldMasked, Active, Is
<1>7. ASSUME NEW n \in Depth' PROVE Shaped(stack'[n]) /\ (Is(n, "main")' <=> n = Len(stack'))
  <2>1. CASE n = 1
    <3>1. Len(stack') # 1
      BY <1>1, <1>2, <1>3 DEF StackInv
    <3> QED BY <2>1, <3>1, <1>1 DEF Is
  <2>2. CASE n # 1
    <3>1. n - 1 = Len(stack) <=> n = Len(stack')
      BY <1>1, <1>2, <1>4
    <3> QED BY <1>1, <1>3, <2>2, <3>1 DEF StackInv, Is
  <2> QED BY <2>1, <2>2
<1>8. \A m, n \in Depth' : m - 1 = n - 1 => m = n
  BY <1>4
<1>9. \A m, n \in Depth' : m - 1 < n - 1 => m < n
  BY <1>4
<1>10. \A m, n \in Depth' : Is(m, "kill")' /\ Is(n, "kill")' => m = n
  <2> SUFFICES ASSUME NEW m \in Depth', NEW n \in Depth', Is(m, "kill")', Is(n, "kill")' PROVE m = n
    OBVIOUS
  <2>1. m # 1 /\ n # 1 => m = n
    BY <1>1, <1>3, <1>8 DEF StackInv, Is
  <2>2. m = 1 => n = 1
    BY <1>1, <1>5 DEF Is
  <2>3. n = 1 => m = 1
    BY <1>1, <1>5 DEF Is
  <2> QED BY <2>1, <2>2, <2>3
<1>11. "NODEFER" \notin flags => \A m, n \in Depth' : Is(m, "restart")' /\ Is(n, "restart")' => m = n
  <2> SUFFICES ASSUME "NODEFER" \notin flags, NEW m \in Depth', NEW n \in Depth',
                      Is(m, "restart")', Is(n, "restart")'
               PROVE m = n
    OBVIOUS
  <2>1. m # 1 /\ n # 1 => m = n
    BY <1>1, <1>3, <1>8 DEF StackInv, Is
  <2>2. m = 1 => n = 1
    BY <1>1, <1>6 DEF Is
  <2>3. n = 1 => m = 1
    BY <1>1, <1>6 DEF Is
  <2> QED BY <2>1, <2>2, <2>3
<1>12. mask => \A m, n \in Depth' : Is(m, "kill")' /\ Is(n, "restart")' => n < m
  <2> SUFFICES ASSUME mask, NEW m \in Depth', NEW n \in Depth', Is(m, "kill")', Is(n, "restart")'
               PROVE n < m
    OBVIOUS
  <2>1. m # 1 /\ n # 1 => n < m
    BY <1>1, <1>3, <1>9 DEF StackInv, Is
  <2>2. m # 1
    BY <1>1, <1>5 DEF Is
  <2>3. n = 1 => n < m
    BY <1>4, <2>2
  <2> QED BY <2>1, <2>2, <2>3
<1>13. Len(stack') >= 1
  BY <1>2, <1>1
<1> QED BY <1>7, <1>10, <1>11, <1>12, <1>13 DEF StackInv, Is, Shaped

----------------------------------------------------------------------------
(* What main can be doing                                                  *)

LEMMA PhaseStays ==
  ASSUME PInv, server = "up", UNCHANGED <<stack, handlers>>,
         "SIGCHLD" \in pending' => "SIGCHLD" \in pending \union handlers
  PROVE  PhaseInv'
<1>1. PhaseInv
  BY DEF PInv
<1> QED BY <1>1 DEF PhaseInv, Depth, Is

LEMMA MainAlone ==
  ASSUME PInv, server = "up", me.fn = "main"
  PROVE  Depth = {1} /\ stack[1] = me /\ Len(stack) = 1
<1>1. 1 \in Depth /\ me = stack[1] /\ Len(stack) \in Nat
  BY UpStack
<1>2. Len(stack) = 1
  BY <1>1 DEF PInv, StackInv, Is
<1> QED BY <1>1, <1>2 DEF Depth

LEMMA PhaseGoto ==
  ASSUME PInv, server = "up", UNCHANGED <<handlers, pending>>,
         NEW f, Replaced(f), f.fn = me.fn,
         me.fn = "main" => {me.pc, f.pc} \subseteq {"fork", "store", "setterm"}
  PROVE  PhaseInv'
<1>1. /\ Depth' = Depth /\ 1 \in Depth /\ stack'[1] = f /\ me = stack[1]
      /\ \A n \in Depth : n # 1 => stack'[n] = stack[n]
  BY ReplacedFrames, UpStack
<1>2. PhaseInv
  BY DEF PInv
<1>3. \A n \in Depth : stack'[n].fn = stack[n].fn
  BY <1>1
<1>4. CASE me.fn = "main"
  <2>1. Depth = {1}
    BY <1>4, MainAlone
  <2>2. handlers = {} /\ "SIGCHLD" \notin pending
    BY <1>1, <1>2, <1>4 DEF PhaseInv, Is
  <2>3. \A n \in Depth' : n = 1 /\ stack'[n] = f
    BY <1>1, <2>1
  <2> QED BY <1>4, <2>2, <2>3 DEF PhaseInv, Is
<1>5. CASE me.fn # "main"
  BY <1>1, <1>2, <1>3, <1>5 DEF PhaseInv, Is
<1> QED BY <1>4, <1>5

LEMMA PhaseReturn ==
  ASSUME PInv, server = "up", UNCHANGED <<handlers, pending>>, Popped, me.fn # "main"
  PROVE  PhaseInv'
<1>1. /\ \A n \in Depth' : n + 1 \in Depth /\ stack'[n] = stack[n + 1]
      /\ \A n \in Depth' : n \in Int /\ n >= 1
  BY PoppedFrames DEF Popped, Depth
<1>2. PhaseInv
  BY DEF PInv
<1>3. ASSUME NEW n \in Depth', Is(n, "main")'
      PROVE  /\ stack'[n].pc \in {"fork", "store", "setterm"} => handlers = {} /\ n = 1
             /\ stack'[n].pc # "pause" => /\ "SIGCHLD" \notin handlers \union pending
                                          /\ \A m \in Depth' : ~Is(m, "restart")'
  <2>1. n + 1 \in Depth /\ stack'[n] = stack[n + 1] /\ Is(n + 1, "main") /\ n + 1 # 1
    BY <1>1, <1>3 DEF Is
  <2>2. stack'[n].pc \notin {"fork", "store", "setterm"}
    BY <1>2, <2>1 DEF PhaseInv
  <2> QED BY <1>1, <1>2, <2>1, <2>2 DEF PhaseInv, Is
<1> QED BY <1>3 DEF PhaseInv

LEMMA PhaseSignal ==
  ASSUME PInv, server = "up",
         NEW f, Pushed(f), f.fn # "main", f.fn = "restart" => "SIGCHLD" \in pending \union handlers,
         handlers' \subseteq handlers, pending' \subseteq pending,
         handlers # {} \/ "SIGCHLD" \in pending
  PROVE  PhaseInv'
<1>1. /\ \A n \in Depth' : n # 1 => n - 1 \in Depth /\ stack'[n] = stack[n - 1]
      /\ stack'[1] = f
  BY PushedFrames
<1>2. PhaseInv
  BY DEF PInv
<1>3. ASSUME NEW n \in Depth', Is(n, "main")'
      PROVE  /\ stack'[n].pc \in {"fork", "store", "setterm"} => handlers' = {} /\ n = 1
             /\ stack'[n].pc # "pause" => /\ "SIGCHLD" \notin handlers' \union pending'
                                          /\ \A m \in Depth' : ~Is(m, "restart")'
  <2>1. n - 1 \in Depth /\ stack'[n] = stack[n - 1] /\ Is(n - 1, "main") /\ n # 1
    BY <1>1, <1>3 DEF Is
  <2>2. stack'[n].pc \notin {"fork", "store", "setterm"}
    BY <1>2, <2>1 DEF PhaseInv
  <2>3. ASSUME stack'[n].pc # "pause"
        PROVE  /\ "SIGCHLD" \notin handlers' \union pending'
               /\ \A m \in Depth' : ~Is(m, "restart")'
    <3>1. "SIGCHLD" \notin handlers \union pending /\ \A m \in Depth : ~Is(m, "restart")
      BY <1>2, <2>1, <2>3 DEF PhaseInv
    <3>2. f.fn # "restart"
      BY <3>1
    <3> QED BY <1>1, <3>1, <3>2 DEF Is
  <2> QED BY <2>2, <2>3
<1> QED BY <1>3 DEF PhaseInv

----------------------------------------------------------------------------
(* Dead children and the calls of waitpid to come                          *)

LEMMA ShiftCard ==
  ASSUME NEW A \in SUBSET Int, NEW B \in SUBSET Int, IsFiniteSet(A),
         \A n \in A : n + 1 \in B, \A n \in B : n - 1 \in A
  PROVE  IsFiniteSet(B) /\ Cardinality(B) = Cardinality(A)
<1> DEFINE up == [n \in A |-> n + 1]
<1>1. up \in [A -> B] /\ \A n \in A : up[n] = n + 1
  OBVIOUS
<1> HIDE DEF up
<1>2. \A m, n \in A : m + 1 = n + 1 => m = n
  OBVIOUS
<1>3. up \in Injection(A, B)
  BY <1>1, <1>2 DEF Injection, IsInjective
<1>4. \A n \in B : \E m \in A : up[m] = n
  <2> SUFFICES ASSUME NEW n \in B PROVE \E m \in A : up[m] = n
    OBVIOUS
  <2>1. n - 1 \in A /\ (n - 1) + 1 = n
    OBVIOUS
  <2> QED BY <1>1, <2>1
<1>5. up \in Bijection(A, B)
  BY <1>1, <1>3, <1>4 DEF Bijection, Surjection
<1> QED BY <1>5, FS_Bijection DEF ExistsBijection

\* SIGCHLD is pending, as a number.
Chld(x) == IF "SIGCHLD" \in x THEN 1 ELSE 0

LEMMA PendingCard ==
  ASSUME NEW x \in SUBSET {"SIGTERM", "SIGCHLD"}
  PROVE  Cardinality(x \ {"SIGTERM"}) = Chld(x)
<1>1. x \ {"SIGTERM"} = IF "SIGCHLD" \in x THEN {"SIGCHLD"} ELSE {}
  OBVIOUS
<1> QED BY <1>1, FS_EmptySet, FS_Singleton DEF Chld

LEMMA Counted ==
  ASSUME PInv, server = "up"
  PROVE  /\ IsFiniteSet(Zombies) /\ Cardinality(Zombies) \in Nat
         /\ IsFiniteSet(Holding("wait")) /\ Cardinality(Holding("wait")) \in Nat
         /\ Holding("wait") \subseteq Depth /\ lost \in Nat
         /\ Cardinality(Zombies) <= lost + Cardinality(Holding("wait")) + Chld(pending)
<1>1. Zombies \subseteq Pid
  BY DEF Zombies
<1>2. Holding("wait") \subseteq Depth /\ IsFiniteSet(Depth)
  BY UpStack, FS_Interval DEF Holding, Depth
<1>3. IsFiniteSet(Zombies) /\ IsFiniteSet(Holding("wait"))
  BY <1>1, <1>2, FS_Subset
<1>4. pending \in SUBSET {"SIGTERM", "SIGCHLD"} /\ lost \in Nat
  BY DEF PInv, TypeOK
<1>5. Cardinality(pending \ {"SIGTERM"}) = Chld(pending)
  BY <1>4, PendingCard
<1> QED BY <1>2, <1>3, <1>4, <1>5, FS_CardinalityType DEF PInv, ZombieHasSignal

\* The sum does not shrink and no child dies.
LEMMA SumKept ==
  ASSUME PInv, server = "up", Zombies' \subseteq Zombies, lost' = lost,
         IsFiniteSet(Holding("wait")'), pending' \in SUBSET {"SIGTERM", "SIGCHLD"},
         Cardinality(Holding("wait")') + Chld(pending')
           >= Cardinality(Holding("wait")) + Chld(pending)
  PROVE  ZombieHasSignal'
<1>1. Cardinality(Zombies') \in Nat /\ Cardinality(Zombies') <= Cardinality(Zombies)
  BY Counted, FS_Subset, FS_CardinalityType
<1>2. Cardinality(Holding("wait")') \in Nat
  BY FS_CardinalityType
<1>3. Cardinality(pending' \ {"SIGTERM"}) = Chld(pending')
  BY PendingCard
<1>4. Chld(pending) \in Nat /\ Chld(pending') \in Nat
  BY DEF Chld
<1>5. Cardinality(Zombies') <= lost' + Cardinality(Holding("wait")')
                                + Cardinality(pending' \ {"SIGTERM"})
  BY Counted, <1>1, <1>2, <1>3, <1>4
<1> QED BY <1>5 DEF ZombieHasSignal

\* The calls that the stack holds, for each way it moves.
LEMMA WaitsStay ==
  ASSUME PInv, server = "up", UNCHANGED stack
  PROVE  Holding("wait")' = Holding("wait")
BY DEF Holding

LEMMA WaitsGoto ==
  ASSUME PInv, server = "up", NEW f, Replaced(f), f.pc # "wait"
  PROVE  Holding("wait")' = Holding("wait") \ (IF me.pc = "wait" THEN {1} ELSE {})
<1>1. /\ Depth' = Depth /\ 1 \in Depth /\ stack'[1] = f /\ me = stack[1]
      /\ \A n \in Depth : n # 1 => stack'[n] = stack[n]
      /\ DOMAIN stack = Depth
  BY ReplacedFrames, UpStack
<1>2. DOMAIN stack' = Depth
  BY <1>1 DEF Replaced, Depth
<1> QED BY <1>1, <1>2 DEF Holding

LEMMA WaitsReturn ==
  ASSUME PInv, server = "up", Popped, me.pc # "wait"
  PROVE  /\ IsFiniteSet(Holding("wait")')
         /\ Cardinality(Holding("wait")') = Cardinality(Holding("wait"))
<1>1. /\ \A n \in Depth : n # 1 => n - 1 \in Depth' /\ stack'[n - 1] = stack[n]
      /\ \A n \in Depth' : n + 1 \in Depth /\ stack'[n] = stack[n + 1]
      /\ DOMAIN stack = Depth /\ DOMAIN stack' = Depth' /\ me = stack[1]
      /\ Depth \subseteq Int /\ Depth' \subseteq Int /\ IsFiniteSet(Depth')
  <2>1. /\ \A n \in Depth : n # 1 => n - 1 \in Depth' /\ stack'[n - 1] = stack[n]
        /\ \A n \in Depth' : n + 1 \in Depth /\ stack'[n] = stack[n + 1]
        /\ DOMAIN stack = Depth /\ me = stack[1] /\ Len(stack) \in Nat
    BY PoppedFrames, UpStack
  <2>2. DOMAIN stack' = Depth' /\ Len(stack') \in Nat
    BY DEF Popped, Depth
  <2> QED BY <2>1, <2>2, FS_Interval DEF Depth
<1> DEFINE A == Holding("wait")'
           B == Holding("wait")
<1>2. A \subseteq Depth' /\ B \subseteq Depth /\ A \in SUBSET Int /\ B \in SUBSET Int
  BY <1>1 DEF Holding
<1>3. \A n \in A : n + 1 \in B
  BY <1>1 DEF Holding
<1>4. \A n \in B : n - 1 \in A
  BY <1>1 DEF Holding
<1>5. IsFiniteSet(A)
  BY <1>1, <1>2, FS_Subset
<1> HIDE DEF A, B
<1>6. Cardinality(B) = Cardinality(A)
  BY <1>2, <1>3, <1>4, <1>5, ShiftCard
<1> QED BY <1>5, <1>6 DEF A, B

LEMMA WaitsSignal ==
  ASSUME PInv, server = "up", NEW f, Pushed(f)
  PROVE  /\ IsFiniteSet(Holding("wait")')
         /\ Cardinality(Holding("wait")') =
              Cardinality(Holding("wait")) + (IF f.pc = "wait" THEN 1 ELSE 0)
<1>1. /\ \A n \in Depth : n + 1 \in Depth' /\ stack'[n + 1] = stack[n]
      /\ \A n \in Depth' : n # 1 => n - 1 \in Depth /\ stack'[n] = stack[n - 1]
      /\ 1 \in Depth' /\ stack'[1] = f
      /\ DOMAIN stack = Depth /\ DOMAIN stack' = Depth'
      /\ Depth' \subseteq Int
      /\ \A n \in Depth : n \in Int /\ n >= 1
  BY PushedFrames, UpStack DEF Pushed, Depth
<1> DEFINE A == Holding("wait")
           B == Holding("wait")' \ {1}
<1>2. A \subseteq Depth /\ A \in SUBSET Int /\ B \in SUBSET Int
  BY <1>1 DEF Holding
<1>3. \A n \in A : n + 1 \in B
  BY <1>1 DEF Holding
<1>4. \A n \in B : n - 1 \in A
  BY <1>1 DEF Holding
<1>5. IsFiniteSet(A) /\ Cardinality(A) \in Nat
  BY Counted
<1>6. Holding("wait")' = IF f.pc = "wait" THEN B \union {1} ELSE B
  BY <1>1 DEF Holding
<1>7. 1 \notin B
  OBVIOUS
<1> HIDE DEF A, B
<1>8. IsFiniteSet(B) /\ Cardinality(B) = Cardinality(A)
  BY <1>2, <1>3, <1>4, <1>5, ShiftCard
<1>9. IsFiniteSet(B \union {1}) /\ Cardinality(B \union {1}) = Cardinality(B) + 1
  BY <1>7, <1>8, FS_AddElement
<1> QED BY <1>5, <1>6, <1>8, <1>9 DEF A

----------------------------------------------------------------------------
(* The table                                                               *)

\* A frame that has a child or an entry in hand.
Busy(f) == f.pc \in {"find", "fork", "store"}

LEMMA TableStays ==
  ASSUME PInv, server = "up", Plain, UNCHANGED proc_tab,
         \A p \in Pid : \/ status'[p] = status[p]
                        \/ status[p] = "running" /\ status'[p] = "zombie",
         \A n \in Depth' : Busy(stack'[n]) => \E m \in Depth : stack[m] = stack'[n],
         \A m \in Depth : Busy(stack[m]) => \E n \in Depth' : stack'[n] = stack[m]
  PROVE  TableInv'
<1>1. TableInv /\ \A n \in Depth : Shaped(stack[n])
  BY DEF PInv, StackInv
<1>2. \A m \in Depth : stack[m].pc \in {"store", "find"} => stack[m].pid \in Pid
  BY <1>1 DEF Shaped
<1>3. \A k, l \in Slot : proc_tab[k] = proc_tab[l] /\ proc_tab[k] \in Pid => k = l
  BY <1>1 DEF TableInv
<1>4. ASSUME NEW p \in Pid, status'[p] \in {"running", "zombie"}
      PROVE  \/ \E k \in Slot : proc_tab[k] = p
             \/ \E n \in Depth' : stack'[n].pc = "store" /\ stack'[n].pid = p
  <2>1. status[p] \in {"running", "zombie"}
    BY <1>4
  <2>2. CASE \E k \in Slot : proc_tab[k] = p
    BY <2>2
  <2>3. CASE \E n \in Depth : stack[n].pc = "store" /\ stack[n].pid = p
    BY <2>3 DEF Busy
  <2> QED BY <1>1, <2>1, <2>2, <2>3 DEF TableInv
<1>a. \A p \in Pid : /\ status[p] # "unused" => status'[p] # "unused"
                     /\ status[p] = "gone" => status'[p] = "gone"
                     /\ status[p] \in {"running", "zombie"} => status'[p] \in {"running", "zombie"}
  OBVIOUS
<1>5. \A k \in Slot : proc_tab[k] \in Pid => status'[proc_tab[k]] # "unused"
  <2>1. \A k \in Slot : proc_tab[k] \in Pid => status[proc_tab[k]] # "unused"
    BY <1>1 DEF TableInv
  <2> QED BY <1>a, <2>1
<1>6. ASSUME NEW k \in Slot, proc_tab[k] \in Pid, status'[proc_tab[k]] = "gone"
      PROVE  \E n \in Depth' : Replacing(n, k)'
  <2>1. PICK m \in Depth : Replacing(m, k)
    BY <1>1, <1>6 DEF TableInv
  <2>2. PICK n \in Depth' : stack'[n] = stack[m]
    BY <2>1 DEF Busy, Replacing
  <2> QED BY <2>1, <2>2 DEF Replacing, Is
<1>7. ASSUME NEW n \in Depth', stack'[n].pc = "store"
      PROVE  /\ status'[stack'[n].pid] \in {"running", "zombie"}
             /\ \A k \in Slot : proc_tab[k] # stack'[n].pid
  <2>1. PICK m \in Depth : stack[m] = stack'[n]
    BY <1>7 DEF Busy
  <2>2. stack[m].pid \in Pid
    BY <1>2, <1>7, <2>1
  <2>3. /\ status[stack[m].pid] \in {"running", "zombie"}
        /\ \A k \in Slot : proc_tab[k] # stack[m].pid
    BY <1>1, <1>7, <2>1 DEF TableInv
  <2> QED BY <1>a, <2>1, <2>2, <2>3
<1>8. ASSUME NEW n \in Depth', Is(n, "restart")'
      PROVE  /\ stack'[n].pc = "find" => status'[stack'[n].pid] = "gone"
             /\ stack'[n].pc \in {"fork", "store"} =>
                  /\ proc_tab[stack'[n].i] \in Pid
                  /\ status'[proc_tab[stack'[n].i]] = "gone"
  <2>1. CASE Busy(stack'[n])
    <3>1. PICK m \in Depth : stack[m] = stack'[n]
      BY <2>1
    <3>2. stack[m].pc = "find" => stack[m].pid \in Pid
      BY <1>2
    <3>3. /\ stack[m].pc = "find" => status[stack[m].pid] = "gone"
          /\ stack[m].pc \in {"fork", "store"} => /\ proc_tab[stack[m].i] \in Pid
                                                  /\ status[proc_tab[stack[m].i]] = "gone"
      BY <1>1, <1>8, <3>1 DEF TableInv, Is
    <3> QED BY <1>a, <3>1, <3>2, <3>3
  <2>2. CASE ~Busy(stack'[n])
    BY <2>2 DEF Busy
  <2> QED BY <2>1, <2>2
<1>9. ASSUME NEW n \in Depth', Is(n, "main")', stack'[n].pc \in {"fork", "store"}
      PROVE  \A k \in Slot : k >= stack'[n].i => proc_tab[k] = 0
  <2>1. PICK m \in Depth : stack[m] = stack'[n]
    BY <1>9 DEF Busy
  <2> QED BY <1>1, <1>9, <2>1 DEF TableInv, Is
<1> QED BY <1>3, <1>4, <1>5, <1>6, <1>7, <1>8, <1>9 DEF TableInv

\* The stack holds still, gets a frame that is not busy, loses one, or replaces one.
LEMMA SameBusy ==
  ASSUME PInv, server = "up",
         \/ UNCHANGED stack
         \/ \E f \in Frame : Replaced(f) /\ ~Busy(f) /\ ~Busy(me)
         \/ \E f \in Frame : Pushed(f) /\ ~Busy(f)
         \/ Popped /\ ~Busy(me)
  PROVE  /\ \A n \in Depth' : Busy(stack'[n]) => \E m \in Depth : stack[m] = stack'[n]
         /\ \A m \in Depth : Busy(stack[m]) => \E n \in Depth' : stack'[n] = stack[m]
<1>1. me = stack[1]
  BY UpStack
<1>2. CASE UNCHANGED stack
  BY <1>2 DEF Depth
<1>3. ASSUME NEW f \in Frame, Replaced(f), ~Busy(f), ~Busy(me)
      PROVE  /\ \A n \in Depth' : Busy(stack'[n]) => \E m \in Depth : stack[m] = stack'[n]
             /\ \A m \in Depth : Busy(stack[m]) => \E n \in Depth' : stack'[n] = stack[m]
  <2>1. /\ Depth' = Depth /\ 1 \in Depth /\ stack'[1] = f
        /\ \A n \in Depth : n # 1 => stack'[n] = stack[n]
    BY <1>3, ReplacedFrames
  <2> QED BY <1>1, <1>3, <2>1
<1>4. ASSUME NEW f \in Frame, Pushed(f), ~Busy(f)
      PROVE  /\ \A n \in Depth' : Busy(stack'[n]) => \E m \in Depth : stack[m] = stack'[n]
             /\ \A m \in Depth : Busy(stack[m]) => \E n \in Depth' : stack'[n] = stack[m]
  BY <1>4, PushedFrames
<1>5. CASE Popped /\ ~Busy(me)
  <2>1. /\ \A n \in Depth : n # 1 => n - 1 \in Depth' /\ stack'[n - 1] = stack[n]
        /\ \A n \in Depth' : n + 1 \in Depth /\ stack'[n] = stack[n + 1]
    BY <1>5, PoppedFrames
  <2> QED BY <1>1, <1>5, <2>1
<1> QED BY <1>2, <1>3, <1>4, <1>5

\* Without NODEFER only the running frame is busy, if it is main's or restart_child's.
LEMMA OneBusy ==
  ASSUME PInv, server = "up", Plain, me.fn \in {"main", "restart"}
  PROVE  \A n \in Depth : n # 1 => ~Busy(stack[n])
<1>1. StackInv /\ PhaseInv /\ me = stack[1] /\ 1 \in Depth
  BY UpStack DEF PInv
<1>2. CASE me.fn = "main"
  BY <1>2, MainAlone
<1>3. CASE me.fn = "restart"
  <2> SUFFICES ASSUME NEW n \in Depth, n # 1 PROVE ~Busy(stack[n])
    OBVIOUS
  <2>1. ~Is(n, "restart") /\ Shaped(stack[n]) /\ stack[n] \in Frame
    <3>1. stack \in Seq(Frame)
      BY UpStack
    <3> QED BY <1>1, <1>3, <3>1 DEF StackInv, Is, Plain, Depth
  <2>2. Is(n, "main") => stack[n].pc = "pause"
    BY <1>1, <1>3 DEF PhaseInv, Is
  <2>3. stack[n].fn \in {"main", "kill"}
    BY <2>1 DEF Frame, Is
  <2> QED BY <2>1, <2>2, <2>3 DEF Busy, Shaped, Is
<1> QED BY <1>2, <1>3

\* Nobody is busy: each child is in the table and nothing else is.
LEMMA QuietTable ==
  ASSUME \A n \in Depth' : ~Busy(stack'[n]),
         \A k, l \in Slot : proc_tab'[k] = proc_tab'[l] /\ proc_tab'[k] \in Pid => k = l,
         \A p \in Pid : status'[p] \in {"running", "zombie"} => \E k \in Slot : proc_tab'[k] = p,
         \A k \in Slot : proc_tab'[k] \in Pid => status'[proc_tab'[k]] \notin {"unused", "gone"}
  PROVE  TableInv'
BY DEF TableInv, Busy, Is

----------------------------------------------------------------------------
(* Steps of the children, and signals that are sent                        *)

LEMMA ChildType ==
  ASSUME TypeOK
  PROVE  /\ NoChild \in Child
         /\ \A p \in Pid : child[p] \in Child
         /\ \A tab : Terminated(tab) \in [Pid -> Child]
<1>1. NoChild \in Child
  BY DEF NoChild, Child
<1>2. \A p \in Pid : child[p] \in Child
  BY DEF TypeOK
<1>3. \A c \in Child : [c EXCEPT !.term = TRUE] \in Child
  BY DEF Child
<1> QED BY <1>1, <1>2, <1>3 DEF Terminated

LEMMA StackUntouched ==
  ASSUME PInv, UNCHANGED <<server, stack, proc_tab, sig>>,
         "SIGCHLD" \in pending' => "SIGCHLD" \in pending \union handlers,
         server = "up" /\ Plain => \A p \in Pid : \/ status'[p] = status[p]
                                                  \/ status[p] = "running" /\ status'[p] = "zombie",
         TypeOK', ZombieHasSignal'
  PROVE  PInv'
<1>1. server = "up" => StackInv'
  BY DEF PInv, StackInv, Depth, Is, Shaped, sig
<1>2. server = "up" => PhaseInv'
  BY PhaseStays DEF sig
<1>3. ASSUME server = "up", Plain' PROVE TableInv'
  <2>1. Plain
    BY <1>3 DEF Plain, sig
  <2> QED BY <1>3, <2>1, SameBusy, TableStays DEF sig
<1> QED BY <1>1, <1>2, <1>3 DEF PInv, sig

LEMMA DiesP ==
  ASSUME PInv, NEW p \in Pid, status[p] = "running", NEW ch \in [Pid -> Child], Dies(p, ch),
         UNCHANGED <<server, stack, proc_tab, sig, terms>>, deaths' \in 0 .. MaxDeaths
  PROVE  PInv'
<1>0. TypeOK
  BY DEF PInv
<1>1. /\ status' \in [Pid -> {"unused", "running", "zombie", "gone"}]
      /\ \A q \in Pid : q # p => status'[q] = status[q]
      /\ status'[p] \in {"zombie", "gone"}
      /\ server = "up" /\ Plain => status'[p] = "zombie"
  BY <1>0 DEF TypeOK, Dies, Plain
<1>2. child' \in [Pid -> Child]
  BY <1>0, ChildType DEF Dies
<1>3. /\ pending' \subseteq {"SIGTERM", "SIGCHLD"} /\ lost' \in Nat
      /\ "SIGCHLD" \in pending' => "SIGCHLD" \in pending \union handlers
      /\ server = "up" => lost' + Chld(pending') = lost + Chld(pending) + 1
  <2>1. pending \subseteq {"SIGTERM", "SIGCHLD"} /\ lost \in Nat
    BY <1>0 DEF TypeOK
  <2>2. CASE server = "up" /\ "SIGCHLD" \in handlers
    <3>1. /\ pending' = pending \union {"SIGCHLD"}
          /\ lost' = IF "SIGCHLD" \in pending THEN lost + 1 ELSE lost
      BY <2>2 DEF Dies
    <3> QED BY <2>1, <2>2, <3>1 DEF Chld
  <2>3. CASE ~(server = "up" /\ "SIGCHLD" \in handlers)
    <3>1. pending' = pending /\ lost' = lost + 1
      BY <2>3 DEF Dies
    <3> QED BY <2>1, <3>1 DEF Chld
  <2> QED BY <2>2, <2>3
<1>4. TypeOK'
  <2>1. raced' = raced
    BY DEF Dies
  <2> QED BY <1>0, <1>1, <1>2, <1>3, <2>1 DEF TypeOK, sig
<1>5. ASSUME server = "up" PROVE ZombieHasSignal'
  <2>1. Zombies' \subseteq Zombies \union {p}
    BY <1>1 DEF Zombies
  <2>2. IsFiniteSet(Zombies \union {p}) /\ Cardinality(Zombies \union {p}) <= Cardinality(Zombies) + 1
    <3>1. IsFiniteSet(Zombies) /\ Cardinality(Zombies) \in Nat
      BY <1>5, Counted
    <3>2. /\ IsFiniteSet(Zombies \union {p})
          /\ \/ Cardinality(Zombies \union {p}) = Cardinality(Zombies)
             \/ Cardinality(Zombies \union {p}) = Cardinality(Zombies) + 1
      BY <3>1, FS_AddElement
    <3> QED BY <3>1, <3>2
  <2>3. /\ Cardinality(Zombies') <= Cardinality(Zombies) + 1 /\ Cardinality(Zombies') \in Nat
        /\ Cardinality(Zombies) \in Nat /\ Cardinality(Zombies \union {p}) \in Nat
    BY <1>5, <2>1, <2>2, Counted, FS_Subset, FS_CardinalityType
  <2>4. Holding("wait")' = Holding("wait")
    BY <1>5, WaitsStay
  <2>5. Cardinality(pending' \ {"SIGTERM"}) = Chld(pending')
    BY <1>3, PendingCard
  <2>6. Chld(pending) \in Nat /\ Chld(pending') \in Nat
    BY DEF Chld
  <2> HIDE DEF Chld
  <2>7. Cardinality(Zombies') <= lost' + Cardinality(Holding("wait"))
                                  + Cardinality(pending' \ {"SIGTERM"})
    BY <1>3, <1>5, <2>3, <2>5, <2>6, Counted
  <2> QED BY <2>4, <2>7 DEF ZombieHasSignal
<1>6. ZombieHasSignal'
  BY <1>5 DEF ZombieHasSignal
<1> QED BY <1>1, <1>3, <1>4, <1>6, StackUntouched DEF sig

LEMMA ChildDieP ==
  ASSUME PInv, NEW p \in Pid, ChildDie(p)
  PROVE  PInv'
<1>1. child \in [Pid -> Child] /\ deaths \in 0 .. MaxDeaths
  BY DEF PInv, TypeOK
<1> QED BY <1>1, DiesP DEF ChildDie

LEMMA ChildTermP ==
  ASSUME PInv, NEW p \in Pid, ChildTerm(p)
  PROVE  PInv'
<1>1. TypeOK /\ child \in [Pid -> Child] /\ deaths \in 0 .. MaxDeaths
  BY DEF PInv, TypeOK
<1> DEFINE ch == IF child[p].inherits THEN Terminated(child[p].tab) ELSE child
<1>2. ch \in [Pid -> Child]
  BY <1>1, ChildType
<1>3. Dies(p, ch) /\ status[p] = "running"
      /\ UNCHANGED <<server, stack, proc_tab, sig, deaths, terms>>
  BY DEF ChildTerm, env
<1> HIDE DEF ch
<1> QED BY <1>1, <1>2, <1>3, DiesP

LEMMA SentP ==
  ASSUME PInv, UNCHANGED <<server, stack, proc_tab, sig, status, lost>>, TypeOK',
         "SIGCHLD" \in pending' => "SIGCHLD" \in pending \union handlers,
         "SIGCHLD" \in pending => "SIGCHLD" \in pending'
  PROVE  PInv'
<1>1. ASSUME server = "up" PROVE ZombieHasSignal'
  <2>1. Holding("wait")' = Holding("wait") /\ Zombies' = Zombies
    BY <1>1, WaitsStay DEF Zombies
  <2>2. Chld(pending') >= Chld(pending) /\ Chld(pending) \in Nat /\ Chld(pending') \in Nat
    BY DEF Chld
  <2>3. pending' \in SUBSET {"SIGTERM", "SIGCHLD"}
    BY DEF TypeOK
  <2>4. Cardinality(Holding("wait")') + Chld(pending') >= Cardinality(Holding("wait")) + Chld(pending)
    BY <1>1, <2>1, <2>2, Counted
  <2> QED BY <1>1, <2>1, <2>3, <2>4, Counted, SumKept
<1>2. ZombieHasSignal'
  BY <1>1 DEF ZombieHasSignal
<1> QED BY <1>2, StackUntouched

LEMMA ChildStopP == ASSUME PInv, NEW p \in Pid, ChildStop(p) PROVE PInv'
<1>1. TypeOK'
  BY DEF PInv, TypeOK, ChildStop, sig, hist
<1> QED BY <1>1, SentP DEF ChildStop, hist

LEMMA start_childP == ASSUME PInv, NEW p \in Pid, start_child(p) PROVE PInv'
<1>1. TypeOK
  BY DEF PInv
<1>2. \A c \in Child : [c EXCEPT !.inherits = FALSE, !.tab = NoChild.tab] \in Child
  <2>1. NoChild.tab \in [Slot -> Pid \union {0, -1}]
    BY DEF NoChild
  <2> QED BY <2>1 DEF Child
<1>3. child' \in [Pid -> Child]
  BY <1>1, <1>2, ChildType DEF start_child, TypeOK
<1>4. TypeOK'
  BY <1>1, <1>3 DEF TypeOK, start_child, sig, env, hist
<1> QED BY <1>4, SentP DEF start_child, hist

LEMMA TermChildP == ASSUME PInv, NEW p \in Pid, TermChild(p) PROVE PInv'
<1>1. TypeOK
  BY DEF PInv
<1>2. \A c \in Child : [c EXCEPT !.term = TRUE] \in Child
  BY DEF Child
<1>3. child' \in [Pid -> Child]
  BY <1>1, <1>2 DEF TermChild, TypeOK
<1>4. TypeOK'
  BY <1>1, <1>3 DEF TypeOK, TermChild, sig, hist
<1> QED BY <1>4, SentP DEF TermChild, hist

LEMMA TermServerP == ASSUME PInv, TermServer PROVE PInv'
<1>1. TypeOK'
  BY DEF PInv, TypeOK, TermServer, sig, hist
<1> QED BY <1>1, SentP DEF TermServer, hist

----------------------------------------------------------------------------
(* Steps of main and of the handlers: what they share                      *)

LEMMA GotoP ==
  ASSUME PInv, server = "up", UNCHANGED <<server, sig, pending, lost>>,
         NEW f \in Frame, Replaced(f), Shaped(f), f.fn = me.fn,
         f.pc # "wait", me.pc # "wait", Zombies' \subseteq Zombies,
         me.fn = "main" => {me.pc, f.pc} \subseteq {"fork", "store", "setterm"},
         TypeOK', Plain => TableInv'
  PROVE  PInv'
<1>1. StackInv' /\ PhaseInv'
  BY ShapeGoto, PhaseGoto DEF sig
<1>2. Holding("wait")' = Holding("wait")
  BY WaitsGoto
<1>3. pending' \in SUBSET {"SIGTERM", "SIGCHLD"} /\ pending' = pending
  BY DEF TypeOK
<1>4. Cardinality(Holding("wait")') + Chld(pending') >= Cardinality(Holding("wait")) + Chld(pending)
  BY <1>2, <1>3, Counted DEF Chld
<1>5. ZombieHasSignal'
  BY <1>2, <1>3, <1>4, Counted, SumKept
<1>6. Plain' <=> Plain
  BY DEF Plain, sig
<1> QED BY <1>1, <1>5, <1>6 DEF PInv

LEMMA ReturnP ==
  ASSUME PInv, server = "up", UNCHANGED <<server, sig, pending, lost, status>>,
         Popped, me.fn # "main", me.pc # "wait" \/ Zombies = {},
         TypeOK', Plain => TableInv'
  PROVE  PInv'
<1>1. StackInv' /\ PhaseInv'
  BY ShapeReturn, PhaseReturn DEF sig
<1>2. Zombies' = Zombies
  BY DEF Zombies
<1>3. pending' \in SUBSET {"SIGTERM", "SIGCHLD"} /\ pending' = pending /\ Chld(pending) \in Nat
  BY DEF TypeOK, Chld
<1>4. CASE me.pc # "wait"
  <2>1. IsFiniteSet(Holding("wait")') /\ Cardinality(Holding("wait")') = Cardinality(Holding("wait"))
    BY <1>4, WaitsReturn
  <2>2. Cardinality(Holding("wait")') + Chld(pending') >= Cardinality(Holding("wait")) + Chld(pending)
    BY <1>3, <2>1, Counted
  <2> QED BY <1>1, <1>2, <1>3, <2>1, <2>2, SumKept DEF PInv, Plain, sig
<1>5. CASE Zombies = {}
  <2>1. Cardinality(Zombies') = 0 /\ lost' \in Nat
    BY <1>2, <1>5, Counted, FS_EmptySet
  <2>2. IsFiniteSet(Holding("wait")')
    <3>1. Holding("wait")' \subseteq 1 .. Len(stack') /\ Len(stack') \in Nat
      BY DEF Holding, Popped
    <3>2. IsFiniteSet(1 .. Len(stack'))
      BY <3>1, FS_Interval
    <3> QED BY <3>1, <3>2, FS_Subset
  <2>3. Cardinality(Holding("wait")') \in Nat /\ Cardinality(pending' \ {"SIGTERM"}) \in Nat
    BY <1>3, <2>2, FS_CardinalityType, PendingCard
  <2>4. Cardinality(Zombies') <= lost' + Cardinality(Holding("wait")') + Cardinality(pending' \ {"SIGTERM"})
    BY <2>1, <2>3
  <2>5. ZombieHasSignal'
    BY <2>4 DEF ZombieHasSignal
  <2> QED BY <1>1, <2>5 DEF PInv, Plain, sig
<1> QED BY <1>4, <1>5

LEMMA SignalP ==
  ASSUME PInv, server = "up", UNCHANGED <<server, proc_tab, flags, mask, status, child, env, lost, raced>>,
         NEW f \in Frame, Pushed(f), Shaped(f), f.fn # "main", ~Busy(f),
         f.fn = "kill" => ~TermMasked,
         f.fn = "restart" => ~ChldMasked /\ "SIGCHLD" \in pending,
         handlers' \subseteq handlers, pending' \subseteq pending,
         handlers # {} \/ "SIGCHLD" \in pending,
         "SIGCHLD" \in pending => "SIGCHLD" \in pending' \/ f.pc = "wait"
  PROVE  PInv'
<1>0. TypeOK'
  BY DEF PInv, TypeOK, Pushed, env
<1>1. StackInv'
  BY ShapeSignal
<1>2. PhaseInv'
  BY PhaseSignal
<1>3. Plain => TableInv'
  <2> SUFFICES ASSUME Plain PROVE TableInv'
    OBVIOUS
  <2>1. /\ \A n \in Depth' : Busy(stack'[n]) => \E m \in Depth : stack[m] = stack'[n]
        /\ \A m \in Depth : Busy(stack[m]) => \E n \in Depth' : stack'[n] = stack[m]
    BY SameBusy
  <2> QED BY <2>1, TableStays
<1>4. /\ IsFiniteSet(Holding("wait")')
      /\ Cardinality(Holding("wait")') = Cardinality(Holding("wait")) + (IF f.pc = "wait" THEN 1 ELSE 0)
  BY WaitsSignal
<1>5. Zombies' = Zombies
  BY DEF Zombies
<1>6. pending' \in SUBSET {"SIGTERM", "SIGCHLD"}
  BY <1>0 DEF TypeOK
<1>7. Chld(pending') + (IF f.pc = "wait" THEN 1 ELSE 0) >= Chld(pending)
  BY DEF Chld
<1>8. Chld(pending') \in Nat /\ Chld(pending) \in Nat
  BY DEF Chld
<1>9. Cardinality(Holding("wait")') + Chld(pending') >= Cardinality(Holding("wait")) + Chld(pending)
  BY <1>4, <1>7, <1>8, Counted
<1>10. ZombieHasSignal'
  BY <1>4, <1>5, <1>6, <1>9, SumKept
<1> QED BY <1>0, <1>1, <1>2, <1>3, <1>10 DEF PInv, Plain

\* When the server has ended there is nothing left to be wrong about.
LEMMA EndsP ==
  ASSUME PInv, NEW how \in {"exited", "killed"}, Ends(how), UNCHANGED <<proc_tab, sig, child, env, lost, raced>>
  PROVE  PInv'
<1>1. server' # "up"
  BY DEF Ends
<1>2. TypeOK'
  BY DEF PInv, TypeOK, Ends, sig, env
<1> QED BY <1>1, <1>2 DEF PInv, ZombieHasSignal

----------------------------------------------------------------------------
(* Steps of main and of the handlers                                       *)

LEMMA ForkP == ASSUME PInv, Fork PROVE PInv'
<1>1. /\ server = "up" /\ me.fn \in {"main", "restart"} /\ me.pc = "fork"
      /\ UNCHANGED <<server, proc_tab, sig, pending, env, lost, raced>>
  BY DEF Fork, At, me, hist
<1>2. PICK p \in Pid :
       /\ status[p] = "unused"
       /\ status' = [status EXCEPT ![p] = "running"]
       /\ child' = [child EXCEPT ![p] =
            [inherits |-> "SIGTERM" \in handlers, masked |-> TermMasked,
             tab |-> proc_tab, term |-> FALSE]]
       /\ Goto("store", me.i, p)
  BY DEF Fork
<1>3. /\ stack \in Seq(Frame) /\ me = stack[1] /\ 1 \in Depth /\ me \in Frame /\ Shaped(me)
      /\ TypeOK
  BY <1>1, UpStack DEF PInv
<1>4. me.i \in 0 .. MAX_POOL /\ me.i \in Slot
  BY <1>1, <1>3 DEF Frame, Shaped
<1>5. PICK f \in Frame : /\ Replaced(f)
                         /\ f.fn = me.fn /\ f.pc = "store" /\ f.i = me.i /\ f.pid = p
  BY <1>1, <1>2, <1>4, GotoMoves DEF PC
<1>6. Shaped(f)
  BY <1>1, <1>4, <1>5 DEF Shaped
<1>7. child' \in [Pid -> Child]
  <2> DEFINE c == [inherits |-> "SIGTERM" \in handlers, masked |-> TermMasked,
                   tab |-> proc_tab, term |-> FALSE]
  <2>1. ("SIGTERM" \in handlers) \in BOOLEAN /\ TermMasked \in BOOLEAN
    BY DEF TermMasked
  <2>2. proc_tab \in [Slot -> Pid \union {0, -1}] /\ child \in [Pid -> Child]
    BY <1>3 DEF TypeOK
  <2>3. c \in Child
    BY <2>1, <2>2 DEF Child
  <2> HIDE DEF c
  <2>4. child' = [child EXCEPT ![p] = c]
    BY <1>2 DEF c
  <2> QED BY <2>2, <2>3, <2>4
<1>8. TypeOK'
  BY <1>1, <1>2, <1>3, <1>5, <1>7 DEF TypeOK, Replaced, sig, env
<1>9. Zombies' \subseteq Zombies
  BY <1>2, <1>3 DEF Zombies, TypeOK
<1>10. ASSUME Plain PROVE TableInv'
  <2>1. /\ Depth' = Depth /\ stack'[1] = f
        /\ \A n \in Depth : n # 1 => stack'[n] = stack[n] /\ ~Busy(stack[n])
    BY <1>1, <1>5, <1>10, ReplacedFrames, OneBusy
  <2>2. TableInv
    BY <1>1, <1>10 DEF PInv
  <2>3. /\ status'[p] = "running" /\ \A q \in Pid : q # p => status'[q] = status[q]
        /\ proc_tab' = proc_tab
    BY <1>1, <1>2, <1>3 DEF TypeOK
  <2>4. \A k \in Slot : proc_tab[k] \in Pid => status[proc_tab[k]] # "unused"
    BY <2>2 DEF TableInv
  <2>5. \A k \in Slot : proc_tab[k] # p
    BY <1>2, <2>4
  <2>6. \A k, l \in Slot : proc_tab[k] = proc_tab[l] /\ proc_tab[k] \in Pid => k = l
    BY <2>2 DEF TableInv
  <2>7. ASSUME NEW q \in Pid, status'[q] \in {"running", "zombie"}
        PROVE  \/ \E k \in Slot : proc_tab[k] = q
               \/ \E n \in Depth' : stack'[n].pc = "store" /\ stack'[n].pid = q
    <3>1. CASE q = p
      BY <1>3, <1>5, <2>1, <3>1
    <3>2. CASE q # p
      <4>1. status[q] \in {"running", "zombie"}
        BY <2>3, <2>7, <3>2
      <4>2. ~\E n \in Depth : stack[n].pc = "store" /\ stack[n].pid = q
        BY <1>1, <1>3, <2>1 DEF Busy
      <4> QED BY <2>2, <4>1, <4>2 DEF TableInv
    <3> QED BY <3>1, <3>2
  <2>8. ASSUME NEW k \in Slot, proc_tab[k] \in Pid, status'[proc_tab[k]] = "gone"
        PROVE  \E n \in Depth' : Replacing(n, k)'
    <3>1. status[proc_tab[k]] = "gone"
      BY <2>3, <2>8
    <3>2. PICK m \in Depth : Replacing(m, k)
      BY <2>2, <2>8, <3>1 DEF TableInv
    <3>3. m = 1
      BY <2>1, <3>2 DEF Replacing, Busy
    <3>4. me.fn = "restart" /\ me.i = k
      BY <1>1, <1>3, <3>2, <3>3 DEF Replacing, Is
    <3>5. Replacing(1, k)'
      BY <1>5, <2>1, <3>4 DEF Replacing, Is
    <3> QED BY <1>3, <2>1, <3>5
  <2>9. ASSUME NEW n \in Depth', Busy(stack'[n]) PROVE n = 1
    BY <2>1, <2>9
  <2>10. me.fn = "restart" => proc_tab[me.i] \in Pid /\ status[proc_tab[me.i]] = "gone"
    BY <1>1, <1>3, <2>2 DEF TableInv, Is
  <2>11. me.fn = "restart" => proc_tab[me.i] \in Pid /\ status'[proc_tab[me.i]] = "gone"
    BY <1>4, <2>3, <2>5, <2>10
  <2>12. me.fn = "main" => \A k \in Slot : k >= me.i => proc_tab[k] = 0
    BY <1>1, <1>3, <2>2 DEF TableInv, Is
  <2>13. \A k \in Slot : proc_tab[k] \in Pid => status'[proc_tab[k]] # "unused"
    BY <2>3, <2>4
  <2>14. ASSUME NEW n \in Depth', stack'[n].pc = "store"
         PROVE  /\ status'[stack'[n].pid] \in {"running", "zombie"}
                /\ \A k \in Slot : proc_tab[k] # stack'[n].pid
    <3>1. n = 1
      BY <2>9, <2>14 DEF Busy
    <3> QED BY <1>5, <2>1, <2>3, <2>5, <3>1
  <2>15. ASSUME NEW n \in Depth', Is(n, "restart")'
         PROVE  /\ stack'[n].pc = "find" => status'[stack'[n].pid] = "gone"
                /\ stack'[n].pc \in {"fork", "store"} =>
                     /\ proc_tab[stack'[n].i] \in Pid
                     /\ status'[proc_tab[stack'[n].i]] = "gone"
    <3>1. Busy(stack'[n]) => n = 1
      BY <2>9
    <3> QED BY <1>5, <2>1, <2>11, <2>15, <3>1 DEF Busy, Is
  <2>16. ASSUME NEW n \in Depth', Is(n, "main")', stack'[n].pc \in {"fork", "store"}
         PROVE  \A k \in Slot : k >= stack'[n].i => proc_tab[k] = 0
    <3>1. n = 1
      BY <2>9, <2>16 DEF Busy
    <3> QED BY <1>5, <2>1, <2>12, <2>16, <3>1 DEF Is
  <2> QED BY <2>3, <2>6, <2>7, <2>8, <2>13, <2>14, <2>15, <2>16 DEF TableInv
<1> QED BY <1>1, <1>3, <1>5, <1>6, <1>8, <1>9, <1>10, GotoP DEF Frame

\* Entry i of the table is written: with the new child, or with -1 when fork has failed.
LEMMA StoredP ==
  ASSUME PInv, server = "up", me.fn \in {"main", "restart"}, me.pc \in {"fork", "store"},
         NEW x, x = IF me.pc = "store" THEN me.pid ELSE -1,
         proc_tab' = [proc_tab EXCEPT ![me.i] = x], Stored,
         UNCHANGED <<server, sig, pending, status, child, env, lost, raced>>
  PROVE  PInv'
<1>1. /\ stack \in Seq(Frame) /\ me = stack[1] /\ 1 \in Depth /\ me \in Frame /\ Shaped(me)
      /\ TypeOK
  BY UpStack DEF PInv
<1>2. me.i \in Slot /\ me.i + 1 \in 0 .. MAX_POOL /\ (me.pc = "store" => me.pid \in Pid)
  BY <1>1 DEF Shaped, Slot
<1>3. x \in Pid \union {0, -1} /\ (x \in Pid => me.pc = "store" /\ x = me.pid)
  BY <1>2
<1>4. /\ proc_tab \in [Slot -> Pid \union {0, -1}]
      /\ proc_tab' \in [Slot -> Pid \union {0, -1}]
      /\ proc_tab'[me.i] = x /\ \A k \in Slot : k # me.i => proc_tab'[k] = proc_tab[k]
  BY <1>1, <1>2, <1>3 DEF TypeOK
<1> DEFINE Settled ==
      /\ \A n \in Depth : n # 1 => ~Busy(stack[n])
      /\ \A k, l \in Slot : proc_tab'[k] = proc_tab'[l] /\ proc_tab'[k] \in Pid => k = l
      /\ \A p \in Pid : status[p] \in {"running", "zombie"} => \E k \in Slot : proc_tab'[k] = p
      /\ \A k \in Slot : proc_tab'[k] \in Pid => status[proc_tab'[k]] \notin {"unused", "gone"}
      /\ me.fn = "main" => \A k \in Slot : k >= me.i => proc_tab[k] = 0
<1>5. ASSUME Plain PROVE Settled
  <2>1. TableInv /\ \A n \in Depth : n # 1 => ~Busy(stack[n])
    BY <1>5, OneBusy DEF PInv
  <2>2. x \in Pid => status[x] \in {"running", "zombie"} /\ \A k \in Slot : proc_tab[k] # x
    BY <1>1, <1>3, <2>1 DEF TableInv
  <2>3. me.fn = "main" => \A k \in Slot : k >= me.i => proc_tab[k] = 0
    BY <1>1, <2>1 DEF TableInv, Is
  <2>4. proc_tab[me.i] \in Pid => status[proc_tab[me.i]] = "gone"
    <3>1. CASE me.fn = "main"
      BY <1>2, <2>3, <3>1 DEF Slot
    <3>2. CASE me.fn = "restart"
      BY <1>1, <2>1, <3>2 DEF TableInv, Is
    <3> QED BY <3>1, <3>2
  <2>5. \A k, l \in Slot : proc_tab'[k] = proc_tab'[l] /\ proc_tab'[k] \in Pid => k = l
    <3>1. \A k, l \in Slot : proc_tab[k] = proc_tab[l] /\ proc_tab[k] \in Pid => k = l
      BY <2>1 DEF TableInv
    <3> QED BY <1>2, <1>4, <2>2, <3>1
  <2>6. ASSUME NEW p \in Pid, status[p] \in {"running", "zombie"}
        PROVE  \E k \in Slot : proc_tab'[k] = p
    <3>1. CASE \E k \in Slot : proc_tab[k] = p
      BY <1>2, <1>4, <2>4, <2>6, <3>1
    <3>2. CASE \E n \in Depth : stack[n].pc = "store" /\ stack[n].pid = p
      <4>1. me.pc = "store" /\ me.pid = p
        BY <1>1, <2>1, <3>2 DEF Busy
      <4> QED BY <1>2, <1>4, <4>1
    <3> QED BY <2>1, <2>6, <3>1, <3>2 DEF TableInv
  <2>7. ASSUME NEW k \in Slot, proc_tab'[k] \in Pid
        PROVE  status[proc_tab'[k]] \notin {"unused", "gone"}
    <3>1. CASE k = me.i
      BY <1>4, <2>2, <2>7, <3>1
    <3>2. CASE k # me.i
      <4>1. proc_tab'[k] = proc_tab[k] /\ status[proc_tab[k]] # "unused"
        BY <1>4, <2>1, <2>7, <3>2 DEF TableInv
      <4>2. ASSUME status[proc_tab[k]] = "gone" PROVE FALSE
        <5>1. PICK m \in Depth : Replacing(m, k)
          BY <2>1, <2>7, <4>1, <4>2 DEF TableInv
        <5>2. m = 1
          BY <2>1, <5>1 DEF Replacing, Busy
        <5> QED BY <1>1, <3>2, <5>1, <5>2 DEF Replacing, Is
      <4> QED BY <4>1, <4>2
    <3> QED BY <3>1, <3>2
  <2> QED BY <2>1, <2>3, <2>5, <2>6, <2>7
<1>6. CASE me.fn = "restart"
  <2>1. Popped
    BY <1>6, ReturnMoves DEF Stored
  <2>2. TypeOK'
    BY <1>1, <1>4, <2>1 DEF TypeOK, Popped, sig, env
  <2>3. ASSUME Plain PROVE TableInv'
    <3>1. \A n \in Depth' : ~Busy(stack'[n])
      <4>1. \A n \in Depth' : n + 1 \in Depth /\ stack'[n] = stack[n + 1] /\ n + 1 # 1
        BY <2>1, PoppedFrames DEF Depth, Popped
      <4> QED BY <1>5, <2>3, <4>1
    <3>2. status' = status
      OBVIOUS
    <3> QED BY <1>5, <2>3, <3>1, <3>2, QuietTable
  <2> HIDE DEF Settled
  <2> QED BY <1>6, <2>1, <2>2, <2>3, ReturnP DEF sig
<1>7. CASE me.fn = "main"
  <2> DEFINE pc == IF me.i + 1 < MAX_POOL THEN "fork" ELSE "setterm"
  <2>1. PICK f \in Frame : /\ Replaced(f)
                           /\ f.fn = me.fn /\ f.pc = pc /\ f.i = me.i + 1 /\ f.pid = 0
    <3>1. Goto(pc, me.i + 1, 0) /\ pc \in PC
      BY <1>7 DEF Stored, PC
    <3> HIDE DEF pc
    <3> QED BY <1>2, <3>1, GotoMoves
  <2>2. Shaped(f)
    BY <1>2, <1>7, <2>1 DEF Shaped, Slot
  <2>3. TypeOK'
    BY <1>1, <1>4, <2>1 DEF TypeOK, Replaced, sig, env
  <2>4. ASSUME Plain PROVE TableInv'
    <3>1. Depth' = Depth /\ stack'[1] = f /\ Depth = {1}
      BY <1>7, <2>1, ReplacedFrames, MainAlone
    <3>2. status' = status
      OBVIOUS
    <3>3. \A k \in Slot : k >= f.i => proc_tab'[k] = 0
      <4>1. me.i \in Nat /\ \A k \in Slot : k \in Nat
        BY <1>2 DEF Slot
      <4>2. \A k \in Slot : k >= me.i + 1 => k >= me.i /\ k # me.i
        BY <4>1
      <4> QED BY <1>4, <1>5, <1>7, <2>1, <2>4, <4>2
    <3>4. f.pc \notin {"store", "find"} /\ f.fn = "main"
      BY <1>7, <2>1
    <3>5. \A k, l \in Slot : proc_tab'[k] = proc_tab'[l] /\ proc_tab'[k] \in Pid => k = l
      BY <1>5, <2>4
    <3>6. \A p \in Pid : status'[p] \in {"running", "zombie"} => \E k \in Slot : proc_tab'[k] = p
      BY <1>5, <2>4, <3>2
    <3>7. \A k \in Slot : proc_tab'[k] \in Pid => status'[proc_tab'[k]] \notin {"unused", "gone"}
      BY <1>5, <2>4, <3>2
    <3>8. \A n \in Depth' : stack'[n] = f
      BY <3>1
    <3> HIDE DEF Settled, pc
    <3> QED BY <3>3, <3>4, <3>5, <3>6, <3>7, <3>8 DEF TableInv, Is
  <2>5. f.pc \in {"fork", "setterm"} /\ f.pc # "wait" /\ Zombies' = Zombies
    BY <2>1 DEF Zombies
  <2> HIDE DEF Settled, pc
  <2> QED BY <1>7, <2>1, <2>2, <2>3, <2>4, <2>5, GotoP
<1> QED BY <1>6, <1>7

LEMMA ForkFailP == ASSUME PInv, ForkFail PROVE PInv'
BY StoredP DEF ForkFail, At, me, hist

LEMMA StoreP == ASSUME PInv, Store PROVE PInv'
BY StoredP DEF Store, At, me, hist

LEMMA WaitPidP == ASSUME PInv, WaitPid PROVE PInv'
<1>1. /\ server = "up" /\ me.fn = "restart" /\ me.pc = "wait"
      /\ UNCHANGED <<server, proc_tab, sig, pending, child, env, lost>>
      /\ raced' \in BOOLEAN
  BY DEF WaitPid, At, me, PInv, TypeOK
<1>2. PICK p \in Pid : /\ status[p] = "zombie" /\ status' = [status EXCEPT ![p] = "gone"]
                       /\ Goto("find", 0, p)
  BY DEF WaitPid
<1>3. /\ stack \in Seq(Frame) /\ me = stack[1] /\ 1 \in Depth /\ TypeOK /\ Depth \subseteq Int
  BY <1>1, UpStack DEF PInv, Depth
<1>4. PICK f \in Frame : /\ Replaced(f)
                         /\ f.fn = me.fn /\ f.pc = "find" /\ f.i = 0 /\ f.pid = p
  BY <1>1, <1>2, GotoMoves DEF PC
<1>5. /\ status'[p] = "gone" /\ \A q \in Pid : q # p => status'[q] = status[q]
      /\ status' \in [Pid -> {"unused", "running", "zombie", "gone"}]
  BY <1>2, <1>3 DEF TypeOK
<1>6. TypeOK'
  BY <1>1, <1>3, <1>4, <1>5 DEF TypeOK, Replaced, sig, env
<1>7. StackInv' /\ PhaseInv'
  <2>1. Shaped(f)
    BY <1>1, <1>4 DEF Shaped
  <2> QED BY <1>1, <1>4, <2>1, ShapeGoto, PhaseGoto DEF sig
<1>8. ZombieHasSignal'
  <2>1. Holding("wait")' = Holding("wait") \ {1} /\ 1 \in Holding("wait")
    BY <1>1, <1>3, <1>4, WaitsGoto, UpStack DEF Holding
  <2>2. Zombies' = Zombies \ {p} /\ p \in Zombies
    BY <1>2, <1>5 DEF Zombies
  <2>3. /\ Cardinality(Holding("wait")') = Cardinality(Holding("wait")) - 1
        /\ Cardinality(Zombies') = Cardinality(Zombies) - 1
    <3>1. IsFiniteSet(Holding("wait")) /\ IsFiniteSet(Zombies)
      BY <1>1, Counted
    <3> QED BY <2>1, <2>2, <3>1, FS_RemoveElement
  <2>4. Cardinality(pending' \ {"SIGTERM"}) = Chld(pending) /\ Chld(pending) \in Nat
    BY <1>1, <1>6, PendingCard DEF TypeOK, Chld
  <2>5. Cardinality(Zombies') <= lost' + Cardinality(Holding("wait")')
                                  + Cardinality(pending' \ {"SIGTERM"})
    BY <1>1, <2>3, <2>4, Counted
  <2> QED BY <2>5 DEF ZombieHasSignal
<1>9. ASSUME Plain PROVE TableInv'
  <2>1. /\ Depth' = Depth /\ stack'[1] = f
        /\ \A n \in Depth : n # 1 => stack'[n] = stack[n] /\ ~Busy(stack[n])
    BY <1>1, <1>4, <1>9, ReplacedFrames, OneBusy
  <2>2. TableInv /\ \A n \in Depth : ~Busy(stack[n])
    BY <1>1, <1>3, <1>9, <2>1 DEF PInv, Busy
  <2>3. \A k, l \in Slot : proc_tab[k] = proc_tab[l] /\ proc_tab[k] \in Pid => k = l
    BY <2>2 DEF TableInv
  <2>4. ASSUME NEW q \in Pid, status'[q] \in {"running", "zombie"}
        PROVE  \E k \in Slot : proc_tab[k] = q
    <3>1. status[q] \in {"running", "zombie"}
      BY <1>5, <2>4
    <3> QED BY <2>2, <3>1 DEF TableInv, Busy
  <2>5. ASSUME NEW k \in Slot, proc_tab[k] \in Pid
        PROVE  /\ status'[proc_tab[k]] # "unused"
               /\ status'[proc_tab[k]] = "gone" => proc_tab[k] = p
    <3>1. status[proc_tab[k]] # "unused" /\ status[proc_tab[k]] # "gone"
      BY <2>2, <2>5 DEF TableInv, Replacing, Busy
    <3> QED BY <1>5, <2>5, <3>1
  <2>6. ASSUME NEW k \in Slot, proc_tab[k] \in Pid, status'[proc_tab[k]] = "gone"
        PROVE  Replacing(1, k)'
    BY <1>1, <1>4, <2>1, <2>5, <2>6 DEF Replacing, Is
  <2>7. \A n \in Depth' : /\ stack'[n].pc \notin {"fork", "store"}
                          /\ stack'[n].pc = "find" => stack'[n].pid = p
    BY <1>4, <2>1 DEF Busy
  <2> QED BY <1>1, <1>3, <1>5, <2>1, <2>3, <2>4, <2>5, <2>6, <2>7 DEF TableInv
<1> QED BY <1>1, <1>6, <1>7, <1>8, <1>9 DEF PInv, Plain, sig

LEMMA WaitPidNoneP == ASSUME PInv, WaitPidNone PROVE PInv'
<1>1. /\ server = "up" /\ me.fn = "restart" /\ me.pc = "wait"
      /\ UNCHANGED <<server, proc_tab, sig, pending, status, child, env, lost, raced>>
  BY DEF WaitPidNone, At, me, hist
<1>2. Popped
  BY <1>1, ReturnMoves DEF WaitPidNone
<1>3. Zombies = {} /\ ~Busy(me)
  BY <1>1 DEF WaitPidNone, Zombies, Busy
<1>4. TypeOK'
  BY <1>1, <1>2 DEF PInv, TypeOK, Popped, sig, env
<1>5. ASSUME Plain PROVE TableInv'
  BY <1>1, <1>2, <1>3, <1>5, SameBusy, TableStays
<1> QED BY <1>1, <1>2, <1>3, <1>4, <1>5, ReturnP

LEMMA FindP == ASSUME PInv, Find PROVE PInv'
<1>1. /\ server = "up" /\ me.fn = "restart" /\ me.pc = "find"
      /\ UNCHANGED <<server, proc_tab, sig, pending, status, child, env, lost, raced>>
  BY DEF Find, At, me, hist
<1>2. /\ me = stack[1] /\ 1 \in Depth /\ TypeOK /\ me.pid \in Pid
  BY <1>1, UpStack DEF PInv, Shaped
<1>3. ASSUME Plain
      PROVE  /\ \A n \in Depth : n # 1 => ~Busy(stack[n])
             /\ \A k, l \in Slot : proc_tab[k] = proc_tab[l] /\ proc_tab[k] \in Pid => k = l
             /\ \A p \in Pid : status[p] \in {"running", "zombie"} => \E k \in Slot : proc_tab[k] = p
             /\ \A k \in Slot : proc_tab[k] \in Pid => /\ status[proc_tab[k]] # "unused"
                                                       /\ status[proc_tab[k]] = "gone" => proc_tab[k] = me.pid
             /\ status[me.pid] = "gone"
  <2>1. TableInv /\ \A n \in Depth : n # 1 => ~Busy(stack[n])
    BY <1>1, <1>3, OneBusy DEF PInv
  <2>2. \A n \in Depth : stack[n].pc \notin {"fork", "store"}
    BY <1>1, <1>2, <2>1 DEF Busy
  <2>3. \A k \in Slot : proc_tab[k] \in Pid /\ status[proc_tab[k]] = "gone" => proc_tab[k] = me.pid
    BY <1>1, <1>2, <2>1 DEF TableInv, Replacing, Busy
  <2>4. status[me.pid] = "gone"
    BY <1>1, <1>2, <2>1 DEF TableInv, Is
  <2> QED BY <2>1, <2>2, <2>3, <2>4 DEF TableInv
<1>4. CASE \E k \in Slot : proc_tab[k] = me.pid /\ Goto("fork", k, 0)
  <2>1. PICK k \in Slot : proc_tab[k] = me.pid /\ Goto("fork", k, 0)
    BY <1>4
  <2>2. k \in 0 .. MAX_POOL
    BY DEF Slot
  <2>3. PICK f \in Frame : /\ Replaced(f)
                           /\ f.fn = me.fn /\ f.pc = "fork" /\ f.i = k /\ f.pid = 0
    BY <1>1, <2>1, <2>2, GotoMoves DEF PC
  <2>4. Shaped(f)
    BY <1>1, <2>3 DEF Shaped
  <2>5. TypeOK' /\ Zombies' = Zombies
    BY <1>1, <1>2, <2>3 DEF TypeOK, Replaced, sig, env, Zombies
  <2>6. ASSUME Plain PROVE TableInv'
    <3>1. /\ Depth' = Depth /\ stack'[1] = f
          /\ \A n \in Depth : n # 1 => stack'[n] = stack[n] /\ ~Busy(stack[n])
      BY <1>1, <1>3, <2>3, <2>6, ReplacedFrames
    <3>2. \A n \in Depth' : /\ stack'[n].pc \notin {"store", "find"}
                            /\ stack'[n].pc = "fork" => stack'[n].i = k /\ stack'[n].fn = "restart"
      BY <1>1, <2>3, <3>1 DEF Busy
    <3>3. ASSUME NEW l \in Slot, proc_tab[l] \in Pid, status[proc_tab[l]] = "gone"
          PROVE  Replacing(1, l)'
      <4>1. l = k
        BY <1>2, <1>3, <2>1, <2>6, <3>3
      <4> QED BY <1>1, <2>3, <3>1, <4>1 DEF Replacing, Is
    <3>4. proc_tab[k] \in Pid /\ status[proc_tab[k]] = "gone"
      BY <1>2, <1>3, <2>1, <2>6
    <3> QED BY <1>1, <1>2, <1>3, <2>6, <3>1, <3>2, <3>3, <3>4 DEF TableInv, Is
  <2> QED BY <1>1, <2>3, <2>4, <2>5, <2>6, GotoP
<1>5. CASE (\A k \in Slot : proc_tab[k] # me.pid) /\ Return
  <2>1. Popped
    BY <1>1, <1>5, ReturnMoves
  <2>2. TypeOK'
    BY <1>1, <1>2, <2>1 DEF TypeOK, Popped, sig, env
  <2>3. ASSUME Plain PROVE TableInv'
    <3>1. \A n \in Depth' : ~Busy(stack'[n])
      <4>1. \A n \in Depth' : n + 1 \in Depth /\ stack'[n] = stack[n + 1] /\ n + 1 # 1
        BY <1>1, <2>1, PoppedFrames DEF Depth, Popped
      <4> QED BY <1>3, <2>3, <4>1
    <3> QED BY <1>1, <1>3, <1>5, <2>3, <3>1, QuietTable
  <2> QED BY <1>1, <2>1, <2>2, <2>3, ReturnP
<1> QED BY <1>4, <1>5 DEF Find

LEMMA set_signalsetP == ASSUME PInv, set_signalset PROVE PInv'
<1>1. /\ server = "up" /\ me.fn = "main" /\ me.pc \in {"setterm", "setchld"}
      /\ UNCHANGED <<server, proc_tab, flags, mask, pending, status, child, env, lost, raced>>
  BY DEF set_signalset, At, me, hist
<1>2. /\ me = stack[1] /\ 1 \in Depth /\ TypeOK /\ me \in Frame /\ Depth = {1} /\ PhaseInv
  BY <1>1, UpStack, MainAlone DEF PInv
<1>3. me.i \in 0 .. MAX_POOL
  BY <1>2 DEF Frame
<1>4. PICK f \in Frame :
        /\ Replaced(f) /\ f.fn = me.fn /\ f.pid = 0
        /\ \/ f.pc = "setchld" /\ handlers' = {"SIGTERM"}
           \/ f.pc = "pause" /\ handlers' = {"SIGTERM", "SIGCHLD"}
  <2>1. CASE At("main", "setterm") /\ handlers' = {"SIGTERM"} /\ Goto("setchld", me.i, 0)
    BY <1>1, <1>3, <2>1, GotoMoves DEF PC
  <2>2. CASE At("main", "setchld") /\ handlers' = {"SIGTERM", "SIGCHLD"} /\ Goto("pause", me.i, 0)
    BY <1>1, <1>3, <2>2, GotoMoves DEF PC
  <2> QED BY <2>1, <2>2 DEF set_signalset
<1>5. Shaped(f) /\ ~Busy(f) /\ ~Busy(me)
  BY <1>1, <1>4 DEF Shaped, Busy
<1>6. StackInv'
  BY <1>1, <1>4, <1>5, ShapeGoto
<1>7. TypeOK'
  BY <1>1, <1>2, <1>4 DEF TypeOK, Replaced, env
<1>8. PhaseInv'
  <2>1. Depth' = {1} /\ stack'[1] = f
    BY <1>1, <1>2, <1>4, ReplacedFrames
  <2>2. "SIGCHLD" \notin pending
    BY <1>1, <1>2 DEF PhaseInv, Is
  <2> QED BY <1>1, <1>4, <2>1, <2>2 DEF PhaseInv, Is
<1>9. ZombieHasSignal'
  <2>1. Holding("wait")' = Holding("wait") /\ Zombies' = Zombies
    BY <1>1, <1>4, WaitsGoto DEF Zombies
  <2>2. pending' \in SUBSET {"SIGTERM", "SIGCHLD"}
    BY <1>7 DEF TypeOK
  <2>3. Cardinality(Holding("wait")') + Chld(pending') >= Cardinality(Holding("wait")) + Chld(pending)
    BY <1>1, <2>1, Counted DEF Chld
  <2> QED BY <1>1, <2>1, <2>2, <2>3, Counted, SumKept
<1>10. ASSUME Plain PROVE TableInv'
  BY <1>1, <1>4, <1>5, <1>10, SameBusy, TableStays
<1> QED BY <1>1, <1>6, <1>7, <1>8, <1>9, <1>10 DEF PInv, Plain

LEMMA DeliverTermP == ASSUME PInv, DeliverTerm PROVE PInv'
<1>1. /\ server = "up" /\ "SIGTERM" \in pending /\ ~TermMasked
      /\ UNCHANGED <<proc_tab, sig, child, env, lost, raced>>
  BY DEF DeliverTerm, hist
<1>2. CASE "SIGTERM" \in handlers
  <2> DEFINE f == [fn |-> "kill", pc |-> "kill", i |-> 0, pid |-> 0]
  <2>1. /\ stack' = <<f>> \o stack /\ pending' = pending \ {"SIGTERM"} /\ UNCHANGED <<server, status>>
    BY <1>2 DEF DeliverTerm
  <2>2. f \in Frame /\ Shaped(f) /\ f.fn = "kill" /\ f.pc = "kill" /\ ~Busy(f)
    BY DEF Frame, Shaped, Busy
  <2> HIDE DEF f
  <2>3. Pushed(f)
    BY <1>1, <2>1, <2>2, SignalMoves
  <2> QED BY <1>1, <1>2, <2>1, <2>2, <2>3, SignalP DEF sig
<1>3. CASE "SIGTERM" \notin handlers
  BY <1>1, <1>3, EndsP DEF DeliverTerm, hist
<1> QED BY <1>2, <1>3

\* kill_child goes on to its next point.
LEMMA KillMoves ==
  ASSUME PInv, server = "up", me.fn = "kill", TypeOK',
         NEW f \in Frame, Replaced(f), f.fn = "kill", Shaped(f),
         UNCHANGED <<server, proc_tab, sig, pending, status, lost>>
  PROVE  PInv'
<1>1. Shaped(me) /\ Zombies' = Zombies
  BY UpStack DEF Zombies
<1>2. ~Busy(f) /\ ~Busy(me) /\ f.pc # "wait" /\ me.pc # "wait"
  BY <1>1 DEF Shaped, Busy
<1>3. ASSUME Plain PROVE TableInv'
  BY <1>2, <1>3, SameBusy, TableStays
<1> QED BY <1>1, <1>2, <1>3, GotoP

LEMMA KillTestMoves ==
  ASSUME PInv, KillTest
  PROVE  \E f \in Frame :
           /\ Replaced(f) /\ f.fn = "kill" /\ Shaped(f)
           /\ \/ f.pc = "kill"
              \/ f.pc = "load" /\ f.pid \in Pid /\ f.pid = proc_tab[f.i]
<1>1. server = "up" /\ me.fn = "kill" /\ me.pc = "kill" /\ me.i < MAX_POOL
  BY DEF KillTest, At, me
<1>2. TypeOK /\ me \in Frame
  BY <1>1, UpStack DEF PInv
<1>3. me.i + 1 \in 0 .. MAX_POOL /\ me.i \in 0 .. MAX_POOL /\ me.i \in Slot
  BY <1>1, <1>2 DEF Frame, Slot
<1>4. proc_tab[me.i] \in Pid \union {0, -1}
  BY <1>2, <1>3 DEF TypeOK
<1>5. CASE proc_tab[me.i] > 0
  <2>1. proc_tab[me.i] \in Pid
    BY <1>4, <1>5
  <2>2. PICK f \in Frame : /\ Replaced(f)
                           /\ f.fn = me.fn /\ f.pc = "load" /\ f.i = me.i /\ f.pid = proc_tab[me.i]
    <3>1. PICK pid \in Pid : pid = proc_tab[me.i]
      BY <2>1
    <3>2. Goto("load", me.i, pid)
      BY <1>5, <3>1 DEF KillTest
    <3>3. \E f \in Frame : /\ Replaced(f)
                          /\ f.fn = me.fn /\ f.pc = "load" /\ f.i = me.i /\ f.pid = pid
      BY <1>1, <1>3, <3>2, GotoMoves DEF PC
    <3> QED BY <3>1, <3>3
  <2> QED BY <1>1, <1>3, <2>1, <2>2 DEF Shaped
<1>6. CASE ~(proc_tab[me.i] > 0)
  <2>1. PICK f \in Frame : /\ Replaced(f)
                           /\ f.fn = me.fn /\ f.pc = "kill" /\ f.i = me.i + 1 /\ f.pid = 0
    BY <1>1, <1>3, <1>6, GotoMoves DEF PC, KillTest
  <2> QED BY <1>1, <2>1 DEF Shaped
<1> QED BY <1>5, <1>6

LEMMA KillTestP == ASSUME PInv, KillTest PROVE PInv'
<1>1. /\ server = "up" /\ me.fn = "kill" /\ TypeOK /\ raced' = FALSE
      /\ UNCHANGED <<server, proc_tab, sig, pending, status, child, env, lost>>
  BY DEF KillTest, At, me, PInv
<1>2. PICK f \in Frame : Replaced(f) /\ f.fn = "kill" /\ Shaped(f)
  BY KillTestMoves
<1>3. TypeOK'
  BY <1>1, <1>2 DEF TypeOK, Replaced, sig, env
<1> QED BY <1>1, <1>2, <1>3, KillMoves

LEMMA KillLoadMoves ==
  ASSUME PInv, KillLoad
  PROVE  \E f \in Frame :
           /\ Replaced(f) /\ f.fn = "kill" /\ Shaped(f) /\ f.pc = "send" /\ f.i = me.i
           /\ f.pid \in {me.pid, proc_tab[me.i]}
<1>1. server = "up" /\ me.fn = "kill" /\ me.pc = "load"
  BY DEF KillLoad, At, me
<1>2. TypeOK /\ me \in Frame /\ Shaped(me)
  BY <1>1, UpStack DEF PInv
<1>3. me.i \in Slot /\ me.i \in 0 .. MAX_POOL /\ me.pid \in Pid \union {0, -1}
  BY <1>1, <1>2 DEF Frame, Shaped
<1>4. proc_tab[me.i] \in Pid \union {0, -1}
  BY <1>2, <1>3 DEF TypeOK
<1>5. PICK pid \in {me.pid, proc_tab[me.i]} : Goto("send", me.i, pid)
  BY DEF KillLoad
<1>6. pid \in Pid \union {0, -1}
  BY <1>3, <1>4, <1>5
<1>7. PICK f \in Frame : /\ Replaced(f)
                         /\ f.fn = me.fn /\ f.pc = "send" /\ f.i = me.i /\ f.pid = pid
  BY <1>1, <1>3, <1>5, <1>6, GotoMoves DEF PC
<1> QED BY <1>1, <1>3, <1>5, <1>7 DEF Shaped

LEMMA KillLoadP == ASSUME PInv, KillLoad PROVE PInv'
<1>1. /\ server = "up" /\ me.fn = "kill" /\ TypeOK
      /\ UNCHANGED <<server, proc_tab, sig, pending, status, child, env, lost, raced>>
  BY DEF KillLoad, At, me, PInv, hist
<1>2. PICK f \in Frame : Replaced(f) /\ f.fn = "kill" /\ Shaped(f)
  BY KillLoadMoves
<1>3. TypeOK'
  BY <1>1, <1>2 DEF TypeOK, Replaced, sig, env
<1> QED BY <1>1, <1>2, <1>3, KillMoves

LEMMA KillSendMoves ==
  ASSUME PInv, KillSend
  PROVE  \E f \in Frame : Replaced(f) /\ f.fn = "kill" /\ Shaped(f) /\ f.pc = "kill"
<1>1. server = "up" /\ me.fn = "kill" /\ me.pc = "send" /\ Goto("kill", me.i + 1, 0)
  BY DEF KillSend, At, me
<1>2. me \in Frame /\ Shaped(me)
  BY <1>1, UpStack
<1>3. me.i + 1 \in 0 .. MAX_POOL
  BY <1>1, <1>2 DEF Shaped, Slot
<1>4. PICK f \in Frame : /\ Replaced(f)
                         /\ f.fn = me.fn /\ f.pc = "kill" /\ f.i = me.i + 1 /\ f.pid = 0
  BY <1>1, <1>3, GotoMoves DEF PC
<1> QED BY <1>1, <1>4 DEF Shaped

LEMMA KillSendP == ASSUME PInv, KillSend PROVE PInv'
<1>1. /\ server = "up" /\ me.fn = "kill" /\ TypeOK
      /\ UNCHANGED <<server, proc_tab, sig, pending, status, env, lost, raced>>
  BY DEF KillSend, At, me, PInv, hist
<1>2. PICK f \in Frame : Replaced(f) /\ f.fn = "kill" /\ Shaped(f)
  BY KillSendMoves
<1>3. \A p \in Pid : child[p] \in Child /\ [child[p] EXCEPT !.term = TRUE] \in Child
  BY <1>1, ChildType DEF Child
<1>4. child' \in [Pid -> Child]
  BY <1>3 DEF KillSend
<1>5. TypeOK'
  BY <1>1, <1>2, <1>4 DEF TypeOK, Replaced, sig, env
<1> QED BY <1>1, <1>2, <1>5, KillMoves

LEMMA KillExitP == ASSUME PInv, KillExit PROVE PInv'
BY EndsP DEF KillExit, hist

LEMMA DeliverChldP == ASSUME PInv, DeliverChld PROVE PInv'
<1> DEFINE f == [fn |-> "restart", pc |-> "wait", i |-> 0, pid |-> 0]
<1>1. /\ server = "up" /\ "SIGCHLD" \in pending /\ ~ChldMasked /\ stack' = <<f>> \o stack
      /\ pending' = pending \ {"SIGCHLD"} /\ handlers' \subseteq handlers
      /\ UNCHANGED <<server, proc_tab, flags, mask, status, child, env, lost, raced>>
  BY DEF DeliverChld, hist
<1>2. f \in Frame /\ Shaped(f) /\ f.fn = "restart" /\ f.pc = "wait" /\ ~Busy(f)
  BY DEF Frame, Shaped, Busy
<1> HIDE DEF f
<1>3. Pushed(f)
  BY <1>1, <1>2, SignalMoves
<1> QED BY <1>1, <1>2, <1>3, SignalP

----------------------------------------------------------------------------
(* The theorems                                                            *)

LEMMA StepP == PInv /\ [Next]_vars => PInv'
<1> SUFFICES ASSUME PInv, [Next]_vars PROVE PInv'
  OBVIOUS
<1>1. CASE UNCHANGED vars
  <2>1. UNCHANGED <<server, stack, proc_tab, sig, pending, status, child, env, lost, raced>>
    BY <1>1 DEF vars, hist
  <2>2. TypeOK'
    BY <2>1 DEF PInv, TypeOK, sig, env
  <2> QED BY <2>1, <2>2, SentP
<1>2. CASE Server
  BY <1>2, ForkP, ForkFailP, StoreP, set_signalsetP, DeliverTermP, KillTestP, KillLoadP,
     KillSendP, KillExitP, DeliverChldP, WaitPidP, WaitPidNoneP, FindP DEF Server
<1>3. CASE TermServer
  BY <1>3, TermServerP
<1>4. CASE \E p \in Pid : \/ ChildDie(p) \/ ChildStop(p) \/ start_child(p)
                          \/ ChildTerm(p) \/ TermChild(p)
  BY <1>4, ChildDieP, ChildStopP, start_childP, ChildTermP, TermChildP
<1> QED BY <1>1, <1>2, <1>3, <1>4 DEF Next

LEMMA PAlways == Spec => []PInv
BY InitP, StepP, PTL DEF Spec

\* The table of in_stream_serv3.c is true to the children: each one that runs, or is dead
\* and not waited for, is in one entry or about to be stored, and each dead one has a
\* waitpid coming, a SIGCHLD pending, or is among those that raised none.
THEOREM TableCorrect == Spec => []TableTrue
BY PAlways, PInvSuffices, PTL

----------------------------------------------------------------------------
(* The child that kill_child is about to signal                            *)

Aiming(f) == f.pc \in {"load", "send"}

\* Frame m of restart_child, below kill_child's, replaces the child of frame n.
Below(m, n) ==
  /\ m > n /\ Is(m, "restart")
  /\ \/ stack[m].pc = "find" /\ stack[m].pid = stack[n].pid
     \/ stack[m].pc \in {"fork", "store"} /\ stack[m].i = stack[n].i

\* What frame n holds is the number of a child, still in its entry before the second read,
\* and if it has been waited for then by a restart_child that was interrupted.
Aimed(n) ==
  /\ stack[n].pid \in Pid
  /\ stack[n].pc = "load" => proc_tab[stack[n].i] = stack[n].pid
  /\ status[stack[n].pid] = "gone" => \E m \in Depth : Below(m, n)

KInv == server = "up" /\ Plain => \A n \in Depth : Aiming(stack[n]) => raced \/ Aimed(n)

LEMMA KInvSuffices ==
  ASSUME PInv, KInv
  PROVE  KillHitsChild
<1> SUFFICES ASSUME Plain, At("kill", "send"), ~raced
             PROVE  (me.pid \in Pid /\ status[me.pid] # "gone") \/ (~mask /\ BeingReplaced(me))
  BY DEF KillHitsChild, Plain
<1>1. server = "up" /\ me.fn = "kill" /\ me.pc = "send"
  BY DEF At, me
<1>2. me = stack[1] /\ 1 \in Depth /\ DOMAIN stack = Depth
  BY <1>1, UpStack
<1>3. Aimed(1)
  BY <1>1, <1>2 DEF KInv, Aiming
<1>4. ASSUME status[me.pid] = "gone" PROVE ~mask /\ BeingReplaced(me)
  <2>1. PICK m \in Depth : Below(m, 1)
    BY <1>2, <1>3, <1>4 DEF Aimed
  <2>2. BeingReplaced(me)
    BY <1>2, <2>1 DEF BeingReplaced, Below, Is
  <2>3. ASSUME mask PROVE FALSE
    <3>1. m < 1
      BY <1>1, <1>2, <2>1, <2>3 DEF PInv, StackInv, Below, Is
    <3> QED BY <3>1 DEF Depth
  <2> QED BY <2>2, <2>3
<1>5. me.pid \in Pid
  BY <1>2, <1>3 DEF Aimed
<1> QED BY <1>4, <1>5

\* How a step may move the stack if kill_child does not take aim in it.
Moves ==
  \/ UNCHANGED stack
  \/ \E f \in Frame : Replaced(f) /\ ~Aiming(f)
  \/ \E f \in Frame : Pushed(f) /\ ~Aiming(f)
  \/ Popped

\* A step leaves alone what frame n aims at.
Spared(n) ==
  \/ raced'
  \/ /\ status'[stack[n].pid] = "gone" => status[stack[n].pid] = "gone"
     /\ stack[n].pc = "load" => proc_tab'[stack[n].i] = proc_tab[stack[n].i]

\* The frames of the new state that aim, and those below them, are frames of the old one.
LEMMA AimsCarried ==
  ASSUME PInv, server = "up", Moves, NEW n \in Depth', Aiming(stack'[n])
  PROVE  \E k \in Depth : /\ stack[k] = stack'[n]
                          /\ \A m \in Depth : m > k =>
                               \E l \in Depth' : l > n /\ stack'[l] = stack[m]
<1>1. Depth \subseteq Int /\ \A m \in Depth : m >= 1
  BY UpStack DEF Depth
<1>2. n \in Int /\ n >= 1
  <2>1. stack' \in Seq(Frame)
    BY UpStack DEF Moves, Replaced, Pushed, Popped
  <2>2. Len(stack') \in Nat
    BY <2>1
  <2> QED BY <2>2 DEF Depth
<1>3. CASE UNCHANGED stack
  BY <1>3 DEF Depth
<1>4. ASSUME NEW f \in Frame, Replaced(f), ~Aiming(f)
      PROVE  \E k \in Depth : /\ stack[k] = stack'[n]
                              /\ \A m \in Depth : m > k =>
                                   \E l \in Depth' : l > n /\ stack'[l] = stack[m]
  <2>1. /\ Depth' = Depth /\ stack'[1] = f
        /\ \A m \in Depth : m # 1 => stack'[m] = stack[m]
    BY <1>4, ReplacedFrames
  <2>2. n # 1 /\ n \in Depth /\ stack[n] = stack'[n]
    BY <1>4, <2>1
  <2>3. \A m \in Depth : m > n => m \in Depth' /\ stack'[m] = stack[m]
    BY <1>1, <1>2, <2>1
  <2> QED BY <2>2, <2>3
<1>5. ASSUME NEW f \in Frame, Pushed(f), ~Aiming(f)
      PROVE  \E k \in Depth : /\ stack[k] = stack'[n]
                              /\ \A m \in Depth : m > k =>
                                   \E l \in Depth' : l > n /\ stack'[l] = stack[m]
  <2>1. /\ \A m \in Depth : m + 1 \in Depth' /\ stack'[m + 1] = stack[m]
        /\ \A m \in Depth' : m # 1 => m - 1 \in Depth /\ stack'[m] = stack[m - 1]
        /\ stack'[1] = f
    BY <1>5, PushedFrames
  <2>2. n - 1 \in Depth /\ stack[n - 1] = stack'[n]
    BY <1>5, <2>1
  <2>3. \A m \in Depth : m > n - 1 => m + 1 > n
    BY <1>1, <1>2
  <2> QED BY <2>1, <2>2, <2>3
<1>6. CASE Popped
  <2>1. /\ \A m \in Depth : m # 1 => m - 1 \in Depth' /\ stack'[m - 1] = stack[m]
        /\ \A m \in Depth' : m + 1 \in Depth /\ stack'[m] = stack[m + 1]
    BY <1>6, PoppedFrames
  <2>2. n + 1 \in Depth /\ stack[n + 1] = stack'[n]
    BY <2>1
  <2>3. \A m \in Depth : m > n + 1 => m - 1 > n /\ m # 1
    BY <1>1, <1>2
  <2> QED BY <2>1, <2>2, <2>3
<1> QED BY <1>3, <1>4, <1>5, <1>6 DEF Moves

LEMMA AimKept ==
  ASSUME PInv, KInv, server = "up", UNCHANGED flags, Moves, raced => raced',
         \A n \in Depth : Plain /\ ~raced /\ Aiming(stack[n]) => Spared(n)
  PROVE  KInv'
<1> SUFFICES ASSUME Plain', NEW n \in Depth', Aiming(stack'[n]), ~raced' PROVE Aimed(n)'
  BY DEF KInv, Aiming
<1>1. PICK k \in Depth : /\ stack[k] = stack'[n]
                         /\ \A m \in Depth : m > k =>
                              \E l \in Depth' : l > n /\ stack'[l] = stack[m]
  BY AimsCarried
<1>2. Plain /\ ~raced /\ Aiming(stack[k])
  BY <1>1 DEF Plain, Aiming
<1>3. Aimed(k) /\ Spared(k)
  BY <1>1, <1>2 DEF KInv
<1>4. ASSUME status'[stack'[n].pid] = "gone" PROVE \E m \in Depth' : Below(m, n)'
  <2>1. PICK m \in Depth : Below(m, k)
    BY <1>1, <1>3, <1>4 DEF Aimed, Spared
  <2>2. PICK l \in Depth' : l > n /\ stack'[l] = stack[m]
    BY <1>1, <2>1 DEF Below
  <2> QED BY <1>1, <2>1, <2>2 DEF Below, Is
<1> QED BY <1>1, <1>3, <1>4 DEF Aimed, Spared

\* The child of no entry that kill_child aims at is replaced meanwhile: its entry changes
\* only when restart_child, of which there is one, has waited for it.
LEMMA StoredSpares ==
  ASSUME PInv, KInv, server = "up", Plain, ~raced,
         me.fn \in {"main", "restart"}, me.pc \in {"fork", "store"},
         NEW x, proc_tab' = [proc_tab EXCEPT ![me.i] = x], UNCHANGED status,
         NEW n \in Depth, Aiming(stack[n])
  PROVE  Spared(n)
<1>1. me = stack[1] /\ 1 \in Depth /\ StackInv /\ TableInv
  BY UpStack DEF PInv
<1>2. Aimed(n) /\ Shaped(stack[n])
  BY <1>1 DEF KInv, StackInv
<1>3. Is(n, "kill") /\ stack[n].i \in Slot /\ n # 1
  BY <1>1, <1>2 DEF Shaped, Is, Aiming
<1>4. me.fn = "restart"
  BY <1>1, <1>3, MainAlone
<1>5. ASSUME stack[n].pc = "load" PROVE stack[n].i # me.i
  <2> SUFFICES ASSUME stack[n].i = me.i PROVE FALSE
    OBVIOUS
  <2>1. status[proc_tab[me.i]] = "gone"
    BY <1>1, <1>4 DEF TableInv, Is
  <2>2. status[stack[n].pid] = "gone"
    BY <1>2, <1>5, <2>1 DEF Aimed
  <2>3. PICK m \in Depth : Below(m, n)
    BY <1>2, <2>2 DEF Aimed
  <2>4. m = 1
    BY <1>1, <1>4, <2>3 DEF StackInv, Below, Is, Plain
  <2> QED BY <2>3, <2>4, UpStack DEF Below, Depth
<1>6. stack[n].pc = "load" => proc_tab'[stack[n].i] = proc_tab[stack[n].i]
  <2>1. proc_tab \in [Slot -> Pid \union {0, -1}]
    BY DEF PInv, TypeOK
  <2> QED BY <1>3, <1>5, <2>1
<1> QED BY <1>6 DEF Spared

LEMMA ChildK ==
  ASSUME PInv, KInv, NEW p \in Pid,
         \/ ChildDie(p) \/ ChildStop(p) \/ start_child(p) \/ ChildTerm(p) \/ TermChild(p)
  PROVE  KInv'
<1>1. UNCHANGED <<server, stack, proc_tab, flags, raced>>
  BY DEF ChildDie, ChildStop, start_child, ChildTerm, TermChild, Dies, hist, sig
<1>2. server = "up" /\ Plain => \A q : status'[q] = "gone" => status[q] = "gone"
  <2> SUFFICES ASSUME server = "up", Plain, NEW q, status'[q] = "gone" PROVE status[q] = "gone"
    OBVIOUS
  <2>1. CASE \E ch : Dies(p, ch)
    <3>1. status' = [status EXCEPT ![p] = "zombie"]
      BY <2>1 DEF Dies, Plain
    <3>2. status \in [Pid -> {"unused", "running", "zombie", "gone"}]
      BY DEF PInv, TypeOK
    <3> QED BY <3>1, <3>2
  <2>2. CASE UNCHANGED status
    BY <2>2
  <2> QED BY <2>1, <2>2 DEF ChildDie, ChildStop, start_child, ChildTerm, TermChild
<1>3. CASE server = "up"
  BY <1>1, <1>2, <1>3, AimKept DEF Moves, Spared
<1>4. CASE server # "up"
  BY <1>1, <1>4 DEF KInv
<1> QED BY <1>3, <1>4

LEMMA KillK == ASSUME PInv, KInv, KillTest \/ KillLoad \/ KillSend PROVE KInv'
<1>1. /\ server = "up" /\ me.fn = "kill"
      /\ UNCHANGED <<server, proc_tab, flags, status>>
  BY DEF KillTest, KillLoad, KillSend, At, me, sig
<1>2. me = stack[1] /\ 1 \in Depth /\ Depth \subseteq Int /\ StackInv
  BY <1>1, UpStack DEF PInv, Depth
<1>3. \A n \in Depth : n # 1 => ~Aiming(stack[n])
  BY <1>1, <1>2 DEF StackInv, Shaped, Aiming, Is
<1>4. CASE KillSend
  <2>1. UNCHANGED raced
    BY <1>4 DEF KillSend, hist
  <2>2. Moves
    BY <1>4, KillSendMoves DEF Moves, Aiming
  <2> QED BY <1>1, <2>1, <2>2, AimKept DEF Spared
<1>6. ASSUME NEW f \in Frame, Replaced(f), Plain' => (Aiming(f) => raced' \/ Aimed(1)')
      PROVE  KInv'
  <2>1. /\ Depth' = Depth /\ stack'[1] = f
        /\ \A m \in Depth : m # 1 => stack'[m] = stack[m]
    BY <1>1, <1>6, ReplacedFrames
  <2> QED BY <1>3, <1>6, <2>1 DEF KInv
<1>7. CASE KillTest
  <2>1. PICK f \in Frame : /\ Replaced(f) /\ f.fn = "kill" /\ Shaped(f)
                           /\ \/ f.pc = "kill"
                              \/ f.pc = "load" /\ f.pid \in Pid /\ f.pid = proc_tab[f.i]
    BY <1>7, KillTestMoves
  <2>2. ASSUME Plain', Aiming(f) PROVE Aimed(1)'
    <3>1. /\ Depth' = Depth /\ stack'[1] = f
          /\ \A m \in Depth : m # 1 => stack'[m] = stack[m]
      BY <1>1, <2>1, ReplacedFrames
    <3>2. f.i \in Slot /\ f.pid \in Pid /\ f.pid = proc_tab[f.i] /\ TableInv
      BY <1>1, <2>1, <2>2 DEF Aiming, Shaped, PInv, Plain
    <3>3. ASSUME status[f.pid] = "gone" PROVE \E m \in Depth' : Below(m, 1)'
      <4>1. PICK m \in Depth : Replacing(m, f.i)
        BY <3>2, <3>3 DEF TableInv
      <4>2. m # 1 /\ m > 1
        BY <1>1, <1>2, <4>1 DEF Replacing, Is, Depth
      <4> QED BY <3>1, <3>2, <4>1, <4>2 DEF Below, Replacing, Is
    <3> QED BY <1>1, <3>1, <3>2, <3>3 DEF Aimed
  <2> QED BY <1>6, <2>1, <2>2
<1>8. CASE KillLoad
  <2>1. PICK f \in Frame : /\ Replaced(f) /\ f.fn = "kill" /\ Shaped(f) /\ f.pc = "send" /\ f.i = me.i
                           /\ f.pid \in {me.pid, proc_tab[me.i]}
    BY <1>8, KillLoadMoves
  <2>2. me.pc = "load" /\ raced' = raced
    BY <1>8 DEF KillLoad, At, me, hist
  <2>3. ASSUME Plain', ~raced' PROVE Aimed(1)'
    <3>1. /\ Depth' = Depth /\ stack'[1] = f
          /\ \A m \in Depth : m # 1 => stack'[m] = stack[m]
      BY <1>1, <2>1, ReplacedFrames
    <3>2. Aimed(1)
      BY <1>1, <1>2, <2>2, <2>3 DEF KInv, Aiming, Plain
    <3>3. f.pid = me.pid /\ f.pid \in Pid
      BY <1>2, <2>1, <2>2, <3>2 DEF Aimed
    <3>4. ASSUME status[f.pid] = "gone" PROVE \E m \in Depth' : Below(m, 1)'
      <4>1. PICK m \in Depth : Below(m, 1)
        BY <1>2, <3>2, <3>3, <3>4 DEF Aimed
      <4>2. m # 1
        BY <4>1 DEF Below
      <4> QED BY <1>2, <2>1, <3>1, <3>3, <4>1, <4>2 DEF Below, Is
    <3> QED BY <1>1, <2>1, <3>1, <3>3, <3>4 DEF Aimed
  <2> QED BY <1>6, <2>1, <2>3
<1> QED BY <1>4, <1>7, <1>8

LEMMA ServerK ==
  ASSUME PInv, KInv,
         \/ Fork \/ ForkFail \/ Store \/ set_signalset \/ DeliverTerm \/ KillExit
         \/ DeliverChld \/ WaitPid \/ WaitPidNone \/ Find
  PROVE  KInv'
<1>1. server = "up" /\ UNCHANGED flags
  BY DEF Fork, ForkFail, Store, set_signalset, DeliverTerm, KillExit, DeliverChld, WaitPid,
         WaitPidNone, Find, At, sig
<1>2. me = stack[1] /\ 1 \in Depth /\ me \in Frame /\ Shaped(me) /\ TypeOK /\ DOMAIN stack = Depth
  BY <1>1, UpStack DEF PInv
<1>3. CASE Fork
  <2>1. PICK p \in Pid : status' = [status EXCEPT ![p] = "running"] /\ Goto("store", me.i, p)
    BY <1>3 DEF Fork
  <2>2. \E f \in Frame : Replaced(f) /\ f.pc = "store"
    BY <1>1, <1>2, <2>1, GotoMoves DEF PC, Frame
  <2>3. Moves
    BY <2>2 DEF Moves, Aiming
  <2>4. \A q : status'[q] = "gone" => status[q] = "gone"
    BY <1>2, <2>1 DEF TypeOK
  <2> QED BY <1>1, <1>3, <2>3, <2>4, AimKept DEF Spared, Fork, hist
<1>4. CASE ForkFail \/ Store
  <2>1. /\ me.fn \in {"main", "restart"} /\ me.pc \in {"fork", "store"} /\ Stored
        /\ \E x : proc_tab' = [proc_tab EXCEPT ![me.i] = x]
        /\ UNCHANGED <<status, raced>>
    BY <1>4 DEF ForkFail, Store, At, me, hist
  <2>2. Moves
    <3>1. CASE me.fn = "restart"
      BY <1>1, <2>1, <3>1, ReturnMoves DEF Stored, Moves
    <3>2. CASE me.fn = "main"
      <4> DEFINE pc == IF me.i + 1 < MAX_POOL THEN "fork" ELSE "setterm"
      <4>1. Goto(pc, me.i + 1, 0) /\ pc \in PC /\ pc \notin {"load", "send"}
        BY <2>1, <3>2 DEF Stored, PC
      <4>2. me.i + 1 \in 0 .. MAX_POOL
        BY <1>2, <2>1 DEF Shaped, Slot
      <4> HIDE DEF pc
      <4>3. \E f \in Frame : Replaced(f) /\ f.pc = pc
        BY <1>1, <4>1, <4>2, GotoMoves
      <4> QED BY <4>1, <4>3 DEF Moves, Aiming
    <3> QED BY <2>1, <3>1, <3>2
  <2>3. \A n \in Depth : Plain /\ ~raced /\ Aiming(stack[n]) => Spared(n)
    BY <1>1, <2>1, StoredSpares
  <2> QED BY <1>1, <2>1, <2>2, <2>3, AimKept
<1>5. CASE set_signalset
  <2>1. me.i \in 0 .. MAX_POOL
    BY <1>2 DEF Frame
  <2>2. \E f \in Frame : Replaced(f) /\ f.pc \in {"setchld", "pause"}
    BY <1>1, <1>5, <2>1, GotoMoves DEF set_signalset, PC
  <2>3. Moves
    BY <2>2 DEF Moves, Aiming
  <2> QED BY <1>1, <1>5, <2>3, AimKept DEF Spared, set_signalset, hist
<1>6. CASE DeliverTerm \/ KillExit
  <2>1. CASE \E how \in {"killed", "exited"} : Ends(how)
    BY <2>1 DEF Ends, KInv
  <2>2. CASE /\ stack' = <<[fn |-> "kill", pc |-> "kill", i |-> 0, pid |-> 0]>> \o stack
             /\ UNCHANGED <<status, proc_tab, raced>>
    <3> DEFINE f == [fn |-> "kill", pc |-> "kill", i |-> 0, pid |-> 0]
    <3>1. f \in Frame /\ ~Aiming(f)
      BY DEF Frame, Aiming
    <3>2. stack' = <<f>> \o stack
      BY <2>2
    <3> HIDE DEF f
    <3>3. Moves
      BY <1>1, <3>1, <3>2, SignalMoves DEF Moves
    <3> QED BY <1>1, <2>2, <3>3, AimKept DEF Spared
  <2> QED BY <1>6, <2>1, <2>2 DEF DeliverTerm, KillExit, hist
<1>7. CASE DeliverChld
  <2> DEFINE f == [fn |-> "restart", pc |-> "wait", i |-> 0, pid |-> 0]
  <2>1. f \in Frame /\ ~Aiming(f)
    BY DEF Frame, Aiming
  <2>2. stack' = <<f>> \o stack
    BY <1>7 DEF DeliverChld
  <2> HIDE DEF f
  <2>3. Moves
    BY <1>1, <2>1, <2>2, SignalMoves DEF Moves
  <2> QED BY <1>1, <1>7, <2>3, AimKept DEF Spared, DeliverChld, hist
<1>8. CASE WaitPid
  <2>1. PICK p \in Pid :
          /\ status' = [status EXCEPT ![p] = "gone"] /\ Goto("find", 0, p)
          /\ raced' = (raced \/ \E n \in DOMAIN stack : stack[n].pc \in {"load", "send"}
                                                         /\ stack[n].pid = p)
    BY <1>8 DEF WaitPid
  <2>2. \E f \in Frame : Replaced(f) /\ f.pc = "find"
    BY <1>1, <2>1, GotoMoves DEF PC
  <2>3. Moves
    BY <2>2 DEF Moves, Aiming
  <2>4. ASSUME NEW n \in Depth, Aiming(stack[n]) PROVE Spared(n)
    <3>1. stack[n].pid = p => raced'
      BY <1>2, <2>1, <2>4 DEF Aiming
    <3>2. stack[n].pid # p => status'[stack[n].pid] = status[stack[n].pid]
      BY <1>2, <2>1 DEF TypeOK
    <3>3. proc_tab' = proc_tab
      BY <1>8 DEF WaitPid
    <3> QED BY <3>1, <3>2, <3>3 DEF Spared
  <2> QED BY <1>1, <2>1, <2>3, <2>4, AimKept
<1>9. CASE WaitPidNone
  <2>1. Moves
    BY <1>1, <1>9, ReturnMoves DEF Moves, WaitPidNone
  <2> QED BY <1>1, <1>9, <2>1, AimKept DEF Spared, WaitPidNone, hist
<1>10. CASE Find
  <2>1. Moves
    <3>1. CASE Return
      BY <1>1, <3>1, ReturnMoves DEF Moves
    <3>2. ASSUME NEW k \in Slot, Goto("fork", k, 0) PROVE Moves
      <4>1. \E f \in Frame : Replaced(f) /\ f.pc = "fork"
        BY <1>1, <3>2, GotoMoves DEF PC, Slot
      <4> QED BY <4>1 DEF Moves, Aiming
    <3> QED BY <1>10, <3>1, <3>2 DEF Find
  <2> QED BY <1>1, <1>10, <2>1, AimKept DEF Spared, Find, hist
<1> QED BY <1>3, <1>4, <1>5, <1>6, <1>7, <1>8, <1>9, <1>10

LEMMA StepK == PInv /\ KInv /\ [Next]_vars => KInv'
<1> SUFFICES ASSUME PInv, KInv, [Next]_vars PROVE KInv'
  OBVIOUS
<1>1. CASE UNCHANGED vars \/ TermServer
  <2>1. UNCHANGED <<server, stack, proc_tab, flags, status, raced>>
    BY <1>1 DEF vars, TermServer, sig, hist
  <2> QED BY <2>1 DEF KInv, Plain, Depth, Aimed, Below, Is, Aiming
<1>2. CASE Server
  BY <1>2, KillK, ServerK DEF Server
<1>3. CASE \E p \in Pid : \/ ChildDie(p) \/ ChildStop(p) \/ start_child(p)
                          \/ ChildTerm(p) \/ TermChild(p)
  BY <1>3, ChildK
<1> QED BY <1>1, <1>2, <1>3 DEF Next

\* kill_child signals a child that has not been waited for, whatever interrupts it, but for
\* the two windows: SIGCHLD between its test of the entry and kill had that child waited for,
\* or it interrupted restart_child itself, which SIGTERM in the mask rules out.
THEOREM KillCorrect == Spec => []KillHitsChild
<1>1. Init => KInv
  <2> SUFFICES ASSUME Init PROVE KInv
    OBVIOUS
  <2>1. \A n \in Depth : stack[n].pc = "fork"
    BY DEF Init, Depth
  <2> QED BY <2>1 DEF KInv, Aiming
<1>2. Spec => []KInv
  BY <1>1, StepK, PAlways, PTL DEF Spec
<1> QED BY <1>2, PAlways, KInvSuffices, PTL
=============================================================================
