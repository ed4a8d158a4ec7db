--------------------------- MODULE Samples_proofs ---------------------------
(***************************************************************************)
(* Proofs about the sample programs, the smaller programs of the           *)
(* repository.                                                             *)
(***************************************************************************)
EXTENDS ThreadSamples, Signals, EchoPool, Triggers, AioCopy, FiniteSetTheorems,
        SequenceTheorems, WellFoundedInduction, TLAPS

(***************************************************************************)
(* Threads: who has which lock, and what main waits for.                   *)
(***************************************************************************)

ThreadPlaces == {"none", "start", "again", "sleep", "in", "set", "out", "wait", "done", "gone"}
Keyless      == {"shmget", "exist", "failed"}
Early        == Keyless \union {"shmat", "clear", "init"}
MainPlaces   == Early \union {"create", "join", "destroy", "returned"}
Section      == {"in", "set", "out"}

LockOf == [kind : {"zero", "normal", "recursive", "errorcheck", "destroyed"},
           owner : Thread \union {Nobody}, count : Nat, readers : SUBSET Thread]

ThrTypes ==
  /\ prog \in Programs
  /\ tmain \in [Process -> MainPlaces] /\ tnext \in [Process -> Idx]
  /\ tpc \in [Thread -> ThreadPlaces]
  /\ tseg \in [Process -> Segs \union {0}] /\ keyed \in {0, 1, 2}
  /\ lk \in [Segs -> LockOf]
  /\ i_data \in [Segs -> Nat] /\ tmp \in [Thread -> Nat]

\* Only the shared mutex has two processes and segments; the others live on the heap of one.
OneProcess ==
  IF prog = "shared"
  THEN /\ \A p \in Process : tseg[p] # Heap
       /\ \A p \in Process : tmain[p] \in Keyless <=> tseg[p] = 0
  ELSE /\ tmain[1] \in {"create", "join", "destroy", "returned"} /\ tmain[2] = "returned"
       /\ \A i \in Idx : tpc[<<2, i>>] = "none"
       /\ tseg = [p \in Process |-> Heap] /\ cleared = {}

\* What main has done with its threads.
Joining ==
  /\ \A p \in Process : tmain[p] \in Early =>
       \A i \in Idx : tpc[<<p, i>>] = "none"
  /\ \A p \in Process : tmain[p] = "create" =>
       \A i \in tnext[p] .. MAX_THREAD - 1 : tpc[<<p, i>>] = "none"
  /\ \A p \in Process : tmain[p] = "join" => \A i \in 0 .. tnext[p] - 1 : tpc[<<p, i>>] = "done"
  /\ \A p \in Process : tmain[p] = "destroy" => \A i \in Idx : tpc[<<p, i>>] = "done"
  /\ \A p \in Process, i, j \in Idx :
       tpc[<<p, i>>] = "gone" => tmain[p] = "returned" /\ tpc[<<p, j>>] = "gone"

\* Where the threads of a program can be.
Walks ==
  \A t \in Thread :
    /\ tpc[t] \in Section => prog \notin {"rand", "barrier"}
    /\ tpc[t] = "again" => prog \in Doubled
    /\ tpc[t] = "sleep" => prog = "trylock"
    /\ tpc[t] = "wait" => prog = "barrier"

\* Whoever is in a section has the lock of it, for itself or among readers; no lock has both
\* an owner and readers.
Owning ==
  /\ \A s \in Segs : lk[s].owner # Nobody => lk[s].readers = {}
  /\ \A s \in Segs : \A u \in lk[s].readers : prog = "barrier" \/ TakesRead(u)
  /\ \A t \in Thread : tpc[t] \in Section \union {"again"} /\ tseg[t[1]] \notin cleared =>
       IF TakesRead(t) THEN t \in Of(t).readers ELSE Of(t).owner = t

\* What a thread has read, or written, in its section.
Reading ==
  \A t \in Thread : tpc[t] \in {"set", "out"} /\ tseg[t[1]] \notin cleared =>
    i_data[tseg[t[1]]] = tmp[t]

\* The types of the mutexes that are locked twice, and how often a recursive one still is.
Doubling ==
  /\ prog \in {"normal", "attr_twice"} =>
       /\ lk[Heap].kind = "normal"
       /\ \A t \in Thread : tpc[t] \notin Section \union {"done"}
  /\ prog = "recursive" =>
       /\ lk[Heap].kind = "recursive"
       /\ \A t \in Thread : /\ tpc[t] \in Section \union {"done", "again"} => lk[Heap].owner = t
                            /\ tpc[t] \in Section => lk[Heap].count >= 2
                            /\ tpc[t] \in {"done", "again"} => lk[Heap].count >= 1

\* Who has come to the barrier; it has opened when all have.
Gathering ==
  prog = "barrier" =>
    /\ \A t \in lk[Heap].readers : t[1] = 1 /\ tpc[t] \in {"wait", "done", "gone"}
    /\ lk[Heap].owner = Nobody
    /\ BarrierTogether

\* What is destroyed has been joined for.
Destroyed ==
  \A s \in Segs : lk[s].kind = "destroyed" =>
    /\ s = Heap /\ prog \in {"spin", "rwlock", "barrier"} /\ tmain[1] = "returned"
    /\ \A i \in Idx : tpc[<<1, i>>] = "done"

ThrInv == ThrTypes /\ OneProcess /\ Joining /\ Walks /\ Owning /\ Reading /\ Doubling
          /\ Gathering /\ Destroyed

LEMMA ThreadNumbers ==
  /\ MAX_THREAD \in Nat \ {0} /\ Idx \subseteq Nat /\ 0 \in Idx
  /\ IsFiniteSet(Idx) /\ Cardinality(Idx) = MAX_THREAD
  /\ Nobody \notin Thread
  /\ \A t \in Thread : t[1] \in Process /\ t[2] \in Idx /\ t = <<t[1], t[2]>>
  /\ \A q \in Process, i \in Idx : <<q, i>> \in Thread /\ <<q, i>>[1] = q /\ <<q, i>>[2] = i
<1>1. MAX_THREAD \in Nat \ {0}
  BY ThreadAssumption DEF MAX_THREAD
<1>2. Idx \subseteq Nat /\ 0 \in Idx
  BY <1>1 DEF Idx
<1>3. IsFiniteSet(Idx) /\ Cardinality(Idx) = MAX_THREAD
  <2>1. 0 \in Int /\ MAX_THREAD - 1 \in Int
    BY <1>1
  <2>2. IsFiniteSet(0 .. MAX_THREAD - 1) /\ Cardinality(0 .. MAX_THREAD - 1) =
          IF 0 > MAX_THREAD - 1 THEN 0 ELSE (MAX_THREAD - 1) - 0 + 1
    BY <2>1, FS_Interval
  <2> QED BY <1>1, <2>2 DEF Idx
<1>4. Nobody \notin Thread
  BY DEF Nobody, Thread, Process
<1>5. /\ \A t \in Thread : t[1] \in Process /\ t[2] \in Idx /\ t = <<t[1], t[2]>>
      /\ \A q \in Process, i \in Idx : <<q, i>> \in Thread /\ <<q, i>>[1] = q /\ <<q, i>>[2] = i
  BY DEF Thread
<1> QED BY <1>1, <1>2, <1>3, <1>4, <1>5

LEMMA SameProgram ==
  ASSUME prog' = prog
  PROVE  /\ MAX_THREAD' = MAX_THREAD /\ Idx' = Idx /\ Thread' = Thread
         /\ \A t : TakesRead(t)' <=> TakesRead(t)
<1>1. MAX_THREAD' = MAX_THREAD
  BY DEF MAX_THREAD
<1>2. Idx' = Idx
  BY <1>1 DEF Idx
<1>3. Thread' = Thread
  BY <1>2 DEF Thread
<1> QED BY <1>1, <1>2, <1>3 DEF TakesRead

\* A thread that moves has a lock, and leaves main and the other threads where they were.
LEMMA ThreadMoves ==
  ASSUME ThrInv, NEW t \in Thread, tpc[t] \notin {"none", "done", "gone"},
         NEW w \in ThreadPlaces \ {"none", "gone"}, tpc' = [tpc EXCEPT ![t] = w],
         UNCHANGED <<prog, tmain, tnext, tseg, keyed, cleared>>,
         lk' \in [Segs -> LockOf], \A s \in Segs : lk'[s].kind = lk[s].kind,
         i_data' \in [Segs -> Nat], tmp' \in [Thread -> Nat]
  PROVE  ThrTypes' /\ OneProcess' /\ Joining' /\ Destroyed'
<1> USE DEF ThrInv
<1>0. Idx' = Idx /\ Thread' = Thread
  BY SameProgram
<1>1. /\ tpc' \in [Thread -> ThreadPlaces] /\ tpc'[t] = w
      /\ \A u \in Thread \ {t} : tpc'[u] = tpc[u]
  BY DEF ThrTypes
<1>2. ThrTypes'
  BY <1>0, <1>1 DEF ThrTypes, LockOf
<1>3. OneProcess'
  <2>1. prog # "shared" => t[1] # 2
    <3>1. t[1] = 2 => <<2, t[2]>> = t /\ t[2] \in Idx
      BY ThreadNumbers
    <3> QED BY <3>1 DEF OneProcess
  <2>2. prog # "shared" => \A i \in Idx : <<2, i>> # t
    BY <2>1
  <2> QED BY <1>0, <1>1, <2>2, ThreadNumbers DEF OneProcess, Process
<1>4. Joining'
  <2>0. /\ \A q \in Process : tnext[q] \in Nat /\ tnext[q] <= MAX_THREAD - 1
        /\ MAX_THREAD \in Nat /\ MAX_THREAD' = MAX_THREAD
    BY SameProgram, ThreadNumbers DEF ThrTypes, Idx
  <2>1. ASSUME NEW q \in Process, NEW i \in Idx, tpc[<<q, i>>] \in {"none", "done", "gone"}
        PROVE  tpc'[<<q, i>>] = tpc[<<q, i>>]
    <3>1. <<q, i>> \in Thread \ {t}
      BY <2>1, ThreadNumbers
    <3> QED BY <1>1, <3>1
  <2>2. ASSUME NEW q \in Process, tmain[q] \in Early, NEW i \in Idx
        PROVE  tpc'[<<q, i>>] = "none"
    BY <2>1, <2>2 DEF Joining
  <2>3. ASSUME NEW q \in Process, tmain[q] = "create", NEW i \in tnext[q] .. MAX_THREAD - 1
        PROVE  tpc'[<<q, i>>] = "none"
    <3>1. i \in Idx
      BY <2>0 DEF Idx
    <3> QED BY <2>1, <2>3, <3>1 DEF Joining
  <2>4. ASSUME NEW q \in Process, tmain[q] = "join", NEW i \in 0 .. tnext[q] - 1
        PROVE  tpc'[<<q, i>>] = "done"
    <3>1. i \in Idx
      BY <2>0 DEF Idx
    <3> QED BY <2>1, <2>4, <3>1 DEF Joining
  <2>5. ASSUME NEW q \in Process, tmain[q] = "destroy", NEW i \in Idx
        PROVE  tpc'[<<q, i>>] = "done"
    BY <2>1, <2>5 DEF Joining
  <2>6. ASSUME NEW q \in Process, NEW i \in Idx, NEW j \in Idx, tpc'[<<q, i>>] = "gone"
        PROVE  tmain[q] = "returned" /\ tpc'[<<q, j>>] = "gone"
    <3>1. tpc[<<q, i>>] = "gone"
      BY <1>1, <2>6, ThreadNumbers
    <3>2. tmain[q] = "returned" /\ tpc[<<q, j>>] = "gone"
      BY <3>1 DEF Joining
    <3> QED BY <2>1, <3>2
  <2> HIDE DEF ThrInv
  <2> QED BY <1>0, <2>0, <2>2, <2>3, <2>4, <2>5, <2>6 DEF Joining
<1>5. Destroyed'
  <2>1. SUFFICES ASSUME NEW s \in Segs, lk[s].kind = "destroyed", NEW i \in Idx
                 PROVE  tpc'[<<1, i>>] = "done"
    BY <1>0 DEF Destroyed
  <2>2. tpc[<<1, i>>] = "done" /\ <<1, i>> \in Thread
    BY <2>1, ThreadNumbers DEF Destroyed, Process
  <2> QED BY <1>1, <2>2
<1> QED BY <1>2, <1>3, <1>4, <1>5

LEMMA HasLock ==
  ASSUME ThrInv, NEW t \in Thread, tpc[t] # "none"
  PROVE  /\ tseg[t[1]] \in Segs /\ (prog # "shared" => tseg[t[1]] = Heap)
         /\ lk[tseg[t[1]]] \in LockOf /\ t[1] \in Process
<1>1. t[1] \in Process /\ t[2] \in Idx /\ t = <<t[1], t[2]>>
  BY ThreadNumbers
<1>2. tmain[t[1]] \notin Keyless
  BY <1>1 DEF ThrInv, Joining, Early
<1>3. tseg[t[1]] \in Segs \union {0} /\ tseg[t[1]] # 0 /\ (prog # "shared" => tseg[t[1]] = Heap)
  BY <1>1, <1>2 DEF ThrInv, ThrTypes, OneProcess, Heap
<1> QED BY <1>1, <1>3 DEF ThrInv, ThrTypes, LockOf, Segs, Heap

\* The threads that are not t, in a segment or another.
LEMMA OthersStay ==
  ASSUME ThrInv, NEW t \in Thread, NEW w \in ThreadPlaces, tpc' = [tpc EXCEPT ![t] = w]
  PROVE  tpc'[t] = w /\ \A u \in Thread : u # t => tpc'[u] = tpc[u]
BY DEF ThrInv, ThrTypes

LEMMA LockSet ==
  ASSUME ThrInv, NEW s \in Segs, NEW l \in LockOf, lk' = [lk EXCEPT ![s] = l]
  PROVE  /\ lk' \in [Segs -> LockOf] /\ lk'[s] = l /\ \A r \in Segs : r # s => lk'[r] = lk[r]
         /\ \A r \in Segs : lk[r] \in LockOf
         /\ l.kind = lk[s].kind => \A r \in Segs : lk'[r].kind = lk[r].kind
<1>1. lk \in [Segs -> LockOf]
  BY DEF ThrInv, ThrTypes, LockOf
<1> QED BY <1>1

Has(l, u) == IF TakesRead(u) THEN u \in l.readers ELSE l.owner = u

\* What the others have of the lock l of segment s is left to them when t moves to w.
Leaves(t, w, s, l) ==
  /\ l.owner # Nobody => l.readers = {}
  /\ \A u \in l.readers : prog = "barrier" \/ TakesRead(u)
  /\ w \in Section \union {"again"} /\ s \notin cleared => Has(l, t)
  /\ \A u \in Thread \ {t} : tpc[u] \in Section \union {"again"} /\ tseg[u[1]] = s
                               /\ s \notin cleared => Has(l, u)

\* A thread moves and its lock becomes l.
LEMMA OwningKept ==
  ASSUME ThrInv, NEW t \in Thread, NEW s \in Segs, s = tseg[t[1]],
         NEW w \in ThreadPlaces, tpc' = [tpc EXCEPT ![t] = w],
         NEW l \in LockOf, lk' = [lk EXCEPT ![s] = l], UNCHANGED <<prog, tseg, cleared>>,
         Leaves(t, w, s, l)
  PROVE  Owning'
<1> USE DEF Leaves
<1>0. Thread' = Thread /\ \A u : TakesRead(u)' <=> TakesRead(u)
  BY SameProgram
<1>k. lk'[s] = l /\ \A r \in Segs : r # s => lk'[r] = lk[r]
  BY LockSet
<1>p. tpc'[t] = w /\ \A u \in Thread : u # t => tpc'[u] = tpc[u]
  BY OthersStay
<1>1. \A r \in Segs : lk'[r].owner # Nobody => lk'[r].readers = {}
  BY <1>k DEF ThrInv, Owning
<1>2. \A r \in Segs : \A u \in lk'[r].readers : prog = "barrier" \/ TakesRead(u)
  BY <1>k DEF ThrInv, Owning
<1>3. ASSUME NEW u \in Thread, tpc'[u] \in Section \union {"again"}, tseg[u[1]] \notin cleared
      PROVE  Has(lk'[tseg[u[1]]], u)
  <2>1. CASE u = t
    BY <1>3, <1>k, <1>p, <2>1
  <2>2. CASE u # t /\ tseg[u[1]] = s
    BY <1>3, <1>k, <1>p, <2>2
  <2>3. CASE u # t /\ tseg[u[1]] # s
    <3>1. tpc[u] \in Section \union {"again"} /\ tseg[u[1]] \in Segs
      BY <1>3, <1>p, <2>3, HasLock DEF Section
    <3>2. Has(lk[tseg[u[1]]], u)
      BY <1>3, <3>1 DEF ThrInv, Owning, Of, Has
    <3> QED BY <1>k, <2>3, <3>1, <3>2
  <2> QED BY <2>1, <2>2, <2>3
<1> QED BY <1>0, <1>1, <1>2, <1>3 DEF Owning, Of, Has

\* A thread takes a free lock for itself.
LEMMA Acquire ==
  ASSUME ThrInv, NEW t \in Thread, tpc[t] \in {"start", "again"}, prog \notin {"rand", "barrier"},
         Of(t).owner = Nobody, Of(t).readers = {}, ~TakesRead(t), SetLk(t, Taken(t, Of(t))),
         NEW w \in {"in", "again"}, tpc' = [tpc EXCEPT ![t] = w],
         w = "again" => prog \in Doubled,
         prog \in Doubled /\ tpc[t] = "start" => w = "again",
         UNCHANGED <<prog, mode, tmain, tnext, round, tseg, keyed, i_data, tmp, cleared, quit>>
  PROVE  ThrInv'
<1> USE DEF ThrInv
<1>0. Idx' = Idx /\ Thread' = Thread /\ \A u : TakesRead(u)' <=> TakesRead(u)
  BY SameProgram
<1>s. PICK s \in Segs, o \in LockOf :
        s = tseg[t[1]] /\ o = lk[s] /\ o.owner = Nobody /\ o.readers = {}
          /\ (prog # "shared" => s = Heap)
  BY HasLock DEF Of
<1>n. tpc[t] = "start"
  <2>1. SUFFICES ASSUME tpc[t] = "again" PROVE FALSE
    OBVIOUS
  <2>2. prog \in Doubled /\ prog # "shared"
    BY <2>1 DEF Walks, Doubled
  <2>3. Of(t).owner = t
    BY <2>1, <2>2 DEF Owning, OneProcess
  <2> QED BY <2>3, ThreadNumbers
<1>l. PICK l \in LockOf : l.kind = o.kind /\ l.owner = t /\ l.count = 1 /\ l.readers = {}
                          /\ lk' = [lk EXCEPT ![s] = l]
  BY <1>s DEF SetLk, Taken, Of, LockOf
<1>k. /\ lk' \in [Segs -> LockOf] /\ lk'[s] = l /\ \A r \in Segs : r # s => lk'[r] = lk[r]
      /\ \A r \in Segs : lk'[r].kind = lk[r].kind
  BY <1>l, <1>s, LockSet
<1>p. tpc'[t] = w /\ \A u \in Thread : u # t => tpc'[u] = tpc[u]
  BY OthersStay DEF ThreadPlaces
<1>1. ThrTypes' /\ OneProcess' /\ Joining' /\ Destroyed'
  BY <1>k, <1>n, ThreadMoves DEF ThrTypes, ThreadPlaces
<1>2. Walks'
  BY <1>0, <1>p DEF Walks, Section
<1>3. Owning'
  <2>1. ASSUME NEW u \in Thread \ {t}, tseg[u[1]] = s, s \notin cleared
        PROVE  tpc[u] \notin Section \union {"again"}
    BY <1>s, <2>1, ThreadNumbers DEF Owning, Of
  <2>2. w \in ThreadPlaces /\ Has(l, t)
    BY <1>l DEF ThreadPlaces, Has
  <2> HIDE DEF ThrInv
  <2>3. Leaves(t, w, s, l)
    BY <1>l, <2>1, <2>2 DEF Leaves
  <2> QED BY <1>l, <1>s, <2>2, <2>3, OwningKept
<1>4. Reading'
  BY <1>0, <1>p DEF Reading
<1>5. Doubling'
  <2>1. prog \in {"normal", "attr_twice"} => w = "again"
    BY <1>n DEF Doubled
  <2>2. ASSUME prog = "recursive" PROVE w = "again" /\ s = Heap
    BY <1>n, <1>s, <2>2 DEF Doubled
  <2>3. ASSUME prog = "recursive", NEW u \in Thread, u # t
        PROVE  tpc[u] \notin Section \union {"done", "again"}
    BY <1>s, <2>2, <2>3, ThreadNumbers DEF Doubling
  <2>4. prog \in {"normal", "attr_twice"} =>
         lk'[Heap].kind = "normal" /\ \A u \in Thread : tpc'[u] \notin Section \union {"done"}
    BY <1>k, <1>p, <2>1 DEF Doubling, Section, Segs
  <2>5. ASSUME prog = "recursive" PROVE
         /\ lk'[Heap].kind = "recursive"
         /\ \A u \in Thread : /\ tpc'[u] \in Section \union {"done", "again"} => lk'[Heap].owner = u
                              /\ tpc'[u] \in Section => lk'[Heap].count >= 2
                              /\ tpc'[u] \in {"done", "again"} => lk'[Heap].count >= 1
    BY <1>k, <1>l, <1>p, <2>2, <2>3, <2>5 DEF Doubling, Section, Segs
  <2> QED BY <1>0, <2>4, <2>5 DEF Doubling
<1>6. Gathering'
  BY DEF Gathering
<1> QED BY <1>1, <1>2, <1>3, <1>4, <1>5, <1>6

\* The owner locks once more.
LEMMA ThrRelock ==
  ASSUME ThrInv, NEW t \in Thread, MutexRelock(t)
  PROVE  ThrInv'
<1> USE DEF ThrInv
<1> DEFINE w == AfterLock(t)
<1>a. /\ prog \in Mutexes /\ tpc[t] \in {"start", "again"} /\ Of(t).owner = t
      /\ Of(t).kind \in {"recursive", "errorcheck"} /\ tpc' = [tpc EXCEPT ![t] = w]
      /\ SetLk(t, IF Of(t).kind = "recursive" THEN [Of(t) EXCEPT !.count = @ + 1] ELSE Of(t))
      /\ UNCHANGED <<prog, mode, tmain, tnext, round, tseg, keyed, i_data, tmp, cleared, quit>>
  BY DEF MutexRelock, Go
<1>0. Idx' = Idx /\ Thread' = Thread /\ \A u : TakesRead(u)' <=> TakesRead(u)
  BY <1>a, SameProgram
<1>w. /\ w \in {"in", "again"} /\ (w = "again" => prog \in Doubled)
      /\ prog \in Doubled => w = IF tpc[t] = "start" THEN "again" ELSE "in"
  BY <1>a DEF AfterLock, Twice
<1>r. prog \notin {"rand", "barrier", "rwlock"} /\ \A u : ~TakesRead(u)
  BY <1>a DEF Mutexes, Doubled, TakesRead
<1>s. PICK s \in Segs, o \in LockOf :
        /\ s = tseg[t[1]] /\ o = lk[s] /\ o.owner = t /\ o.readers = {}
        /\ (prog # "shared" => s = Heap)
  BY <1>a, HasLock, ThreadNumbers DEF Of, Owning
<1>l. PICK l \in LockOf : /\ l.kind = o.kind /\ l.owner = t /\ l.readers = {}
                          /\ l.count = (IF o.kind = "recursive" THEN o.count + 1 ELSE o.count)
                          /\ lk' = [lk EXCEPT ![s] = l]
  <2>1. CASE o.kind = "recursive"
    <3>n. PICK n \in Nat : n = o.count + 1
      BY DEF LockOf
    <3>1. PICK l \in LockOf : l = [o EXCEPT !.count = n]
      <4>1. [o EXCEPT !.count = n] \in LockOf
        BY <3>n DEF LockOf
      <4> QED BY <4>1
    <3>2. lk' = [lk EXCEPT ![s] = l]
      BY <1>a, <1>s, <2>1, <3>1, <3>n DEF SetLk, Of
    <3>3. l.kind = o.kind /\ l.owner = t /\ l.readers = {} /\ l.count = o.count + 1
      BY <1>s, <3>1, <3>n DEF LockOf
    <3> QED BY <2>1, <3>2, <3>3
  <2>2. CASE o.kind # "recursive"
    <3>1. lk' = [lk EXCEPT ![s] = o]
      BY <1>a, <1>s, <2>2 DEF SetLk, Of
    <3> QED BY <1>s, <2>2, <3>1
  <2> QED BY <2>1, <2>2
<1>k. /\ lk' \in [Segs -> LockOf] /\ lk'[s] = l /\ \A r \in Segs : r # s => lk'[r] = lk[r]
      /\ \A r \in Segs : lk'[r].kind = lk[r].kind
  BY <1>l, <1>s, LockSet
<1> HIDE DEF w
<1>p. tpc'[t] = w /\ \A u \in Thread : u # t => tpc'[u] = tpc[u]
  BY <1>a, <1>w, OthersStay DEF ThreadPlaces
<1>1. ThrTypes' /\ OneProcess' /\ Joining' /\ Destroyed'
  BY <1>a, <1>k, <1>w, ThreadMoves DEF ThrTypes, ThreadPlaces
<1>2. Walks'
  BY <1>0, <1>a, <1>p, <1>r, <1>w DEF Walks, Section
<1>3. Owning'
  <2>1. ASSUME NEW u \in Thread \ {t}, tseg[u[1]] = s, s \notin cleared
        PROVE  tpc[u] \notin Section \union {"again"}
    BY <1>r, <1>s, <2>1 DEF Owning, Of
  <2>2. w \in ThreadPlaces /\ Has(l, t)
    BY <1>l, <1>r, <1>w DEF ThreadPlaces, Has
  <2> HIDE DEF ThrInv
  <2>3. Leaves(t, w, s, l)
    BY <1>l, <2>1, <2>2 DEF Leaves
  <2> QED BY <1>a, <1>l, <1>s, <2>2, <2>3, OwningKept
<1>4. Reading'
  BY <1>0, <1>a, <1>p, <1>w DEF Reading
<1>5. Doubling'
  <2>1. ASSUME prog \in {"normal", "attr_twice"} PROVE FALSE
    BY <1>a, <1>s, <2>1 DEF Doubling, Of
  <2>2. ASSUME prog = "recursive"
        PROVE  s = Heap /\ o.kind = "recursive" /\ (w = "in" => tpc[t] = "again")
    BY <1>a, <1>s, <1>w, <2>2 DEF Doubling, Doubled
  <2>3. ASSUME prog = "recursive", NEW u \in Thread, u # t
        PROVE  tpc[u] \notin Section \union {"done", "again"}
    BY <1>s, <2>2, <2>3, ThreadNumbers DEF Doubling
  <2>4. ASSUME prog = "recursive" PROVE (w = "in" => l.count >= 2) /\ l.count >= 1
    <3>1. w = "in" => o.count >= 1
      BY <1>s, <2>2, <2>4 DEF Doubling
    <3>2. o.count \in Nat /\ l.count = o.count + 1
      BY <1>l, <2>2, <2>4 DEF LockOf
    <3> QED BY <3>1, <3>2
  <2>5. ASSUME prog = "recursive" PROVE
         /\ lk'[Heap].kind = "recursive"
         /\ \A u \in Thread : /\ tpc'[u] \in Section \union {"done", "again"} => lk'[Heap].owner = u
                              /\ tpc'[u] \in Section => lk'[Heap].count >= 2
                              /\ tpc'[u] \in {"done", "again"} => lk'[Heap].count >= 1
    BY <1>k, <1>l, <1>p, <1>w, <2>2, <2>3, <2>4, <2>5 DEF Section, Segs
  <2> QED BY <1>0, <1>a, <2>1, <2>5 DEF Doubling
<1>6. Gathering'
  BY <1>a, <1>r DEF Gathering
<1> QED BY <1>1, <1>2, <1>3, <1>4, <1>5, <1>6

\* A reader of the rwlock joins those who have it.
LEMMA ThrReadLock ==
  ASSUME ThrInv, NEW t \in Thread, RwLock(t), TakesRead(t)
  PROVE  ThrInv'
<1> USE DEF ThrInv
<1>a. /\ prog = "rwlock" /\ tpc[t] = "start" /\ Of(t).owner = Nobody
      /\ tpc' = [tpc EXCEPT ![t] = "in"] /\ SetLk(t, [Of(t) EXCEPT !.readers = @ \union {t}])
      /\ UNCHANGED <<prog, mode, tmain, tnext, round, tseg, keyed, i_data, tmp, cleared, quit>>
  BY DEF RwLock, Go
<1>0. Idx' = Idx /\ Thread' = Thread /\ \A u : TakesRead(u)' <=> TakesRead(u)
  BY <1>a, SameProgram
<1>s. PICK s \in Segs, o \in LockOf : s = tseg[t[1]] /\ o = lk[s] /\ o.owner = Nobody
  BY <1>a, HasLock DEF Of
<1>l. PICK l \in LockOf : /\ l.kind = o.kind /\ l.owner = Nobody /\ l.readers = o.readers \union {t}
                          /\ lk' = [lk EXCEPT ![s] = l]
  BY <1>a, <1>s DEF SetLk, Of, LockOf
<1>k. /\ lk' \in [Segs -> LockOf] /\ \A r \in Segs : lk'[r].kind = lk[r].kind
  BY <1>l, <1>s, LockSet
<1>p. tpc'[t] = "in" /\ \A u \in Thread : u # t => tpc'[u] = tpc[u]
  BY <1>a, OthersStay DEF ThreadPlaces
<1>1. ThrTypes' /\ OneProcess' /\ Joining' /\ Destroyed'
  BY <1>a, <1>k, ThreadMoves DEF ThrTypes, ThreadPlaces
<1>2. Walks'
  BY <1>0, <1>a, <1>p DEF Walks, Section
<1>3. Owning'
  <2>1. ASSUME NEW u \in Thread \ {t}, tpc[u] \in Section \union {"again"}, tseg[u[1]] = s,
               s \notin cleared
        PROVE  Has(l, u)
    BY <1>l, <1>s, <2>1, ThreadNumbers DEF Owning, Of, Has
  <2>2. Has(l, t) /\ \A u \in l.readers : TakesRead(u)
    BY <1>a, <1>l, <1>s DEF Has, Owning
  <2>3. PICK w \in ThreadPlaces : w = "in"
    BY DEF ThreadPlaces
  <2>4. tpc' = [tpc EXCEPT ![t] = w] /\ l.owner = Nobody /\ UNCHANGED <<prog, tseg, cleared>>
    BY <1>a, <1>l, <2>3
  <2> HIDE DEF ThrInv
  <2>5. Leaves(t, w, s, l)
    BY <2>1, <2>2, <2>4 DEF Leaves
  <2> QED BY <1>l, <1>s, <2>4, <2>5, OwningKept
<1>4. Reading' /\ Doubling' /\ Gathering'
  BY <1>0, <1>a, <1>p DEF Reading, Doubling, Gathering
<1> QED BY <1>1, <1>2, <1>3, <1>4

\* A thread moves outside of the sections and leaves the locks alone.
LEMMA ThrWalk ==
  ASSUME ThrInv, NEW t \in Thread, NEW w \in {"start", "sleep", "done"},
         tpc[t] \notin {"none", "done", "gone"}, tpc' = [tpc EXCEPT ![t] = w],
         prog \notin Mutexes, w = "sleep" => prog = "trylock",
         UNCHANGED <<prog, mode, tmain, tnext, round, tseg, keyed, lk, i_data, tmp, cleared, quit>>
  PROVE  ThrTypes' /\ OneProcess' /\ Joining' /\ Destroyed' /\ Walks' /\ Owning' /\ Reading' /\ Doubling'
<1> USE DEF ThrInv
<1>0. Idx' = Idx /\ Thread' = Thread /\ \A u : TakesRead(u)' <=> TakesRead(u)
  BY SameProgram
<1>p. tpc'[t] = w /\ \A u \in Thread : u # t => tpc'[u] = tpc[u]
  BY OthersStay DEF ThreadPlaces
<1>1. ThrTypes' /\ OneProcess' /\ Joining' /\ Destroyed'
  BY ThreadMoves DEF ThrTypes, ThreadPlaces, LockOf
<1>2. Walks'
  BY <1>0, <1>p DEF Walks, Section
<1>3. Owning'
  BY <1>0, <1>p DEF Owning, Section, Of
<1>4. Reading' /\ Doubling'
  BY <1>0, <1>p DEF Reading, Doubling, Mutexes, Doubled
<1> QED BY <1>1, <1>2, <1>3, <1>4

\* The section reads.
LEMMA ThrRead ==
  ASSUME ThrInv, NEW t \in Thread, Read(t)
  PROVE  ThrInv'
<1> USE DEF ThrInv
<1>a. /\ tpc[t] = "in" /\ tpc' = [tpc EXCEPT ![t] = "set"]
      /\ tmp' = [tmp EXCEPT ![t] = i_data[tseg[t[1]]]]
      /\ UNCHANGED <<prog, mode, tmain, tnext, round, tseg, keyed, lk, i_data, cleared, quit>>
  BY DEF Read, Go
<1>0. Idx' = Idx /\ Thread' = Thread /\ \A u : TakesRead(u)' <=> TakesRead(u)
  BY <1>a, SameProgram
<1>s. tseg[t[1]] \in Segs /\ (prog # "shared" => tseg[t[1]] = Heap)
  BY <1>a, HasLock
<1>p. tpc'[t] = "set" /\ \A u \in Thread : u # t => tpc'[u] = tpc[u]
  BY <1>a, OthersStay DEF ThreadPlaces
<1>m. /\ tmp' \in [Thread -> Nat] /\ tmp'[t] = i_data[tseg[t[1]]]
      /\ \A u \in Thread : u # t => tmp'[u] = tmp[u]
  BY <1>a, <1>s DEF ThrTypes
<1>1. ThrTypes' /\ OneProcess' /\ Joining' /\ Destroyed'
  <2>1. lk' \in [Segs -> LockOf] /\ i_data' \in [Segs -> Nat] /\ "set" \in ThreadPlaces
    BY <1>a DEF ThrTypes, LockOf, ThreadPlaces
  <2> HIDE DEF ThrInv
  <2> QED BY <1>a, <1>m, <2>1, ThreadMoves
<1>2. Walks'
  BY <1>0, <1>a, <1>p DEF Walks, Section
<1>3. Owning'
  BY <1>0, <1>a, <1>p DEF Owning, Section, Of
<1>4. Reading'
  BY <1>0, <1>a, <1>m, <1>p DEF Reading
<1>5. Doubling'
  BY <1>0, <1>a, <1>p DEF Doubling, Section
<1>6. Gathering'
  BY <1>a DEF Gathering, Walks, Section
<1> QED BY <1>1, <1>2, <1>3, <1>4, <1>5, <1>6

\* The section writes; nobody else is in a section of the same data, unless all read.
LEMMA ThrUpdate ==
  ASSUME ThrInv, NEW t \in Thread, Update(t)
  PROVE  ThrInv'
<1> USE DEF ThrInv
<1>v. PICK v \in Values(t) :
        /\ tmp' = [tmp EXCEPT ![t] = v]
        /\ i_data' = IF Writes(t) THEN [i_data EXCEPT ![tseg[t[1]]] = v] ELSE i_data
  BY DEF Update
<1>a. /\ tpc[t] = "set" /\ tpc' = [tpc EXCEPT ![t] = "out"]
      /\ UNCHANGED <<prog, mode, tmain, tnext, round, tseg, keyed, lk, cleared, quit>>
  BY DEF Update, Go
<1>0. Idx' = Idx /\ Thread' = Thread /\ \A u : TakesRead(u)' <=> TakesRead(u)
  BY <1>a, SameProgram
<1>s. PICK s \in Segs : s = tseg[t[1]] /\ (prog # "shared" => s = Heap)
  BY <1>a, HasLock
<1>p. tpc'[t] = "out" /\ \A u \in Thread : u # t => tpc'[u] = tpc[u]
  BY <1>a, OthersStay DEF ThreadPlaces
<1>n. v \in Nat
  <2>1. tmp[t] \in Nat
    BY DEF ThrTypes
  <2>2. CASE prog = "spin"
    BY <1>v, <2>1, <2>2, ThreadAssumption DEF Values
  <2>3. CASE prog = "rwlock"
    BY <1>v, <2>1, <2>3 DEF Values
  <2>4. CASE prog \notin {"spin", "rwlock"}
    <3>1. v = MAX_THREAD * t[1] + t[2]
      BY <1>v, <2>4 DEF Values
    <3>2. t[1] \in {1, 2} /\ t[2] \in Nat /\ MAX_THREAD \in Nat
      BY ThreadNumbers DEF Process
    <3> QED BY <3>1, <3>2
  <2> QED BY <2>2, <2>3, <2>4
<1>m. /\ tmp' \in [Thread -> Nat] /\ tmp'[t] = v /\ \A u \in Thread : u # t => tmp'[u] = tmp[u]
      /\ i_data' \in [Segs -> Nat] /\ \A r \in Segs : r # s => i_data'[r] = i_data[r]
      /\ i_data'[s] = IF Writes(t) THEN v ELSE i_data[s]
  BY <1>n, <1>s, <1>v DEF ThrTypes
<1>1. ThrTypes' /\ OneProcess' /\ Joining' /\ Destroyed'
  <2>1. lk' \in [Segs -> LockOf] /\ "out" \in ThreadPlaces
    BY <1>a DEF ThrTypes, LockOf, ThreadPlaces
  <2> HIDE DEF ThrInv
  <2> QED BY <1>a, <1>m, <2>1, ThreadMoves
<1>2. Walks'
  BY <1>0, <1>a, <1>p DEF Walks, Section
<1>3. Owning'
  BY <1>0, <1>a, <1>p DEF Owning, Section, Of
<1>4. Reading'
  <2>1. Writes(t) <=> ~TakesRead(t)
    BY DEF Writes, TakesRead
  <2>2. ASSUME NEW u \in Thread, tpc'[u] \in {"set", "out"}, tseg[u[1]] \notin cleared
        PROVE  i_data'[tseg[u[1]]] = tmp'[u]
    <3>1. CASE u = t /\ Writes(t)
      BY <1>m, <1>s, <3>1
    <3>2. CASE u = t /\ ~Writes(t)
      <4>1. v = tmp[t]
        BY <1>v, <3>2 DEF Values, Writes
      <4>2. i_data[s] = tmp[t]
        BY <1>a, <1>s, <2>2, <3>2 DEF Reading
      <4> QED BY <1>m, <1>s, <3>2, <4>1, <4>2
    <3>3. CASE u # t
      <4>1. tpc[u] \in {"set", "out"} /\ tseg[u[1]] \in Segs
        BY <1>p, <2>2, <3>3, HasLock
      <4>2. i_data[tseg[u[1]]] = tmp[u]
        BY <2>2, <4>1 DEF Reading
      <4>3. Writes(t) => tseg[u[1]] # s
        <5>1. SUFFICES ASSUME Writes(t), tseg[u[1]] = s PROVE FALSE
          OBVIOUS
        <5>2. lk[s].owner = t /\ lk[s].readers = {}
          BY <1>a, <1>s, <2>1, <2>2, <5>1, ThreadNumbers DEF Owning, Of, Section
        <5>3. IF TakesRead(u) THEN u \in lk[s].readers ELSE lk[s].owner = u
          BY <2>2, <4>1, <5>1 DEF Owning, Of, Section
        <5> QED BY <3>3, <5>2, <5>3
      <4> QED BY <1>m, <3>3, <4>1, <4>2, <4>3
    <3> QED BY <3>1, <3>2, <3>3
  <2> HIDE DEF ThrInv
  <2> QED BY <1>0, <1>a, <2>2 DEF Reading
<1>5. Doubling'
  BY <1>0, <1>a, <1>p DEF Doubling, Section
<1>6. Gathering'
  BY <1>a DEF Gathering, Walks, Section
<1> QED BY <1>1, <1>2, <1>3, <1>4, <1>5, <1>6

LEMMA ReleasedLock ==
  ASSUME NEW o \in LockOf, NEW t \in Thread
  PROVE  /\ Released(o, t) \in LockOf /\ Released(o, t).kind = o.kind
         /\ t \in o.readers => /\ Released(o, t).readers = o.readers \ {t}
                               /\ Released(o, t).owner = o.owner
         /\ t \notin o.readers => /\ Released(o, t).readers = o.readers
                                  /\ Released(o, t).owner \in {o.owner, Nobody}
         /\ t \notin o.readers /\ o.owner = t /\ o.count >= 2 =>
              Released(o, t).owner = t /\ Released(o, t).count >= 1
<1>1. CASE t \in o.readers
  <2>1. Released(o, t) = [o EXCEPT !.readers = @ \ {t}]
    BY <1>1 DEF Released
  <2> QED BY <1>1, <2>1 DEF LockOf
<1>2. CASE t \notin o.readers /\ o.kind \in {"errorcheck", "recursive"} /\ o.owner # t
  <2>1. Released(o, t) = o
    BY <1>2 DEF Released
  <2> QED BY <1>2, <2>1 DEF LockOf
<1>3. CASE t \notin o.readers /\ ~(o.kind \in {"errorcheck", "recursive"} /\ o.owner # t)
  <2>1. PICK n \in Nat : n = (IF o.count = 0 THEN 0 ELSE o.count - 1)
    BY DEF LockOf
  <2>2. PICK h \in Thread \union {Nobody} : h = (IF o.count > 1 THEN o.owner ELSE Nobody)
    BY DEF LockOf
  <2>3. Released(o, t) = [o EXCEPT !.count = n, !.owner = h]
    BY <1>3, <2>1, <2>2 DEF Released, LockOf
  <2>4. o.count \in Nat
    BY DEF LockOf
  <2>5. o.count >= 2 => n >= 1 /\ h = o.owner
    BY <2>1, <2>2, <2>4
  <2>6. [o EXCEPT !.count = n, !.owner = h] \in LockOf
    BY DEF LockOf
  <2> QED BY <1>3, <2>2, <2>3, <2>5, <2>6 DEF LockOf
<1> QED BY <1>1, <1>2, <1>3

\* The section ends: a reader leaves the readers, an owner the lock.
LEMMA ThrUnlock ==
  ASSUME ThrInv, NEW t \in Thread, Unlock(t)
  PROVE  ThrInv'
<1> USE DEF ThrInv
<1>a. PICK w \in ThreadPlaces :
        /\ w \in {"done", "start"} /\ tpc[t] = "out" /\ tpc' = [tpc EXCEPT ![t] = w] /\ SetLk(t, Released(Of(t), t))
        /\ UNCHANGED <<prog, mode, tmain, tnext, tseg, keyed, i_data, tmp, cleared, quit>>
  BY DEF Unlock, Go, ThreadPlaces
<1>0. Idx' = Idx /\ Thread' = Thread /\ \A u : TakesRead(u)' <=> TakesRead(u)
  BY <1>a, SameProgram
<1>b. prog # "barrier"
  BY <1>a DEF Walks, Section
<1>s. PICK s \in Segs, o \in LockOf : s = tseg[t[1]] /\ o = lk[s] /\ (prog # "shared" => s = Heap)
  BY <1>a, HasLock
<1>h. s \notin cleared => IF TakesRead(t) THEN t \in o.readers ELSE o.owner = t
  BY <1>a, <1>s DEF Owning, Of, Section
<1>e. (o.owner # Nobody => o.readers = {}) /\ \A u \in o.readers : TakesRead(u)
  BY <1>b, <1>s DEF Owning
<1>l. PICK l \in LockOf :
        /\ l.kind = o.kind /\ lk' = [lk EXCEPT ![s] = l]
        /\ t \in o.readers => l.readers = o.readers \ {t} /\ l.owner = o.owner
        /\ t \notin o.readers => l.readers = o.readers /\ l.owner \in {o.owner, Nobody}
        /\ t \notin o.readers /\ o.owner = t /\ o.count >= 2 => l.owner = t /\ l.count >= 1
  <2>1. PICK l \in LockOf : l = Released(o, t)
    BY ReleasedLock
  <2>2. lk' = [lk EXCEPT ![s] = l]
    BY <1>a, <1>s, <2>1 DEF SetLk, Of
  <2> HIDE DEF ThrInv
  <2> QED BY <2>1, <2>2, ReleasedLock
<1>k. /\ lk' \in [Segs -> LockOf] /\ lk'[s] = l /\ \A r \in Segs : lk'[r].kind = lk[r].kind
  BY <1>l, <1>s, LockSet
<1>p. tpc'[t] = w /\ \A u \in Thread : u # t => tpc'[u] = tpc[u]
  BY <1>a, OthersStay DEF ThreadPlaces
<1>1. ThrTypes' /\ OneProcess' /\ Joining' /\ Destroyed'
  <2>1. i_data' \in [Segs -> Nat] /\ tmp' \in [Thread -> Nat] /\ w \in ThreadPlaces \ {"none", "gone"}
    BY <1>a DEF ThrTypes, ThreadPlaces
  <2> HIDE DEF ThrInv
  <2> QED BY <1>a, <1>k, <2>1, ThreadMoves
<1>2. Walks'
  BY <1>0, <1>a, <1>p DEF Walks, Section
<1>3. Owning'
  <2>1. ASSUME NEW u \in Thread \ {t}, tpc[u] \in Section \union {"again"}, tseg[u[1]] = s,
               s \notin cleared
        PROVE  Has(l, u)
    <3>1. IF TakesRead(u) THEN u \in o.readers ELSE o.owner = u
      BY <1>s, <2>1 DEF Owning, Of
    <3>2. CASE TakesRead(u)
      BY <1>l, <3>1, <3>2 DEF Has
    <3>3. CASE ~TakesRead(u)
      <4>1. o.readers = {} /\ o.owner = u
        BY <1>e, <3>1, <3>3, ThreadNumbers
      <4> QED BY <1>h, <2>1, <4>1
    <3> QED BY <3>2, <3>3
  <2>2. (l.owner # Nobody => l.readers = {}) /\ \A u \in l.readers : TakesRead(u)
    BY <1>e, <1>l
  <2>3. w \notin Section \union {"again"}
    BY <1>a DEF Section
  <2>4. /\ tpc' = [tpc EXCEPT ![t] = w] /\ s = tseg[t[1]] /\ lk' = [lk EXCEPT ![s] = l]
        /\ UNCHANGED <<prog, tseg, cleared>>
    BY <1>a, <1>l, <1>s
  <2> HIDE DEF ThrInv
  <2>5. Leaves(t, w, s, l)
    BY <2>1, <2>2, <2>3 DEF Leaves
  <2> QED BY <2>4, <2>5, OwningKept
<1>4. Reading'
  BY <1>0, <1>a, <1>p DEF Reading
<1>5. Doubling'
  <2>1. ASSUME prog \in {"normal", "attr_twice"} PROVE FALSE
    BY <1>a, <2>1 DEF Doubling, Section
  <2>2. ASSUME prog = "recursive"
        PROVE  s = Heap /\ o.kind = "recursive" /\ o.owner = t /\ l.owner = t /\ l.count >= 1
    <3>1. s = Heap /\ o.kind = "recursive" /\ o.owner = t /\ o.count >= 2
      BY <1>a, <1>s, <2>2 DEF Doubling, Section
    <3>2. t \notin o.readers
      BY <1>e, <2>2 DEF TakesRead
    <3> QED BY <1>l, <3>1, <3>2
  <2>3. ASSUME prog = "recursive", NEW u \in Thread, u # t
        PROVE  tpc[u] \notin Section \union {"done", "again"}
    BY <1>s, <2>2, <2>3, ThreadNumbers DEF Doubling
  <2>5. ASSUME prog = "recursive" PROVE
         /\ lk'[Heap].kind = "recursive"
         /\ \A u \in Thread : /\ tpc'[u] \in Section \union {"done", "again"} => lk'[Heap].owner = u
                              /\ tpc'[u] \in Section => lk'[Heap].count >= 2
                              /\ tpc'[u] \in {"done", "again"} => lk'[Heap].count >= 1
    <3>1. w \notin Section
      BY <1>a DEF Section
    <3>2. lk'[Heap].kind = "recursive" /\ lk'[Heap].owner = t /\ lk'[Heap].count >= 1
      BY <1>k, <1>l, <2>2, <2>5
    <3> QED BY <1>p, <2>3, <2>5, <3>1, <3>2
  <2> QED BY <1>0, <1>a, <2>1, <2>5 DEF Doubling
<1>6. Gathering'
  BY <1>a, <1>b DEF Gathering
<1> QED BY <1>1, <1>2, <1>3, <1>4, <1>5, <1>6

\* A thread comes to the barrier.
LEMMA ThrArrive ==
  ASSUME ThrInv, NEW t \in Thread, BarrierArrive(t)
  PROVE  ThrInv'
<1> USE DEF ThrInv
<1>a. /\ prog = "barrier" /\ tpc[t] = "start" /\ tpc' = [tpc EXCEPT ![t] = "wait"]
      /\ SetLk(t, [Of(t) EXCEPT !.readers = @ \union {t}])
      /\ UNCHANGED <<prog, mode, tmain, tnext, round, tseg, keyed, i_data, tmp, cleared, quit>>
  BY DEF BarrierArrive, Go
<1>0. Idx' = Idx /\ Thread' = Thread /\ \A u : TakesRead(u)' <=> TakesRead(u)
  BY <1>a, SameProgram
<1>s. PICK o \in LockOf : tseg[t[1]] = Heap /\ o = lk[Heap] /\ Heap \in Segs
  BY <1>a, HasLock
<1>l. PICK l \in LockOf : /\ l.kind = o.kind /\ l.owner = o.owner /\ l.readers = o.readers \union {t}
                          /\ lk' = [lk EXCEPT ![Heap] = l]
  BY <1>a, <1>s DEF SetLk, Of, LockOf
<1>k. /\ lk' \in [Segs -> LockOf] /\ lk'[Heap] = l /\ \A r \in Segs : lk'[r].kind = lk[r].kind
  BY <1>l, <1>s, LockSet
<1>p. tpc'[t] = "wait" /\ \A u \in Thread : u # t => tpc'[u] = tpc[u]
  BY <1>a, OthersStay DEF ThreadPlaces
<1>1. ThrTypes' /\ OneProcess' /\ Joining' /\ Destroyed'
  <2>1. i_data' \in [Segs -> Nat] /\ tmp' \in [Thread -> Nat] /\ "wait" \in ThreadPlaces
    BY <1>a DEF ThrTypes, ThreadPlaces
  <2> HIDE DEF ThrInv
  <2> QED BY <1>a, <1>k, <2>1, ThreadMoves
<1>2. Walks'
  BY <1>0, <1>a, <1>p DEF Walks, Section
<1>3. Owning'
  <2>1. ASSUME NEW u \in Thread, tpc[u] \in Section \union {"again"} PROVE FALSE
    BY <1>a, <2>1 DEF Walks, Doubled
  <2>2. l.owner = Nobody
    BY <1>a, <1>l, <1>s DEF Gathering
  <2>3. PICK w \in ThreadPlaces : w = "wait" /\ w \notin Section \union {"again"}
    BY DEF ThreadPlaces, Section
  <2>4. tpc' = [tpc EXCEPT ![t] = w] /\ UNCHANGED <<prog, tseg, cleared>> /\ prog = "barrier"
    BY <1>a, <2>3
  <2> HIDE DEF ThrInv
  <2>5. Leaves(t, w, Heap, l)
    BY <2>1, <2>2, <2>3, <2>4 DEF Leaves
  <2> QED BY <1>l, <1>s, <2>4, <2>5, OwningKept
<1>4. Reading' /\ Doubling'
  BY <1>0, <1>a, <1>p DEF Reading, Doubling
<1>6. Gathering'
  <2>1. t[1] = 1
    <3>1. t[1] = 2 => <<2, t[2]>> = t /\ t[2] \in Idx
      BY ThreadNumbers
    <3> QED BY <1>a, <3>1, ThreadNumbers DEF OneProcess, Process
  <2>2. \A u \in l.readers : u[1] = 1 /\ tpc'[u] \in {"wait", "done", "gone"}
    BY <1>a, <1>l, <1>p, <1>s, <2>1 DEF Gathering, LockOf
  <2>3. l.owner = Nobody
    BY <1>a, <1>l, <1>s DEF Gathering
  <2>4. \A u \in Thread : tpc[u] # "done"
    <3>1. SUFFICES ASSUME NEW u \in Thread, tpc[u] = "done" PROVE FALSE
      OBVIOUS
    <3>2. \A i \in Idx : tpc[<<1, i>>] \in {"wait", "done"}
      BY <1>a, <3>1 DEF Gathering, BarrierTogether
    <3> QED BY <1>a, <2>1, <3>2, ThreadNumbers
  <2>5. BarrierTogether'
    BY <1>0, <1>p, <2>4 DEF BarrierTogether
  <2> QED BY <1>a, <1>k, <2>2, <2>3, <2>5 DEF Gathering
<1> QED BY <1>1, <1>2, <1>3, <1>4, <1>6

\* The barrier opens when as many have come as there are threads: all of them.
LEMMA ThrLeave ==
  ASSUME ThrInv, NEW t \in Thread, BarrierLeave(t)
  PROVE  ThrInv'
<1> USE DEF ThrInv
<1>a. /\ tpc[t] = "wait" /\ Cardinality(Of(t).readers) >= BarrierCount
      /\ tpc' = [tpc EXCEPT ![t] = "done"]
      /\ UNCHANGED <<prog, mode, tmain, tnext, round, tseg, keyed, lk, i_data, tmp, cleared, quit>>
  BY DEF BarrierLeave, Go
<1>b. prog = "barrier" /\ prog \notin Mutexes
  BY <1>a DEF Walks, Mutexes, Doubled
<1>0. Idx' = Idx /\ Thread' = Thread
  BY <1>a, SameProgram
<1>1. ThrTypes' /\ OneProcess' /\ Joining' /\ Destroyed' /\ Walks' /\ Owning' /\ Reading' /\ Doubling'
  <2>1. PICK w \in {"start", "sleep", "done"} : w = "done"
    OBVIOUS
  <2> HIDE DEF ThrInv
  <2> QED BY <1>a, <1>b, <2>1, ThrWalk
<1>s. PICK o \in LockOf : tseg[t[1]] = Heap /\ o = lk[Heap] /\ Heap \in Segs
  BY <1>a, <1>b, HasLock
<1>p. tpc'[t] = "done" /\ \A u \in Thread : u # t => tpc'[u] = tpc[u]
  BY <1>a, OthersStay DEF ThreadPlaces
<1>2. {1} \X Idx \subseteq o.readers
  <2>1. PICK P : P = {1} \X Idx
    OBVIOUS
  <2>2. PICK R : R = o.readers
    OBVIOUS
  <2>3. R \subseteq P
    BY <1>b, <1>s, <2>1, <2>2, ThreadNumbers DEF Gathering, LockOf
  <2>4. IsFiniteSet({1}) /\ Cardinality({1}) = 1
    BY FS_Singleton
  <2>5. IsFiniteSet(P) /\ Cardinality(P) = 1 * MAX_THREAD
    BY <2>1, <2>4, ThreadNumbers, FS_Product
  <2>6. Cardinality(P) = MAX_THREAD
    BY <2>5, ThreadNumbers
  <2>7. Cardinality(R) <= Cardinality(P) /\ (Cardinality(P) = Cardinality(R) => P = R) /\ IsFiniteSet(R)
    BY <2>3, <2>5, FS_Subset
  <2>8. Cardinality(R) \in Nat
    BY <2>7, FS_CardinalityType
  <2>9. Cardinality(R) >= MAX_THREAD
    BY <1>a, <1>s, <2>2 DEF Of, BarrierCount
  <2>10. Cardinality(P) = Cardinality(R)
    BY <2>6, <2>7, <2>8, <2>9, ThreadNumbers
  <2> QED BY <2>1, <2>10, <2>2, <2>7
<1>3. \A i \in Idx : tpc[<<1, i>>] \in {"wait", "done"}
  <2>1. \A i \in Idx : tpc[<<1, i>>] \in {"wait", "done", "gone"}
    BY <1>2, <1>b, <1>s DEF Gathering
  <2>2. t[1] \in Process /\ t[2] \in Idx /\ t = <<t[1], t[2]>>
    BY ThreadNumbers
  <2>3. t[1] = 1
    BY <1>a, <1>b, <2>2 DEF OneProcess, Process
  <2>4. \A i \in Idx : tpc[<<1, i>>] # "gone"
    <3>1. PICK j \in Idx : t = <<1, j>>
      BY <2>2, <2>3
    <3> QED BY <1>a, <3>1 DEF Joining, Process
  <2> QED BY <2>1, <2>4
<1>4. Gathering'
  <2>1. \A u \in o.readers : u[1] = 1 /\ tpc'[u] \in {"wait", "done", "gone"}
    BY <1>b, <1>p, <1>s DEF Gathering, LockOf
  <2>2. \A i \in Idx : tpc'[<<1, i>>] \in {"wait", "done"}
    BY <1>3, <1>p, ThreadNumbers DEF Process
  <2>3. BarrierTogether'
    BY <1>0, <2>2 DEF BarrierTogether
  <2> QED BY <1>a, <1>b, <1>s, <2>1, <2>3 DEF Gathering
<1> QED BY <1>1, <1>4

LEMMA ThrThread ==
  ASSUME ThrInv, NEW t \in Thread, ThreadStep(t)
  PROVE  ThrInv'
<1>1. CASE Rand(t)
  <2>1. prog = "rand" /\ prog \notin Mutexes /\ prog \notin {"barrier", "trylock"}
    BY <1>1 DEF Rand, Mutexes, Doubled
  <2>2. PICK w \in {"start", "sleep", "done"} : w = "done"
    OBVIOUS
  <2>3. ThrTypes' /\ OneProcess' /\ Joining' /\ Destroyed' /\ Walks' /\ Owning' /\ Reading' /\ Doubling'
    BY <1>1, <2>1, <2>2, ThrWalk DEF Rand, Go
  <2>4. Gathering'
    BY <1>1, <2>1 DEF Rand, Gathering
  <2> QED BY <2>3, <2>4 DEF ThrInv
<1>2. CASE MutexLock(t)
  <2>1. prog \in Mutexes /\ prog \notin {"rand", "barrier"} /\ \A u : ~TakesRead(u)
    BY <1>2 DEF MutexLock, Mutexes, Doubled, TakesRead
  <2>2. Of(t).readers = {}
    <3>1. tseg[t[1]] \in Segs
      BY <1>2, HasLock DEF MutexLock
    <3> QED BY <2>1, <3>1 DEF ThrInv, Owning, Of
  <2>3. PICK w \in {"in", "again"} : w = AfterLock(t)
    BY DEF AfterLock
  <2>4. /\ w = "again" => prog \in Doubled
        /\ prog \in Doubled /\ tpc[t] = "start" => w = "again"
    BY <2>3 DEF AfterLock, Twice
  <2> QED BY <1>2, <2>1, <2>2, <2>3, <2>4, Acquire DEF MutexLock, Go
<1>3. CASE MutexRelock(t)
  BY <1>3, ThrRelock
<1>4. CASE TryLock(t)
  <2>1. /\ prog = "trylock" /\ prog \notin Mutexes /\ prog \notin Doubled /\ prog # "barrier"
        /\ \A u : ~TakesRead(u)
    BY <1>4 DEF TryLock, Mutexes, Doubled, TakesRead
  <2>2. CASE Of(t).owner = Nobody
    <3>1. Of(t).readers = {}
      <4>1. tseg[t[1]] \in Segs
        BY <1>4, HasLock DEF TryLock
      <4> QED BY <2>1, <4>1 DEF ThrInv, Owning, Of
    <3>2. PICK w \in {"in", "again"} : w = "in"
      OBVIOUS
    <3> QED BY <1>4, <2>1, <2>2, <3>1, <3>2, Acquire DEF TryLock, Go
  <2>3. CASE Of(t).owner # Nobody
    <3>1. PICK w \in {"start", "sleep", "done"} : w = "sleep"
      OBVIOUS
    <3>2. ThrTypes' /\ OneProcess' /\ Joining' /\ Destroyed' /\ Walks' /\ Owning' /\ Reading' /\ Doubling'
      BY <1>4, <2>1, <2>3, <3>1, ThrWalk DEF TryLock, Go
    <3>3. Gathering'
      BY <1>4, <2>1 DEF TryLock, Gathering
    <3> QED BY <3>2, <3>3 DEF ThrInv
  <2> QED BY <2>2, <2>3
<1>5. CASE TrySleep(t)
  <2>1. prog = "trylock" /\ prog \notin Mutexes /\ prog # "barrier"
    BY <1>5 DEF TrySleep, ThrInv, Walks, Mutexes, Doubled
  <2>2. PICK w \in {"start", "sleep", "done"} : w = "start"
    OBVIOUS
  <2>3. ThrTypes' /\ OneProcess' /\ Joining' /\ Destroyed' /\ Walks' /\ Owning' /\ Reading' /\ Doubling'
    BY <1>5, <2>1, <2>2, ThrWalk DEF TrySleep, Go
  <2>4. Gathering'
    BY <1>5, <2>1 DEF TrySleep, Gathering
  <2> QED BY <2>3, <2>4 DEF ThrInv
<1>6. CASE SpinLock(t)
  <2>1. /\ prog = "spin" /\ prog \notin Doubled /\ prog \notin {"rand", "barrier"}
        /\ \A u : ~TakesRead(u)
    BY <1>6 DEF SpinLock, Doubled, TakesRead
  <2>2. Of(t).readers = {}
    <3>1. tseg[t[1]] \in Segs
      BY <1>6, HasLock DEF SpinLock
    <3> QED BY <2>1, <3>1 DEF ThrInv, Owning, Of
  <2>3. PICK w \in {"in", "again"} : w = "in"
    OBVIOUS
  <2> QED BY <1>6, <2>1, <2>2, <2>3, Acquire DEF SpinLock, Go
<1>7. CASE RwLock(t)
  <2>1. CASE TakesRead(t)
    BY <1>7, <2>1, ThrReadLock
  <2>2. CASE ~TakesRead(t)
    <3>1. prog = "rwlock" /\ prog \notin Doubled /\ prog \notin {"rand", "barrier"}
      BY <1>7 DEF RwLock, Doubled
    <3>2. PICK w \in {"in", "again"} : w = "in"
      OBVIOUS
    <3> QED BY <1>7, <2>2, <3>1, <3>2, Acquire DEF RwLock, Go
  <2> QED BY <2>1, <2>2
<1>8. CASE Read(t) \/ Update(t) \/ Unlock(t)
  BY <1>8, ThrRead, ThrUpdate, ThrUnlock
<1>9. CASE BarrierArrive(t) \/ BarrierLeave(t)
  BY <1>9, ThrArrive, ThrLeave
<1> QED BY <1>1, <1>2, <1>3, <1>4, <1>5, <1>6, <1>7, <1>8, <1>9 DEF ThreadStep

\* A main that has not created its threads is one of pthread_mutex.
LEMMA EarlyIsShared ==
  ASSUME ThrInv, NEW q \in Process, tmain[q] \in Early
  PROVE  prog = "shared" /\ \A u \in Thread : u[1] = q => tpc[u] = "none"
<1>1. prog = "shared"
  BY DEF ThrInv, OneProcess, Process, Early, Keyless
<1>2. ASSUME NEW u \in Thread, u[1] = q PROVE tpc[u] = "none"
  <2>1. u[2] \in Idx /\ u = <<q, u[2]>>
    BY <1>2, ThreadNumbers
  <2> QED BY <2>1 DEF ThrInv, Joining
<1> QED BY <1>1, <1>2

\* main goes from one of its first steps to another.
LEMMA MainMoves ==
  ASSUME ThrInv, NEW q \in Process, tmain[q] \in Early,
         NEW a \in Early \union {"create", "returned"}, tmain' = [tmain EXCEPT ![q] = a],
         UNCHANGED <<prog, tnext, tpc>>
  PROVE  Joining' /\ tmain' \in [Process -> MainPlaces] /\ Idx' = Idx /\ Thread' = Thread
<1>0. MAX_THREAD' = MAX_THREAD /\ Idx' = Idx /\ Thread' = Thread
  BY SameProgram
<1>1. tmain'[q] = a /\ \A r \in Process : r # q => tmain'[r] = tmain[r]
  BY DEF ThrInv, ThrTypes
<1>2. \A i \in Idx : tpc[<<q, i>>] = "none"
  BY DEF ThrInv, Joining
<1>3. tnext[q] \in Nat /\ MAX_THREAD \in Nat
  BY ThreadNumbers DEF ThrInv, ThrTypes
<1>4. \A i \in tnext[q] .. MAX_THREAD - 1 : tpc[<<q, i>>] = "none"
  <2>1. \A i \in tnext[q] .. MAX_THREAD - 1 : i \in Idx
    BY <1>3 DEF Idx
  <2> QED BY <1>2, <2>1
<1>5. tmain' \in [Process -> MainPlaces]
  BY DEF ThrInv, ThrTypes, MainPlaces
<1> QED BY <1>0, <1>1, <1>2, <1>4, <1>5 DEF ThrInv, Joining, Early, Keyless

\* The segment is got, or the key leads nowhere: a step to "exist" or "failed" changes nothing
\* else, one to "shmat" gives the process its segment.
LEMMA ThrShmGet ==
  ASSUME ThrInv, NEW q \in Process, ShmGet(q) \/ ShmGetOld(q) \/ ShmGetFails(q)
  PROVE  ThrInv'
<1> USE DEF ThrInv
<1>a. /\ tmain[q] \in {"shmget", "exist"}
      /\ UNCHANGED <<prog, tnext, tpc, round, lk, i_data, tmp, cleared, quit>>
  BY DEF ShmGet, ShmGetOld, ShmGetFails
<1>b. prog = "shared" /\ \A u \in Thread : u[1] = q => tpc[u] = "none"
  BY <1>a, EarlyIsShared DEF Early, Keyless
<1>s. PICK a \in Early \union {"create", "returned"} :
        /\ tmain' = [tmain EXCEPT ![q] = a]
        /\ \/ a \in Keyless /\ UNCHANGED <<tseg, keyed>>
           \/ a = "shmat" /\ \E n \in {1, 2} : tseg' = [tseg EXCEPT ![q] = n] /\ keyed' = n
  <2>1. CASE ShmGet(q) /\ keyed # 0
    BY <2>1 DEF ShmGet, Early, Keyless
  <2>2. CASE ShmGet(q) /\ keyed = 0
    BY <2>2 DEF ShmGet, Early
  <2>3. CASE ShmGetOld(q) /\ keyed = 0
    BY <2>3 DEF ShmGetOld, Early, Keyless
  <2>4. CASE ShmGetOld(q) /\ keyed # 0
    <3>1. keyed \in {1, 2}
      BY <2>4 DEF ThrTypes
    <3> QED BY <2>4, <3>1 DEF ShmGetOld, Early
  <2>5. CASE ShmGetFails(q)
    BY <2>5 DEF ShmGetFails, Early, Keyless
  <2> QED BY <2>1, <2>2, <2>3, <2>4, <2>5
<1>0. Joining' /\ tmain' \in [Process -> MainPlaces] /\ Idx' = Idx /\ Thread' = Thread
  BY <1>a, <1>s, MainMoves DEF Early, Keyless
<1>t. /\ tseg' \in [Process -> Segs \union {0}] /\ keyed' \in {0, 1, 2}
      /\ \A r \in Process : r # q => tseg'[r] = tseg[r] /\ tmain'[r] = tmain[r]
      /\ tmain'[q] \in Keyless <=> tseg'[q] = 0
      /\ tseg'[q] # Heap
  <2>1. /\ tmain \in [Process -> MainPlaces] /\ tseg \in [Process -> Segs \union {0}] /\ keyed \in {0, 1, 2}
        /\ tseg[q] = 0
    BY <1>a, <1>b DEF ThrTypes, OneProcess, Keyless
  <2>2. tmain'[q] = a /\ \A r \in Process : r # q => tmain'[r] = tmain[r]
    BY <1>s, <2>1
  <2>3. CASE a \in Keyless /\ UNCHANGED <<tseg, keyed>>
    BY <2>1, <2>2, <2>3 DEF Heap
  <2>4. CASE a = "shmat" /\ \E n \in {1, 2} : tseg' = [tseg EXCEPT ![q] = n] /\ keyed' = n
    <3>1. PICK n \in {1, 2} : tseg' = [tseg EXCEPT ![q] = n] /\ keyed' = n
      BY <2>4
    <3>2. tseg'[q] = n /\ \A r \in Process : r # q => tseg'[r] = tseg[r]
      BY <2>1, <3>1
    <3> QED BY <2>1, <2>2, <2>4, <3>1, <3>2 DEF Heap, Segs, Keyless
  <2> QED BY <1>s, <2>3, <2>4
<1>1. ThrTypes'
  BY <1>0, <1>a, <1>t DEF ThrTypes, LockOf
<1>2. OneProcess'
  BY <1>a, <1>b, <1>t DEF OneProcess
<1>3. \A u \in Thread : u[1] \in Process /\ (u[1] # q => tseg'[u[1]] = tseg[u[1]])
  BY <1>t, ThreadNumbers
<1>4. Walks'
  BY <1>0, <1>a DEF Walks
<1>5. Owning'
  BY <1>0, <1>3, <1>a, <1>b, SameProgram DEF Owning, Of, Section
<1>6. Reading'
  BY <1>0, <1>3, <1>a, <1>b DEF Reading
<1>7. Doubling' /\ Gathering' /\ Destroyed'
  BY <1>a, <1>b DEF Doubling, Gathering, Destroyed
<1> QED BY <1>0, <1>1, <1>2, <1>4, <1>5, <1>6, <1>7

LEMMA ThrShmAttach ==
  ASSUME ThrInv, NEW q \in Process, ShmAttach(q)
  PROVE  ThrInv'
<1> USE DEF ThrInv
<1>a. PICK a \in Early \union {"create", "returned"} :
      /\ tmain[q] = "shmat" /\ tmain' = [tmain EXCEPT ![q] = a] /\ a \in {"clear", "create", "returned"}
      /\ UNCHANGED <<prog, mode, tnext, tpc, round, tseg, keyed, lk, i_data, tmp, cleared, quit>>
  BY DEF ShmAttach, Early, Keyless
<1>b. prog = "shared"
  BY <1>a, EarlyIsShared DEF Early
<1>0. Joining' /\ tmain' \in [Process -> MainPlaces] /\ Idx' = Idx /\ Thread' = Thread
  BY <1>a, MainMoves DEF Early, Keyless
<1>1. ThrTypes'
  BY <1>0, <1>a DEF ThrTypes, LockOf
<1>2. OneProcess'
  BY <1>a, <1>b DEF OneProcess, ThrTypes, Early, Keyless
<1>3. Walks' /\ Reading'
  BY <1>0, <1>a DEF Walks, Reading
<1>4. Owning'
  BY <1>0, <1>a, SameProgram DEF Owning, Of
<1>5. Doubling' /\ Gathering' /\ Destroyed'
  BY <1>a, <1>b DEF Doubling, Gathering, Destroyed
<1> QED BY <1>0, <1>1, <1>2, <1>3, <1>4, <1>5

\* memset and pthread_mutex_init: either nobody is in a section of the segment or it counts
\* as cleared from now on.
LEMMA ThrReset ==
  ASSUME ThrInv, NEW q \in Process, Clear(q) \/ MutexInit(q)
  PROVE  ThrInv'
<1> USE DEF ThrInv
<1>a. PICK a \in Early \union {"create", "returned"}, k \in {"zero", "errorcheck"} :
      /\ tmain[q] \in {"clear", "init"} /\ tmain' = [tmain EXCEPT ![q] = a]
      /\ a \in {"init", "create"}
      /\ lk' = [lk EXCEPT ![tseg[q]] = Lock(k)]
      /\ i_data' \in {i_data, [i_data EXCEPT ![tseg[q]] = 0]}
      /\ cleared' = (IF Using(tseg[q]) = {} THEN cleared ELSE cleared \union {tseg[q]})
      /\ UNCHANGED <<prog, mode, tnext, tpc, round, tseg, keyed, tmp, quit>>
  BY DEF Clear, MutexInit, Early, Keyless
<1>b. prog = "shared"
  BY <1>a, EarlyIsShared DEF Early
<1>s. PICK s \in Segs : s = tseg[q] /\ s # Heap
  BY <1>a, <1>b DEF OneProcess, ThrTypes, Early, Keyless
<1>0. Joining' /\ tmain' \in [Process -> MainPlaces] /\ Idx' = Idx /\ Thread' = Thread
  BY <1>a, MainMoves DEF Early, Keyless
<1>l. PICK l \in LockOf : /\ l.kind = k /\ l.owner = Nobody /\ l.readers = {}
                          /\ lk' = [lk EXCEPT ![s] = l]
  BY <1>a, <1>s DEF Lock, LockOf
<1>k. /\ lk' \in [Segs -> LockOf] /\ lk'[s] = l /\ \A r \in Segs : r # s => lk'[r] = lk[r]
  BY <1>l, <1>s, LockSet
<1>i. i_data' \in [Segs -> Nat] /\ \A r \in Segs : r # s => i_data'[r] = i_data[r]
  BY <1>a, <1>s DEF ThrTypes
<1>c. /\ cleared \subseteq cleared'
      /\ \A u \in Thread : tpc[u] \in Section \union {"again"} /\ tseg[u[1]] \notin cleared' =>
           tseg[u[1]] # s /\ tseg[u[1]] \notin cleared
  <2>1. CASE Using(s) = {}
    BY <1>a, <1>s, <2>1 DEF Using, Section
  <2>2. CASE Using(s) # {}
    BY <1>a, <1>s, <2>2
  <2> QED BY <2>1, <2>2
<1>1. ThrTypes'
  BY <1>0, <1>a, <1>i, <1>k DEF ThrTypes, LockOf
<1>2. OneProcess'
  BY <1>a, <1>b DEF OneProcess, ThrTypes, Early, Keyless
<1>3. Walks'
  BY <1>0, <1>a DEF Walks
<1>4. Reading'
  <2>1. ASSUME NEW u \in Thread, tpc[u] \in {"set", "out"}, tseg[u[1]] \notin cleared'
        PROVE  i_data'[tseg[u[1]]] = tmp[u]
    <3>1. tseg[u[1]] \in Segs /\ tseg[u[1]] # s /\ tseg[u[1]] \notin cleared
      BY <1>c, <2>1, HasLock DEF Section
    <3> QED BY <1>i, <2>1, <3>1 DEF Reading
  <2> HIDE DEF ThrInv
  <2> QED BY <1>0, <1>a, <2>1 DEF Reading
<1>5. Owning'
  <2>1. \A r \in Segs : lk'[r].owner # Nobody => lk'[r].readers = {}
    BY <1>k, <1>l DEF Owning
  <2>2. \A r \in Segs : \A u \in lk'[r].readers : prog = "barrier" \/ TakesRead(u)
    BY <1>k, <1>l DEF Owning
  <2>3. ASSUME NEW u \in Thread, tpc[u] \in Section \union {"again"}, tseg[u[1]] \notin cleared'
        PROVE  IF TakesRead(u) THEN u \in lk'[tseg[u[1]]].readers ELSE lk'[tseg[u[1]]].owner = u
    <3>1. tseg[u[1]] \in Segs /\ tseg[u[1]] # s /\ tseg[u[1]] \notin cleared
      BY <1>c, <2>3, HasLock DEF Section
    <3> QED BY <1>k, <2>3, <3>1 DEF Owning, Of
  <2> HIDE DEF ThrInv
  <2> QED BY <1>0, <1>a, <2>1, <2>2, <2>3, SameProgram DEF Owning, Of
<1>6. Doubling' /\ Gathering'
  BY <1>a, <1>b DEF Doubling, Gathering
<1>7. Destroyed'
  BY <1>0, <1>a, <1>b, <1>k, <1>l DEF Destroyed
<1> QED BY <1>0, <1>1, <1>2, <1>3, <1>4, <1>5, <1>6, <1>7

\* What a main that is still at work says of its process.
LEMMA AtWork ==
  ASSUME ThrInv, NEW q \in Process, tmain[q] \in {"create", "join", "destroy"}
  PROVE  /\ prog # "shared" => q = 1
         /\ \A s \in Segs : lk[s].kind # "destroyed"
         /\ \A u \in Thread : u[1] = q => tpc[u] # "gone"
         /\ tseg[q] \in Segs /\ tnext[q] \in Nat /\ tnext[q] \in Idx /\ tnext[q] <= MAX_THREAD - 1
         /\ MAX_THREAD \in Nat
<1>1. prog # "shared" => q = 1
  BY DEF ThrInv, OneProcess, Process
<1>2. \A s \in Segs : lk[s].kind # "destroyed"
  BY <1>1 DEF ThrInv, Destroyed
<1>3. \A u \in Thread : u[1] = q => tpc[u] # "gone"
  <2>1. SUFFICES ASSUME NEW u \in Thread, u[1] = q, tpc[u] = "gone" PROVE FALSE
    OBVIOUS
  <2>2. u[2] \in Idx /\ u = <<q, u[2]>>
    BY <2>1, ThreadNumbers
  <2> QED BY <2>1, <2>2 DEF ThrInv, Joining
<1>4. tseg[q] \in Segs
  BY DEF ThrInv, OneProcess, ThrTypes, Segs, Heap, Early, Keyless
<1>5. tnext[q] \in Nat /\ tnext[q] \in Idx /\ tnext[q] <= MAX_THREAD - 1 /\ MAX_THREAD \in Nat
  BY ThreadNumbers DEF ThrInv, ThrTypes, Idx
<1> QED BY <1>1, <1>2, <1>3, <1>4, <1>5

\* pthread_create: the next thread, which was none so far.
LEMMA ThrCreate ==
  ASSUME ThrInv, NEW q \in Process, Create(q)
  PROVE  ThrInv'
<1> USE DEF ThrInv
<1>n. PICK n \in Idx : n = tnext[q] /\ n \in Nat /\ n <= MAX_THREAD - 1 /\ MAX_THREAD \in Nat
  BY AtWork DEF Create
<1>a. /\ tmain[q] = "create" /\ tpc' = [tpc EXCEPT ![<<q, n>>] = "start"]
      /\ UNCHANGED <<prog, mode, round, tseg, keyed, lk, i_data, tmp, cleared, quit>>
  BY <1>n DEF Create
<1>m. IF n + 1 = MAX_THREAD
      THEN tnext' = [tnext EXCEPT ![q] = 0] /\ tmain' = [tmain EXCEPT ![q] = "join"]
      ELSE tnext' = [tnext EXCEPT ![q] = n + 1] /\ tmain' = tmain
  <2>1. (n + 1) % MAX_THREAD = IF n + 1 = MAX_THREAD THEN 0 ELSE n + 1
    <3>1. CASE n + 1 = MAX_THREAD
      BY <1>n, <3>1
    <3>2. CASE n + 1 # MAX_THREAD
      BY <1>n, <3>2
    <3> QED BY <3>1, <3>2
  <2>2. tnext' = [tnext EXCEPT ![q] = (n + 1) % MAX_THREAD]
    BY <1>n DEF Create
  <2>3. tmain' = [tmain EXCEPT ![q] = IF n + 1 = MAX_THREAD THEN "join" ELSE tmain[q]]
    BY <1>n DEF Create
  <2>4. [tmain EXCEPT ![q] = tmain[q]] = tmain
    BY DEF ThrTypes
  <2> QED BY <2>1, <2>2, <2>3, <2>4
<1>0. Idx' = Idx /\ Thread' = Thread /\ MAX_THREAD' = MAX_THREAD /\ \A u : TakesRead(u)' <=> TakesRead(u)
  BY <1>a, SameProgram
<1>w. /\ prog # "shared" => q = 1
      /\ \A s \in Segs : lk[s].kind # "destroyed"
      /\ \A u \in Thread : u[1] = q => tpc[u] # "gone"
  BY <1>a, AtWork
<1>t. PICK t \in Thread : t = <<q, n>> /\ t[1] = q
  <2>1. <<q, n>> \in Thread /\ <<q, n>>[1] = q
    BY <1>n, ThreadNumbers, Zenon
  <2> QED BY <2>1
<1>p. /\ tpc' \in [Thread -> ThreadPlaces] /\ tpc'[t] = "start"
      /\ \A u \in Thread : u # t => tpc'[u] = tpc[u]
  BY <1>a, <1>t DEF ThrTypes, ThreadPlaces
<1>o. tpc[t] = "none"
  BY <1>a, <1>n, <1>t DEF Joining
<1>c. /\ tnext' \in [Process -> Idx] /\ tmain' \in [Process -> MainPlaces]
      /\ \A r \in Process : r # q => tnext'[r] = tnext[r] /\ tmain'[r] = tmain[r]
      /\ \/ n + 1 = MAX_THREAD /\ tnext'[q] = 0 /\ tmain'[q] = "join"
         \/ n + 1 # MAX_THREAD /\ tnext'[q] = n + 1 /\ tmain'[q] = "create"
  <2>1. n + 1 # MAX_THREAD => n + 1 \in Idx
    BY <1>n DEF Idx
  <2>2. CASE n + 1 = MAX_THREAD
    <3>1. tnext' = [tnext EXCEPT ![q] = 0] /\ tmain' = [tmain EXCEPT ![q] = "join"] /\ 0 \in Idx
      BY <1>m, <2>2, ThreadNumbers
    <3> QED BY <2>2, <3>1 DEF ThrTypes, MainPlaces
  <2>3. CASE n + 1 # MAX_THREAD
    <3>1. PICK m \in Idx : m = n + 1
      BY <2>1, <2>3
    <3>2. tnext' = [tnext EXCEPT ![q] = m] /\ tmain' = tmain
      BY <1>m, <2>3, <3>1
    <3> QED BY <1>a, <2>3, <3>1, <3>2 DEF ThrTypes
  <2> QED BY <2>2, <2>3
<1>1. ThrTypes'
  BY <1>0, <1>a, <1>c, <1>p DEF ThrTypes, LockOf
<1>2. OneProcess'
  <2>1. ASSUME prog # "shared", NEW i \in Idx
        PROVE  <<2, i>> \in Thread /\ <<2, i>> # t
    <3>1. <<2, i>> \in Thread /\ q = 1
      BY <1>w, <2>1, ThreadNumbers DEF Process
    <3> QED BY <1>t, <3>1
  <2>2. CASE prog = "shared"
    <3>1. \A r \in Process : tmain'[r] \in Keyless <=> tmain[r] \in Keyless
      BY <1>a, <1>c DEF Early, Keyless
    <3> QED BY <1>a, <2>2, <3>1 DEF OneProcess
  <2>3. CASE prog # "shared"
    BY <1>0, <1>a, <1>c, <1>p, <1>w, <2>1, <2>3 DEF OneProcess, Process
  <2> QED BY <2>2, <2>3
<1>3. Joining'
  <2>1. ASSUME NEW r \in Process, r # q, NEW i \in Idx
        PROVE  tpc'[<<r, i>>] = tpc[<<r, i>>]
    BY <1>p, <1>t, <2>1, ThreadNumbers
  <2>2. ASSUME NEW r \in Process, tmain'[r] \in Early, NEW i \in Idx
        PROVE  tpc'[<<r, i>>] = "none"
    <3>1. r # q /\ tmain[r] \in Early
      BY <1>c, <2>2 DEF Early, Keyless
    <3> QED BY <2>1, <3>1 DEF Joining
  <2>3. ASSUME NEW r \in Process, tmain'[r] = "create", NEW i \in tnext'[r] .. MAX_THREAD - 1
        PROVE  tpc'[<<r, i>>] = "none"
    <3>1. tnext'[r] \in Nat /\ tnext'[r] \in Idx
      BY <1>c, ThreadNumbers
    <3>2. i \in Idx
      BY <1>n, <3>1 DEF Idx
    <3>3. CASE r = q
      <4>1. i \in n .. MAX_THREAD - 1 /\ i # n
        BY <1>c, <1>n, <2>3, <3>3
      <4>2. <<q, i>> \in Thread /\ <<q, i>> # t
        BY <1>t, <3>2, <4>1, ThreadNumbers
      <4>3. tpc[<<q, i>>] = "none"
        BY <1>a, <1>n, <4>1 DEF Joining
      <4> QED BY <1>p, <3>3, <4>2, <4>3
    <3>4. CASE r # q
      <4>1. tmain[r] = "create" /\ i \in tnext[r] .. MAX_THREAD - 1
        BY <1>c, <2>3, <3>4
      <4> QED BY <2>1, <3>2, <3>4, <4>1 DEF Joining
    <3> QED BY <3>3, <3>4
  <2>4. ASSUME NEW r \in Process, tmain'[r] = "join", NEW i \in 0 .. tnext'[r] - 1
        PROVE  tpc'[<<r, i>>] = "done"
    <3>1. tnext'[r] \in Nat /\ tnext'[r] \in Idx
      BY <1>c, ThreadNumbers
    <3>2. i \in Idx
      BY <1>n, <3>1 DEF Idx
    <3>3. CASE r = q
      BY <1>c, <2>4, <3>3
    <3>4. CASE r # q
      <4>1. tmain[r] = "join" /\ i \in 0 .. tnext[r] - 1
        BY <1>c, <2>4, <3>4
      <4> QED BY <2>1, <3>2, <3>4, <4>1 DEF Joining
    <3> QED BY <3>3, <3>4
  <2>5. ASSUME NEW r \in Process, tmain'[r] = "destroy", NEW i \in Idx
        PROVE  tpc'[<<r, i>>] = "done"
    <3>1. r # q /\ tmain[r] = "destroy"
      BY <1>c, <2>5
    <3> QED BY <2>1, <3>1 DEF Joining
  <2>6. ASSUME NEW r \in Process, NEW i \in Idx, NEW j \in Idx, tpc'[<<r, i>>] = "gone"
        PROVE  tmain'[r] = "returned" /\ tpc'[<<r, j>>] = "gone"
    <3>1. CASE r = q
      BY <1>p, <1>w, <2>6, <3>1, ThreadNumbers
    <3>2. CASE r # q
      BY <1>c, <2>1, <2>6, <3>2 DEF Joining
    <3> QED BY <3>1, <3>2
  <2> HIDE DEF ThrInv
  <2> QED BY <1>0, <2>2, <2>3, <2>4, <2>5, <2>6 DEF Joining
<1>4. Walks'
  BY <1>0, <1>a, <1>p DEF Walks, Section
<1>5. Owning'
  BY <1>0, <1>a, <1>p DEF Owning, Of, Section
<1>6. Reading'
  BY <1>0, <1>a, <1>p DEF Reading
<1>7. Doubling'
  BY <1>0, <1>a, <1>p DEF Doubling, Section
<1>8. Gathering'
  <2>1. SUFFICES ASSUME prog = "barrier"
                 PROVE  /\ \A u \in lk[Heap].readers : u[1] = 1 /\ tpc'[u] \in {"wait", "done", "gone"}
                        /\ lk[Heap].owner = Nobody
                        /\ BarrierTogether'
    BY <1>a DEF Gathering
  <2>2. /\ \A u \in lk[Heap].readers : u \in Thread /\ u[1] = 1 /\ tpc[u] \in {"wait", "done", "gone"}
        /\ lk[Heap].owner = Nobody /\ BarrierTogether
    BY <2>1 DEF Gathering, ThrTypes, LockOf, Segs
  <2>3. \A u \in Thread : tpc[u] # "done"
    <3>1. t = <<1, n>>
      BY <1>t, <1>w, <2>1
    <3> QED BY <1>o, <2>1, <2>2, <3>1 DEF BarrierTogether
  <2>4. BarrierTogether'
    BY <1>0, <1>p, <2>3 DEF BarrierTogether
  <2> QED BY <1>o, <1>p, <2>2, <2>4
<1>9. Destroyed'
  BY <1>a, <1>w DEF Destroyed
<1> QED BY <1>1, <1>2, <1>3, <1>4, <1>5, <1>6, <1>7, <1>8, <1>9

\* pthread_create fails: the threads of the process are gone, all of them.
LEMMA ThrCreateFail ==
  ASSUME ThrInv, NEW q \in Process, CreateFail(q)
  PROVE  ThrInv'
<1> USE DEF ThrInv
<1>a. /\ tmain[q] = "create" /\ tmain' = [tmain EXCEPT ![q] = "returned"]
      /\ tpc' = [t \in Thread |-> IF t[1] = q THEN "gone" ELSE tpc[t]]
      /\ UNCHANGED <<prog, mode, tnext, round, tseg, keyed, lk, i_data, tmp, cleared>>
  BY DEF CreateFail
<1>0. Idx' = Idx /\ Thread' = Thread /\ MAX_THREAD' = MAX_THREAD /\ \A u : TakesRead(u)' <=> TakesRead(u)
  BY <1>a, SameProgram
<1>w. /\ prog # "shared" => q = 1
      /\ \A s \in Segs : lk[s].kind # "destroyed"
  BY <1>a, AtWork
<1>p. /\ tpc' \in [Thread -> ThreadPlaces]
      /\ \A u \in Thread : tpc'[u] = IF u[1] = q THEN "gone" ELSE tpc[u]
  BY <1>a DEF ThrTypes, ThreadPlaces
<1>c. /\ tmain' \in [Process -> MainPlaces] /\ tmain'[q] = "returned"
      /\ \A r \in Process : r # q => tmain'[r] = tmain[r]
  BY <1>a DEF ThrTypes, MainPlaces
<1>1. ThrTypes'
  BY <1>0, <1>a, <1>c, <1>p DEF ThrTypes, LockOf
<1>2. OneProcess'
  <2>1. CASE prog = "shared"
    <3>1. \A r \in Process : tmain'[r] \in Keyless <=> tmain[r] \in Keyless
      BY <1>a, <1>c DEF Early, Keyless
    <3> QED BY <1>a, <2>1, <3>1 DEF OneProcess
  <2>2. CASE prog # "shared"
    BY <1>0, <1>a, <1>c, <1>p, <1>w, <2>2, ThreadNumbers DEF OneProcess, Process
  <2> QED BY <2>1, <2>2
<1>3. Joining'
  <2>1. ASSUME NEW r \in Process, NEW i \in Idx
        PROVE  tpc'[<<r, i>>] = IF r = q THEN "gone" ELSE tpc[<<r, i>>]
    <3>1. <<r, i>> \in Thread /\ <<r, i>>[1] = r
      BY ThreadNumbers
    <3> QED BY <1>p, <3>1
  <2>2. \A r \in Process : tnext[r] \in Nat /\ tnext[r] <= MAX_THREAD - 1
    BY ThreadNumbers DEF ThrTypes, Idx
  <2>3. ASSUME NEW r \in Process, tmain'[r] = "create", NEW i \in tnext[r] .. MAX_THREAD - 1
        PROVE  tpc'[<<r, i>>] = "none"
    <3>1. i \in Idx /\ r # q /\ tmain[r] = "create"
      BY <1>c, <2>2, <2>3, ThreadNumbers DEF Idx
    <3> QED BY <2>1, <3>1 DEF Joining
  <2>4. ASSUME NEW r \in Process, tmain'[r] = "join", NEW i \in 0 .. tnext[r] - 1
        PROVE  tpc'[<<r, i>>] = "done"
    <3>1. i \in Idx /\ r # q /\ tmain[r] = "join"
      BY <1>c, <2>2, <2>4, ThreadNumbers DEF Idx
    <3> QED BY <2>1, <3>1 DEF Joining
  <2>5. ASSUME NEW r \in Process, tmain'[r] \in Early, NEW i \in Idx
        PROVE  tpc'[<<r, i>>] = "none"
    <3>1. r # q /\ tmain[r] \in Early
      BY <1>c, <2>5 DEF Early, Keyless
    <3> QED BY <2>1, <3>1 DEF Joining
  <2>6. ASSUME NEW r \in Process, tmain'[r] = "destroy", NEW i \in Idx
        PROVE  tpc'[<<r, i>>] = "done"
    <3>1. r # q /\ tmain[r] = "destroy"
      BY <1>c, <2>6
    <3> QED BY <2>1, <3>1 DEF Joining
  <2>7. ASSUME NEW r \in Process, NEW i \in Idx, NEW j \in Idx, tpc'[<<r, i>>] = "gone"
        PROVE  tmain'[r] = "returned" /\ tpc'[<<r, j>>] = "gone"
    <3>1. CASE r = q
      BY <1>c, <2>1, <3>1
    <3>2. CASE r # q
      BY <1>c, <2>1, <2>7, <3>2 DEF Joining
    <3> QED BY <3>1, <3>2
  <2> HIDE DEF ThrInv
  <2> QED BY <1>0, <1>a, <2>3, <2>4, <2>5, <2>6, <2>7 DEF Joining
<1>4. Walks'
  BY <1>0, <1>a, <1>p DEF Walks, Section
<1>5. Owning'
  BY <1>0, <1>a, <1>p DEF Owning, Of, Section
<1>6. Reading'
  BY <1>0, <1>a, <1>p DEF Reading
<1>7. Doubling'
  BY <1>0, <1>a, <1>p DEF Doubling, Section
<1>8. Gathering'
  <2>1. SUFFICES ASSUME prog = "barrier"
                 PROVE  /\ \A u \in lk[Heap].readers : u[1] = 1 /\ tpc'[u] \in {"wait", "done", "gone"}
                        /\ lk[Heap].owner = Nobody
                        /\ BarrierTogether'
    BY <1>a DEF Gathering
  <2>2. /\ \A u \in lk[Heap].readers : u \in Thread /\ u[1] = 1 /\ tpc[u] \in {"wait", "done", "gone"}
        /\ lk[Heap].owner = Nobody
    BY <2>1 DEF Gathering, ThrTypes, LockOf, Segs
  <2>3. \A u \in Thread : tpc'[u] # "done"
    <3>1. SUFFICES ASSUME NEW u \in Thread, tpc'[u] = "done" PROVE FALSE
      OBVIOUS
    <3>2. u[1] = 2 /\ u[2] \in Idx /\ u = <<2, u[2]>>
      BY <1>p, <1>w, <2>1, <3>1, ThreadNumbers DEF Process
    <3>3. tpc[u] = "none" /\ tpc'[u] = tpc[u]
      BY <1>p, <1>w, <2>1, <3>2 DEF OneProcess
    <3> QED BY <3>1, <3>3
  <2>4. BarrierTogether'
    BY <1>0, <2>3 DEF BarrierTogether
  <2> QED BY <1>p, <2>2, <2>4
<1>9. Destroyed'
  BY <1>a, <1>w DEF Destroyed
<1> QED BY <1>1, <1>2, <1>3, <1>4, <1>5, <1>6, <1>7, <1>8, <1>9

\* clean_thread joins the threads in order.
LEMMA ThrJoin ==
  ASSUME ThrInv, NEW q \in Process, Join(q)
  PROVE  ThrInv'
<1> USE DEF ThrInv
<1>n. PICK n \in Idx : n = tnext[q] /\ n \in Nat /\ n <= MAX_THREAD - 1 /\ MAX_THREAD \in Nat
  BY AtWork DEF Join
<1>a. /\ tmain[q] = "join" /\ tpc[<<q, n>>] = "done"
      /\ UNCHANGED <<prog, mode, tpc, round, tseg, keyed, lk, i_data, tmp, cleared, quit>>
  BY <1>n DEF Join
<1>m. \/ n + 1 = MAX_THREAD /\ tmain' = [tmain EXCEPT ![q] = "destroy"] /\ tnext' = tnext
      \/ n + 1 # MAX_THREAD /\ tnext' = [tnext EXCEPT ![q] = n + 1] /\ tmain' = tmain
  BY <1>n DEF Join, Joined
<1>0. Idx' = Idx /\ Thread' = Thread /\ MAX_THREAD' = MAX_THREAD /\ \A u : TakesRead(u)' <=> TakesRead(u)
  BY <1>a, SameProgram
<1>w. /\ prog # "shared" => q = 1
      /\ \A s \in Segs : lk[s].kind # "destroyed"
      /\ \A u \in Thread : u[1] = q => tpc[u] # "gone"
  BY <1>a, AtWork
<1>c. /\ tnext' \in [Process -> Idx] /\ tmain' \in [Process -> MainPlaces]
      /\ \A r \in Process : r # q => tnext'[r] = tnext[r] /\ tmain'[r] = tmain[r]
      /\ \/ n + 1 = MAX_THREAD /\ tmain'[q] = "destroy"
         \/ n + 1 # MAX_THREAD /\ tnext'[q] = n + 1 /\ tmain'[q] = "join"
  <2>1. CASE n + 1 = MAX_THREAD
    BY <1>m, <2>1 DEF ThrTypes, MainPlaces
  <2>2. CASE n + 1 # MAX_THREAD
    <3>1. PICK m \in Idx : m = n + 1
      BY <1>n, <2>2 DEF Idx
    <3>2. tnext' = [tnext EXCEPT ![q] = m] /\ tmain' = tmain
      BY <1>m, <2>2, <3>1
    <3> QED BY <1>a, <2>2, <3>1, <3>2 DEF ThrTypes
  <2> QED BY <2>1, <2>2
<1>1. ThrTypes'
  BY <1>0, <1>a, <1>c DEF ThrTypes, LockOf
<1>2. OneProcess'
  <2>1. CASE prog = "shared"
    <3>1. \A r \in Process : tmain'[r] \in Keyless <=> tmain[r] \in Keyless
      BY <1>a, <1>c DEF Early, Keyless
    <3> QED BY <1>a, <2>1, <3>1 DEF OneProcess
  <2>2. CASE prog # "shared"
    BY <1>0, <1>a, <1>c, <1>w, <2>2 DEF OneProcess, Process
  <2> QED BY <2>1, <2>2
<1>3. Joining'
  <2>1. \A i \in 0 .. n : tpc[<<q, i>>] = "done"
    <3>1. \A i \in 0 .. n : i = n \/ i \in 0 .. n - 1
      BY <1>n
    <3> QED BY <1>a, <1>n, <3>1 DEF Joining
  <2>2. ASSUME NEW r \in Process, tmain'[r] \in Early, NEW i \in Idx
        PROVE  tpc[<<r, i>>] = "none"
    <3>1. r # q /\ tmain[r] \in Early
      BY <1>c, <2>2 DEF Early, Keyless
    <3> QED BY <3>1 DEF Joining
  <2>3. ASSUME NEW r \in Process, tmain'[r] = "create", NEW i \in tnext'[r] .. MAX_THREAD - 1
        PROVE  tpc[<<r, i>>] = "none"
    <3>1. r # q /\ tmain[r] = "create" /\ tnext'[r] = tnext[r]
      BY <1>c, <2>3
    <3> QED BY <2>3, <3>1 DEF Joining
  <2>4. ASSUME NEW r \in Process, tmain'[r] = "join", NEW i \in 0 .. tnext'[r] - 1
        PROVE  tpc[<<r, i>>] = "done"
    <3>1. CASE r = q
      <4>1. i \in 0 .. n
        BY <1>c, <1>n, <2>4, <3>1
      <4> QED BY <2>1, <3>1, <4>1
    <3>2. CASE r # q
      BY <1>c, <2>4, <3>2 DEF Joining
    <3> QED BY <3>1, <3>2
  <2>5. ASSUME NEW r \in Process, tmain'[r] = "destroy", NEW i \in Idx
        PROVE  tpc[<<r, i>>] = "done"
    <3>1. CASE r = q
      <4>1. i \in 0 .. n
        BY <1>c, <1>n, <2>5, <3>1 DEF Idx
      <4> QED BY <2>1, <3>1, <4>1
    <3>2. CASE r # q
      BY <1>c, <2>5, <3>2 DEF Joining
    <3> QED BY <3>1, <3>2
  <2>6. ASSUME NEW r \in Process, NEW i \in Idx, NEW j \in Idx, tpc[<<r, i>>] = "gone"
        PROVE  tmain'[r] = "returned" /\ tpc[<<r, j>>] = "gone"
    <3>1. r # q
      BY <1>w, <2>6, ThreadNumbers
    <3> QED BY <1>c, <2>6, <3>1 DEF Joining
  <2> HIDE DEF ThrInv
  <2> QED BY <1>0, <1>a, <2>2, <2>3, <2>4, <2>5, <2>6 DEF Joining
<1>4. Walks' /\ Reading' /\ Doubling'
  BY <1>0, <1>a DEF Walks, Reading, Doubling
<1>5. Owning'
  BY <1>0, <1>a DEF Owning, Of
<1>6. Gathering'
  BY <1>0, <1>a DEF Gathering, BarrierTogether
<1>7. Destroyed'
  BY <1>a, <1>w DEF Destroyed
<1> QED BY <1>1, <1>2, <1>3, <1>4, <1>5, <1>6, <1>7

\* The end of main: whatever it destroys, its threads have been joined.
LEMMA ThrDestroy ==
  ASSUME ThrInv, NEW q \in Process, Destroy(q)
  PROVE  ThrInv'
<1> USE DEF ThrInv
<1>a. /\ tmain[q] = "destroy" /\ tmain' = [tmain EXCEPT ![q] = "returned"]
      /\ lk' = IF prog \in {"spin", "rwlock", "barrier"}
               THEN [lk EXCEPT ![tseg[q]].kind = "destroyed"] ELSE lk
      /\ keyed' \in {0, keyed}
      /\ UNCHANGED <<prog, mode, tnext, tpc, round, tseg, i_data, tmp, cleared, quit>>
  BY DEF Destroy
<1>0. Idx' = Idx /\ Thread' = Thread /\ MAX_THREAD' = MAX_THREAD /\ \A u : TakesRead(u)' <=> TakesRead(u)
  BY <1>a, SameProgram
<1>w. /\ prog # "shared" => q = 1
      /\ \A s \in Segs : lk[s].kind # "destroyed"
  BY <1>a, AtWork
<1>s. PICK s \in Segs : s = tseg[q] /\ (prog # "shared" => s = Heap)
  BY <1>a, <1>w, AtWork DEF OneProcess
<1>l. /\ lk' \in [Segs -> LockOf]
      /\ \A r \in Segs : /\ lk'[r].owner = lk[r].owner /\ lk'[r].count = lk[r].count
                         /\ lk'[r].readers = lk[r].readers
                         /\ lk'[r].kind # "destroyed" => lk'[r].kind = lk[r].kind
                         /\ lk'[r].kind = "destroyed" => r = s /\ prog \in {"spin", "rwlock", "barrier"}
      /\ prog \notin {"spin", "rwlock", "barrier"} => lk' = lk
  <2>1. lk \in [Segs -> LockOf]
    BY DEF ThrTypes, LockOf
  <2>2. CASE prog \in {"spin", "rwlock", "barrier"}
    <3>1. PICK o \in LockOf : o = lk[s]
      BY <2>1
    <3>2. PICK l \in LockOf : l = [o EXCEPT !.kind = "destroyed"]
      <4>1. [o EXCEPT !.kind = "destroyed"] \in LockOf
        BY DEF LockOf
      <4> QED BY <4>1
    <3>3. lk' = [lk EXCEPT ![s] = l]
      BY <1>a, <1>s, <2>2, <3>1, <3>2
    <3>4. l.owner = o.owner /\ l.count = o.count /\ l.readers = o.readers /\ l.kind = "destroyed"
      BY <3>2 DEF LockOf
    <3> QED BY <1>w, <2>1, <2>2, <3>1, <3>3, <3>4
  <2>3. CASE prog \notin {"spin", "rwlock", "barrier"}
    BY <1>a, <1>w, <2>1, <2>3
  <2> QED BY <2>2, <2>3
<1>c. /\ tmain' \in [Process -> MainPlaces] /\ tmain'[q] = "returned"
      /\ \A r \in Process : r # q => tmain'[r] = tmain[r]
  BY <1>a DEF ThrTypes, MainPlaces
<1>1. ThrTypes'
  BY <1>0, <1>a, <1>c, <1>l DEF ThrTypes, LockOf
<1>2. OneProcess'
  <2>1. CASE prog = "shared"
    <3>1. \A r \in Process : tmain'[r] \in Keyless <=> tmain[r] \in Keyless
      BY <1>a, <1>c DEF Early, Keyless
    <3> QED BY <1>a, <2>1, <3>1 DEF OneProcess
  <2>2. CASE prog # "shared"
    BY <1>0, <1>a, <1>c, <1>w, <2>2 DEF OneProcess, Process
  <2> QED BY <2>1, <2>2
<1>3. Joining'
  <2>1. /\ \A r \in Process : tmain'[r] # "returned" => tmain'[r] = tmain[r]
        /\ \A r \in Process : tmain[r] = "returned" => tmain'[r] = "returned"
    BY <1>a, <1>c
  <2> QED BY <1>0, <1>a, <2>1 DEF Joining, Early, Keyless
<1>4. Walks' /\ Reading'
  BY <1>0, <1>a DEF Walks, Reading
<1>5. Owning'
  <2>1. \A r \in Segs : lk'[r].owner # Nobody => lk'[r].readers = {}
    BY <1>l DEF Owning
  <2>2. \A r \in Segs : \A u \in lk'[r].readers : prog = "barrier" \/ TakesRead(u)
    BY <1>l DEF Owning
  <2>3. ASSUME NEW u \in Thread, tpc[u] \in Section \union {"again"}, tseg[u[1]] \notin cleared
        PROVE  IF TakesRead(u) THEN u \in lk'[tseg[u[1]]].readers ELSE lk'[tseg[u[1]]].owner = u
    <3>1. tseg[u[1]] \in Segs
      BY <2>3, HasLock DEF Section
    <3> QED BY <1>l, <2>3, <3>1 DEF Owning, Of
  <2> HIDE DEF ThrInv
  <2> QED BY <1>0, <1>a, <2>1, <2>2, <2>3 DEF Owning, Of
<1>6. Doubling'
  BY <1>0, <1>a, <1>l DEF Doubling
<1>7. Gathering'
  <2>1. Heap \in Segs
    BY DEF Segs
  <2> QED BY <1>0, <1>a, <1>l, <2>1 DEF Gathering, BarrierTogether
<1>8. Destroyed'
  <2>1. ASSUME NEW r \in Segs, lk'[r].kind = "destroyed"
        PROVE  /\ r = Heap /\ prog \in {"spin", "rwlock", "barrier"} /\ tmain'[1] = "returned"
               /\ \A i \in Idx : tpc[<<1, i>>] = "done"
    <3>1. r = s /\ prog \in {"spin", "rwlock", "barrier"} /\ q = 1 /\ s = Heap
      BY <1>l, <1>s, <1>w, <2>1
    <3> QED BY <1>a, <1>c, <3>1 DEF Joining
  <2> QED BY <1>0, <1>a, <2>1 DEF Destroyed
<1> QED BY <1>1, <1>2, <1>3, <1>4, <1>5, <1>6, <1>7, <1>8

LEMMA ThrStart == ThrInit => ThrInv
<1> SUFFICES ASSUME ThrInit PROVE ThrInv
  OBVIOUS
<1>1. PICK g \in Programs : ThrAt(g, IF g = "shared" THEN "shmget" ELSE "create")
  BY DEF ThrInit
<1>2. PICK a \in {"shmget", "create"} : a = IF g = "shared" THEN "shmget" ELSE "create"
  OBVIOUS
<1>3. /\ prog = g
      /\ tmain = [q \in Process |-> IF q = 1 \/ g = "shared" THEN a ELSE "returned"]
      /\ tnext = [q \in Process |-> 0] /\ tpc = [t \in Thread |-> "none"]
      /\ tseg = [q \in Process |-> IF g = "shared" THEN 0 ELSE Heap] /\ keyed = 0
      /\ lk = [s \in Segs |-> Lock(IF s = Heap THEN MutexType(g) ELSE "zero")]
      /\ i_data = [s \in Segs |-> 0] /\ tmp = [t \in Thread |-> 0] /\ cleared = {}
  BY <1>1, <1>2 DEF ThrAt
<1>4. MutexType(g) \in {"normal", "recursive", "errorcheck"}
  BY DEF MutexType
<1>5. ASSUME NEW s \in Segs
      PROVE  /\ lk[s] \in LockOf /\ lk[s].owner = Nobody /\ lk[s].readers = {}
             /\ lk[s].kind = IF s = Heap THEN MutexType(g) ELSE "zero"
  <2>1. PICK k \in {"zero", "normal", "recursive", "errorcheck"} :
          k = IF s = Heap THEN MutexType(g) ELSE "zero"
    BY <1>4
  <2>2. lk[s] = [kind |-> k, owner |-> Nobody, count |-> 0, readers |-> {}]
    BY <1>3, <2>1 DEF Lock
  <2> QED BY <2>1, <2>2 DEF LockOf
<1>6. ThrTypes
  <2>1. lk \in [Segs -> LockOf]
    BY <1>3, <1>5
  <2>2. tmain \in [Process -> MainPlaces]
    BY <1>2, <1>3 DEF MainPlaces, Early, Keyless
  <2> QED BY <1>3, <2>1, <2>2, ThreadNumbers DEF ThrTypes, LockOf, ThreadPlaces, Segs, Heap
<1>7. OneProcess
  <2>1. CASE prog = "shared"
    BY <1>2, <1>3, <2>1 DEF OneProcess, Heap, Early, Keyless
  <2>2. CASE prog # "shared"
    <3>1. tmain[1] = "create" /\ tmain[2] = "returned"
      BY <1>2, <1>3, <2>2 DEF Process
    <3>2. \A i \in Idx : tpc[<<2, i>>] = "none"
      BY <1>3, ThreadNumbers DEF Process
    <3> QED BY <1>3, <2>2, <3>1, <3>2 DEF OneProcess
  <2> QED BY <2>1, <2>2
<1>8. Joining
  <2>1. \A r \in Process, i \in Idx : tpc[<<r, i>>] = "none"
    <3> TAKE r \in Process, i \in Idx
    <3>1. <<r, i>> \in Thread
      BY ThreadNumbers
    <3> QED BY <1>3, <3>1
  <2>2. \A r \in Process : tnext[r] = 0 /\ tmain[r] \in {"shmget", "create", "returned"}
    BY <1>2, <1>3
  <2>3. 0 .. MAX_THREAD - 1 = Idx
    BY DEF Idx
  <2> QED BY <2>1, <2>2, <2>3 DEF Joining
<1>9. Walks /\ Reading
  BY <1>3 DEF Walks, Reading, Section
<1>10. Owning
  BY <1>3, <1>5 DEF Owning, Section
<1>11. Doubling
  <2>1. Heap \in Segs
    BY DEF Segs
  <2>2. /\ prog \in {"normal", "attr_twice"} => lk[Heap].kind = "normal"
        /\ prog = "recursive" => lk[Heap].kind = "recursive"
    BY <1>3, <1>5, <2>1 DEF MutexType
  <2> QED BY <1>3, <2>2 DEF Doubling, Section
<1>12. Gathering
  BY <1>3, <1>5 DEF Gathering, BarrierTogether, Segs
<1>13. Destroyed
  BY <1>4, <1>5 DEF Destroyed
<1> QED BY <1>10, <1>11, <1>12, <1>13, <1>6, <1>7, <1>8, <1>9 DEF ThrInv

LEMMA ThrSound == ThrInv => SectionsKept
<1> SUFFICES ASSUME ThrInv PROVE SectionsKept
  OBVIOUS
<1>1. Isolated
  BY DEF ThrInv, Reading, Isolated
<1>2. TwiceTaken
  <2> DEFINE Through == {t \in Thread : tpc[t] \in {"in", "set", "out", "done"}}
  <2>1. prog \in {"normal", "attr_twice"} => Through = {}
    BY DEF ThrInv, Doubling, Section
  <2>2. ASSUME prog = "recursive" PROVE Cardinality(Through) <= 1
    <3>1. Through \subseteq {lk[Heap].owner}
      BY <2>2 DEF ThrInv, Doubling, Section
    <3>2. PICK o : o = lk[Heap].owner
      OBVIOUS
    <3>3. PICK T : T = Through
      OBVIOUS
    <3>4. T \subseteq {o} /\ IsFiniteSet({o}) /\ Cardinality({o}) = 1
      BY <3>1, <3>2, <3>3, FS_Singleton
    <3>5. Cardinality(T) <= Cardinality({o})
      BY <3>4, FS_Subset
    <3> QED BY <3>3, <3>4, <3>5
  <2> QED BY <2>1, <2>2 DEF TwiceTaken
<1>3. BarrierTogether
  BY DEF ThrInv, Gathering, BarrierTogether
<1>4. DestroyedUnused
  <2>1. SUFFICES ASSUME NEW s \in Segs, lk[s].kind = "destroyed", NEW t \in Using(s)
                 PROVE  FALSE
    BY DEF DestroyedUnused
  <2>2. t \in Thread /\ tpc[t] \notin {"none", "done", "gone"}
    BY DEF Using
  <2>3. t[1] \in Process /\ t[2] \in Idx /\ t = <<t[1], t[2]>>
    BY <2>2, ThreadNumbers
  <2>4. prog # "shared" /\ \A i \in Idx : tpc[<<1, i>>] = "done"
    BY <2>1 DEF ThrInv, Destroyed
  <2>5. \A i \in Idx : tpc[<<2, i>>] = "none"
    BY <2>4 DEF ThrInv, OneProcess
  <2> QED BY <2>2, <2>3, <2>4, <2>5 DEF Process
<1> QED BY <1>1, <1>2, <1>3, <1>4 DEF SectionsKept

\* The sections of every thread sample stay apart, whatever the numbers of threads and
\* whichever of them pthread_create refuses: ThreadSamples as 8.pthread has them.
THEOREM SectionsCorrect == ThrSpec => []SectionsKept
<1>1. ThrInit => ThrInv
  BY ThrStart
<1>2. ThrInv /\ [ThrNext]_thrvars => ThrInv'
  <2> SUFFICES ASSUME ThrInv, [ThrNext]_thrvars PROVE ThrInv'
    OBVIOUS
  <2>1. ASSUME NEW q \in Process, MainStep(q) PROVE ThrInv'
    BY <2>1, ThrShmGet, ThrShmAttach, ThrReset, ThrCreate, ThrJoin, ThrDestroy DEF MainStep
  <2>2. ASSUME NEW q \in Process, CreateFail(q) \/ ShmGetFails(q) PROVE ThrInv'
    BY <2>2, ThrCreateFail, ThrShmGet
  <2>3. ASSUME NEW t \in Thread, ThreadStep(t) PROVE ThrInv'
    BY <2>3, ThrThread
  <2>4. CASE UNCHANGED thrvars
    <3>1. UNCHANGED <<prog, mode, tmain, tnext, tpc, round, tseg, keyed, lk, i_data, tmp, cleared, quit>>
      BY <2>4 DEF thrvars
    <3>2. Idx' = Idx /\ Thread' = Thread /\ MAX_THREAD' = MAX_THREAD /\ \A u : TakesRead(u)' <=> TakesRead(u)
      BY <3>1, SameProgram
    <3>3. ThrTypes' /\ OneProcess'
      BY <3>1, <3>2 DEF ThrInv, ThrTypes, LockOf, OneProcess
    <3>4. Joining' /\ Walks'
      BY <3>1, <3>2 DEF ThrInv, Joining, Walks
    <3>5. Owning' /\ Reading'
      BY <3>1, <3>2 DEF ThrInv, Owning, Reading, Of
    <3>6. Doubling' /\ Gathering' /\ Destroyed'
      BY <3>1, <3>2 DEF ThrInv, Doubling, Gathering, Destroyed, BarrierTogether
    <3> QED BY <3>3, <3>4, <3>5, <3>6 DEF ThrInv
  <2> QED BY <2>1, <2>2, <2>3, <2>4 DEF ThrNext
<1>3. ThrInv => SectionsKept
  BY ThrSound
<1> QED BY <1>1, <1>2, <1>3, PTL DEF ThrSpec

(***************************************************************************)
(* Signals: the handlers on the stack and the masks they have saved.       *)
(***************************************************************************)

SigFrame == [sig : Sig, saved : SUBSET Sig, waits : BOOLEAN]
Held     == 1 .. Len(stack)
Filling  == {"USR1", "CHLD"}

SigTypes ==
  /\ sprog \in {"basic", "pending", "nocldstop", "sigthread", "timer"} /\ nodefer \in BOOLEAN
  /\ installed \subseteq HandlerOf /\ smask \subseteq Sig /\ oldmask \subseteq Sig
  /\ spend \subseteq Sig /\ stack \in Seq(SigFrame) /\ vain \in BOOLEAN
  /\ sended \in Sig \union {"no", "exit"} /\ sent \in [Sig \union {"STOP"} -> Nat]

\* Where each program can be; behind "install" all its handlers are installed.
Places ==
  /\ sat # "install" => HandlerOf \subseteq installed
  /\ sat \in {"block", "look", "unblock"} => sprog = "pending"
  /\ sat = "fork" => sprog = "nocldstop"
  /\ sprog = "sigthread" => sat \in {"install", "mask", "create", "join"}
  /\ sprog = "sigthread" /\ sat \in {"create", "join"} => smask = Blocked
  /\ "RT" \in spend => sprog = "timer" /\ sat # "install"

\* A handler that filled its mask runs with everything blocked; without SA_NODEFER every
\* handler on the stack has its signal blocked, now and in what those above it have saved.
Masks ==
  /\ \A i \in Held : stack[i].sig \in installed
  /\ \A i, j \in Held : i < j => stack[i].sig \notin Filling
  /\ \A i \in Held : stack[i].sig \in Filling => smask = Sig
  /\ ~nodefer => \A i \in Held : stack[i].sig \in smask
  /\ ~nodefer => \A i, j \in Held : i < j => /\ stack[i].sig \in stack[j].saved
                                                /\ stack[i].sig # stack[j].sig

\* The death of the child sends a SIGCHLD that is pending or in the hands of one handler
\* until the child is reaped; any other was sent by hand.
ByHand == sent["CHLD"] > 0
OneDeath ==
  /\ vain => ByHand
  /\ child # "none" => "CHLD" \in installed /\ sat \notin {"install", "fork"}
  /\ "CHLD" \in spend => child = "dead" \/ ByHand
  /\ \A i \in Held : stack[i].waits =>
       stack[i].sig = "CHLD" /\ ((child = "dead" /\ "CHLD" \notin spend) \/ ByHand)
  /\ child = "dead" /\ Alive => "CHLD" \in spend \/ \E i \in Held : stack[i].waits

SigInv == SigTypes /\ Places /\ Masks /\ OneDeath /\ KilledByDesign

LEMMA SigInvSuffices == SigInv => SignalsKept
<1> SUFFICES ASSUME SigInv PROVE SignalsKept
  OBVIOUS
<1>1. HandlersNest
  BY DEF SigInv, SigTypes, Masks, HandlersNest, Held, Filling
<1>2. EachChldReaps
  BY DEF SigInv, OneDeath, EachChldReaps, Held, ByHand
<1> QED BY <1>1, <1>2 DEF SigInv, SignalsKept

LEMMA SigInitInv == SigInit => SigInv
<1> SUFFICES ASSUME SigInit PROVE SigInv
  OBVIOUS
<1>1. PICK g \in {"basic", "pending", "nocldstop", "sigthread", "timer"}, d \in BOOLEAN :
        SigAt(g, d, "no")
  BY DEF SigInit
<1>2. stack = << >> /\ Held = {} /\ stack \in Seq(SigFrame)
  BY <1>1 DEF SigAt, Held
<1>3. SigTypes
  BY <1>1, <1>2 DEF SigAt, SigTypes
<1>4. Places /\ Masks /\ OneDeath /\ KilledByDesign
  BY <1>1, <1>2 DEF SigAt, Places, Masks, OneDeath, KilledByDesign, Sig
<1> QED BY <1>3, <1>4 DEF SigInv

\* Steps that leave the stack alone.
LEMMA MasksStay ==
  ASSUME SigInv, UNCHANGED <<stack, nodefer>>,
         stack = << >> \/ (smask' = smask /\ installed' = installed)
  PROVE  Masks'
<1>1. CASE stack = << >>
  <2>1. Held' = {}
    BY <1>1 DEF Held
  <2> QED BY <2>1 DEF Masks
<1>2. CASE smask' = smask /\ installed' = installed
  BY <1>2 DEF SigInv, Masks, Held
<1> QED BY <1>1, <1>2

LEMMA EnterInv == ASSUME SigInv, NEW s \in Sig, Enter(s) PROVE SigInv'
<1> DEFINE f == [sig |-> s, saved |-> smask, waits |-> s = "CHLD"]
<1>1. SigTypes /\ Places /\ Masks /\ OneDeath
  BY DEF SigInv
<1>2. /\ Alive /\ s \in spend /\ s \notin smask /\ s \in installed /\ spend' = spend \ {s}
      /\ stack' = Append(stack, f)
      /\ smask' = smask \union SaMask(s) \union (IF nodefer THEN {} ELSE {s})
      /\ UNCHANGED <<sprog, nodefer, sat, installed, oldmask, child, taker, sended, vain, sent>>
  BY DEF Enter, Deliverable
<1>3. f \in SigFrame /\ f.sig = s /\ f.saved = smask /\ (f.waits <=> s = "CHLD")
  <2>1. (s = "CHLD") \in BOOLEAN /\ smask \in SUBSET Sig
    BY <1>1 DEF SigTypes
  <2> QED BY <2>1 DEF SigFrame
<1> HIDE DEF f
<1>4. stack \in Seq(SigFrame) /\ Len(stack) \in Nat
  BY <1>1 DEF SigTypes
<1>5. /\ stack' \in Seq(SigFrame) /\ Len(stack') = Len(stack) + 1 /\ stack'[Len(stack) + 1] = f
      /\ \A i \in Held : stack'[i] = stack[i]
  BY <1>2, <1>3, <1>4 DEF Held
<1>6. /\ Held' = Held \union {Len(stack) + 1} /\ Len(stack) + 1 \notin Held
      /\ \A i \in Held : i < Len(stack) + 1 /\ i \in Int
  BY <1>4, <1>5 DEF Held
<1>7. SaMask(s) \subseteq Sig /\ (s \in Filling <=> SaMask(s) = Sig)
  BY DEF SaMask, Filling, Sig
<1>8. smask' \subseteq Sig /\ smask \subseteq smask' /\ (~nodefer => s \in smask')
      /\ (s \in Filling => smask' = Sig)
  BY <1>1, <1>2, <1>7 DEF SigTypes
<1>9. SigTypes'
  BY <1>1, <1>2, <1>5, <1>8 DEF SigTypes, HandlerOf
<1>10. \A i \in Held : stack[i].sig \notin Filling
  BY <1>1, <1>2 DEF Masks
<1>11. Masks'
  <2>1. \A i, j \in Held' : i < j => i \in Held
    BY <1>6
  <2>2. \A i, j \in Held' : i < j => stack'[i].sig \notin Filling
    BY <1>5, <1>10, <2>1
  <2>3. \A i \in Held' : stack'[i].sig \in Filling => smask' = Sig
    BY <1>3, <1>5, <1>6, <1>8, <1>10
  <2>4. ~nodefer => \A i \in Held' : stack'[i].sig \in smask'
    BY <1>1, <1>3, <1>5, <1>6, <1>8 DEF Masks
  <2>5. ASSUME ~nodefer, NEW i \in Held', NEW j \in Held', i < j
        PROVE  stack'[i].sig \in stack'[j].saved /\ stack'[i].sig # stack'[j].sig
    <3>1. i \in Held /\ stack'[i] = stack[i] /\ stack[i].sig \in smask
      BY <1>1, <1>5, <2>1, <2>5 DEF Masks
    <3>2. CASE j \in Held
      BY <1>1, <1>5, <2>5, <3>1, <3>2 DEF Masks
    <3>3. CASE j = Len(stack) + 1
      BY <1>2, <1>3, <1>5, <3>1, <3>3
    <3> QED BY <1>6, <3>2, <3>3
  <2>6. \A i \in Held' : stack'[i].sig \in installed'
    BY <1>1, <1>2, <1>3, <1>5, <1>6 DEF Masks
  <2> QED BY <1>2, <2>2, <2>3, <2>4, <2>5, <2>6 DEF Masks
<1>12. OneDeath'
  <2>1. ASSUME NEW i \in Held', stack'[i].waits
        PROVE  /\ stack'[i].sig = "CHLD"
               /\ (child = "dead" /\ "CHLD" \notin spend') \/ ByHand
    <3>1. CASE i \in Held
      BY <1>1, <1>2, <1>5, <2>1, <3>1 DEF OneDeath
    <3>2. CASE i = Len(stack) + 1
      BY <1>1, <1>2, <1>3, <1>5, <2>1, <3>2 DEF OneDeath
    <3> QED BY <1>6, <3>1, <3>2
  <2>2. child = "dead" => "CHLD" \in spend' \/ \E i \in Held' : stack'[i].waits
    <3>1. CASE s = "CHLD"
      BY <1>3, <1>5, <1>6, <3>1
    <3>2. CASE s # "CHLD"
      BY <1>1, <1>2, <1>5, <1>6, <3>2 DEF OneDeath
    <3> QED BY <3>1, <3>2
  <2> QED BY <1>1, <1>2, <2>1, <2>2 DEF OneDeath, Alive, ByHand
<1>13. Places'
  <2>1. sprog # "sigthread"
    BY <1>1, <1>2 DEF SigTypes, HandlerOf
  <2> QED BY <1>1, <1>2, <2>1 DEF Places, HandlerOf
<1>14. KilledByDesign'
  BY <1>2 DEF SigInv, KilledByDesign, Alive, Sig
<1> QED BY <1>9, <1>11, <1>12, <1>13, <1>14 DEF SigInv

LEMMA DefaultInv == ASSUME SigInv, NEW s \in Sig, Default(s) PROVE SigInv'
<1>1. SigTypes /\ Places /\ Masks /\ OneDeath
  BY DEF SigInv
<1>2. /\ Alive /\ s \in spend /\ s \notin smask /\ s \notin installed /\ spend' = spend \ {s}
      /\ sended' = IF s = "CHLD" THEN sended ELSE s
      /\ UNCHANGED <<sprog, nodefer, sat, installed, smask, oldmask, stack, child, taker, vain, sent>>
  BY DEF Default, Deliverable
<1>3. s = "CHLD" => child # "dead" /\ sended' = "no"
  BY <1>1, <1>2 DEF OneDeath, Alive
<1>4. SigTypes' /\ Places'
  BY <1>1, <1>2 DEF SigTypes, Places, HandlerOf
<1>5. Masks'
  BY <1>2, MasksStay
<1>6. OneDeath'
  BY <1>1, <1>2, <1>3 DEF OneDeath, Alive, Held, Sig, ByHand
<1>7. KilledByDesign'
  <2> SUFFICES ASSUME sat # "install", s # "CHLD"
               PROVE  \/ s = "INT"
                      \/ s = "TERM" /\ sprog # "sigthread"
                      \/ s = "USR2" /\ sprog \notin {"basic", "sigthread"}
                      \/ s = "USR1" /\ sprog \in {"nocldstop", "timer"}
                      \/ sprog = "sigthread" /\ sat = "mask"
    BY <1>2, <1>3 DEF KilledByDesign, Sig
  <2>1. HandlerOf \subseteq installed
    BY <1>1 DEF Places
  <2>2. CASE sprog = "sigthread"
    <3>1. sat = "mask" \/ smask = Sig \ {"INT"}
      BY <1>1, <2>2 DEF Places, Blocked
    <3>2. s \in Sig /\ s \notin smask
      BY <1>2
    <3>3. sat = "mask" \/ s = "INT"
      BY <3>1, <3>2
    <3> QED BY <2>2, <3>3
  <2>3. CASE sprog # "sigthread"
    <3>1. s = "RT" => sprog = "timer"
      BY <1>1, <1>2 DEF Places
    <3>2. s \notin HandlerOf
      BY <1>2, <2>1
    <3> QED BY <1>1, <1>3, <2>3, <3>1, <3>2 DEF HandlerOf, SigTypes, Sig
  <2> QED BY <2>2, <2>3
<1> QED BY <1>4, <1>5, <1>6, <1>7 DEF SigInv

LEMMA TopHandler ==
  ASSUME SigInv, stack # << >>
  PROVE  /\ Len(stack) \in Held /\ Top \in SigFrame /\ Top = stack[Len(stack)]
         /\ Len(stack) \in Nat /\ stack \in Seq(SigFrame)
         /\ \A i \in Held : i = Len(stack) \/ i < Len(stack)
<1>1. stack \in Seq(SigFrame)
  BY DEF SigInv, SigTypes
<1>2. Len(stack) \in Nat /\ Len(stack) >= 1
  BY <1>1
<1> QED BY <1>1, <1>2 DEF Held, Top

LEMMA WaitChildInv == ASSUME SigInv, WaitChild PROVE SigInv'
<1>1. SigTypes /\ Places /\ Masks /\ OneDeath
  BY DEF SigInv
<1>2. /\ Alive /\ stack # << >> /\ Top.waits
      /\ stack' = [stack EXCEPT ![Len(stack)].waits = FALSE]
      /\ child' = (IF child = "dead" THEN "reaped" ELSE child)
      /\ vain' = (vain \/ child # "dead")
      /\ UNCHANGED <<sprog, nodefer, sat, installed, smask, oldmask, spend, taker, sended, sent>>
  BY DEF WaitChild, InHandler
<1>3. /\ Len(stack) \in Held /\ Top \in SigFrame /\ Top = stack[Len(stack)]
      /\ Len(stack) \in Nat /\ stack \in Seq(SigFrame)
      /\ \A i \in Held : i = Len(stack) \/ i < Len(stack)
  BY <1>2, TopHandler
<1>4. ((child = "dead" /\ "CHLD" \notin spend) \/ ByHand) /\ Top.sig = "CHLD"
  BY <1>1, <1>2, <1>3 DEF OneDeath
<1>5. \A i \in Held : i # Len(stack) => ~stack[i].waits
  <2> SUFFICES ASSUME NEW i \in Held, i # Len(stack), stack[i].waits PROVE FALSE
    OBVIOUS
  <2>1. i < Len(stack) /\ stack[i].sig = "CHLD"
    BY <1>1, <1>3 DEF OneDeath
  <2> QED BY <1>1, <1>3, <2>1 DEF Masks, Filling
<1>6. [Top EXCEPT !.waits = FALSE] \in SigFrame /\ [Top EXCEPT !.waits = FALSE].sig = Top.sig
      /\ [Top EXCEPT !.waits = FALSE].saved = Top.saved /\ ~[Top EXCEPT !.waits = FALSE].waits
  BY <1>3 DEF SigFrame
<1>7. stack' = [stack EXCEPT ![Len(stack)] = [Top EXCEPT !.waits = FALSE]]
  BY <1>2, <1>3
<1>8. /\ stack' \in Seq(SigFrame) /\ Len(stack') = Len(stack) /\ Held' = Held
      /\ stack'[Len(stack)] = [Top EXCEPT !.waits = FALSE]
      /\ \A i \in Held : i # Len(stack) => stack'[i] = stack[i]
  <2>1. /\ stack' \in Seq(SigFrame) /\ Len(stack') = Len(stack)
        /\ \A i \in 1 .. Len(stack) : stack'[i] = IF i = Len(stack)
                                                  THEN [Top EXCEPT !.waits = FALSE] ELSE stack[i]
    BY <1>3, <1>6, <1>7, ExceptSeq DEF Held
  <2> QED BY <1>3, <2>1 DEF Held
<1>9. \A i \in Held : /\ stack'[i].sig = stack[i].sig /\ stack'[i].saved = stack[i].saved
                      /\ ~stack'[i].waits
  BY <1>3, <1>5, <1>6, <1>8
<1>10. vain' \in BOOLEAN /\ (vain' => ByHand) /\ child' # "dead" /\ (child' = "none" <=> child = "none")
  <2>1. (vain => ByHand) /\ (child # "dead" => ByHand)
    BY <1>1, <1>4 DEF OneDeath
  <2>2. vain' \in BOOLEAN /\ (vain' => ByHand)
    BY <1>2, <2>1, Zenon
  <2> QED BY <1>2, <2>2
<1>11. SigTypes'
  BY <1>1, <1>2, <1>8, <1>10 DEF SigTypes, HandlerOf
<1>12. Places'
  BY <1>1, <1>2 DEF Places, HandlerOf
<1>13. Masks'
  BY <1>1, <1>2, <1>8, <1>9 DEF Masks
<1>14. OneDeath'
  BY <1>1, <1>2, <1>4, <1>8, <1>9, <1>10 DEF OneDeath, ByHand
<1>15. KilledByDesign'
  BY <1>2 DEF SigInv, KilledByDesign
<1> QED BY <1>11, <1>12, <1>13, <1>14, <1>15 DEF SigInv

LEMMA HandlerReturnInv == ASSUME SigInv, HandlerReturn PROVE SigInv'
<1>1. SigTypes /\ Places /\ Masks /\ OneDeath
  BY DEF SigInv
<1>2. /\ Alive /\ stack # << >> /\ ~Top.waits
      /\ stack' = SubSeq(stack, 1, Len(stack) - 1) /\ smask' = Top.saved
      /\ sat' = IF sat = "pause" /\ Len(stack) = 1 THEN "woken" ELSE sat
      /\ UNCHANGED <<sprog, nodefer, installed, oldmask, spend, child, taker, sended, vain, sent>>
  BY DEF HandlerReturn, InHandler
<1>3. /\ Len(stack) \in Held /\ Top \in SigFrame /\ Top = stack[Len(stack)]
      /\ Len(stack) \in Nat /\ stack \in Seq(SigFrame)
      /\ \A i \in Held : i = Len(stack) \/ i < Len(stack)
  BY <1>2, TopHandler
<1>4. /\ stack' \in Seq(SigFrame) /\ Len(stack') = Len(stack) - 1
      /\ \A i \in 1 .. Len(stack) - 1 : stack'[i] = stack[i]
  <2> DEFINE n == Len(stack) - 1
  <2>1. n \in Int /\ n \in Nat /\ \A i \in 1 .. n : stack[i] \in SigFrame
    BY <1>3 DEF Held
  <2>2. /\ stack' \in Seq(SigFrame) /\ Len(stack') = (IF 1 <= n THEN n - 1 + 1 ELSE 0)
        /\ \A i \in 1 .. n - 1 + 1 : stack'[i] = stack[1 + i - 1]
    <3> HIDE DEF n
    <3>1. stack' = SubSeq(stack, 1, n)
      BY <1>2 DEF n
    <3> QED BY <2>1, <3>1, SubSeqProperties
  <2>3. \A i \in 1 .. n : stack'[i] = stack[i]
    BY <2>1, <2>2
  <2>4. Len(stack') = n
    <3> HIDE DEF n
    <3>1. (IF 1 <= n THEN n - 1 + 1 ELSE 0) = n
      BY <2>1
    <3> QED BY <2>2, <3>1
  <2> QED BY <2>2, <2>3, <2>4
<1>5. Held' \subseteq Held /\ \A i \in Held' : i < Len(stack) /\ stack'[i] = stack[i]
  BY <1>3, <1>4 DEF Held
<1>6. \A i \in Held : i < Len(stack) => i \in Held'
  BY <1>3, <1>4 DEF Held
<1>7. sprog # "sigthread"
  BY <1>1, <1>3 DEF Masks, SigTypes, HandlerOf
<1>8. SigTypes'
  BY <1>1, <1>2, <1>3, <1>4 DEF SigTypes, HandlerOf, SigFrame
<1>9. Places'
  BY <1>1, <1>2, <1>7 DEF Places, HandlerOf
<1>10. Masks'
  <2>1. /\ \A i \in Held' : stack'[i].sig \in installed
        /\ \A i, j \in Held' : i < j => stack'[i].sig \notin Filling
    BY <1>1, <1>5 DEF Masks
  <2>2. \A i \in Held' : stack'[i].sig \notin Filling
    BY <1>1, <1>3, <1>5 DEF Masks
  <2>3. ~nodefer => \A i \in Held' : stack'[i].sig \in smask'
    BY <1>1, <1>2, <1>3, <1>5 DEF Masks
  <2>4. ~nodefer => \A i, j \in Held' : i < j => /\ stack'[i].sig \in stack'[j].saved
                                                  /\ stack'[i].sig # stack'[j].sig
    BY <1>1, <1>5 DEF Masks
  <2> QED BY <1>2, <2>1, <2>2, <2>3, <2>4 DEF Masks
<1>11. OneDeath'
  <2>1. \A i \in Held : stack[i].waits => i \in Held' /\ stack'[i] = stack[i]
    BY <1>2, <1>3, <1>5, <1>6
  <2>2. child = "dead" => "CHLD" \in spend \/ \E i \in Held' : stack'[i].waits
    BY <1>1, <1>2, <2>1 DEF OneDeath
  <2>3. \A i \in Held' : stack'[i].waits =>
          stack'[i].sig = "CHLD" /\ ((child = "dead" /\ "CHLD" \notin spend) \/ ByHand)
    BY <1>1, <1>5 DEF OneDeath
  <2> QED BY <1>1, <1>2, <2>2, <2>3 DEF OneDeath, ByHand
<1>12. KilledByDesign'
  BY <1>2 DEF SigInv, KilledByDesign, Alive, Sig
<1> QED BY <1>8, <1>9, <1>10, <1>11, <1>12 DEF SigInv

\* Steps of main: no handler runs, so masks may change at will.
LEMMA MainInv ==
  ASSUME SigInv, Alive, stack = << >>, UNCHANGED <<sprog, nodefer, stack, spend, vain, sent>>,
         SigTypes', Places', sended' \in {"no", "exit"}, "CHLD" \in installed => "CHLD" \in installed',
         child' # "none" => "CHLD" \in installed' /\ sat' \notin {"install", "fork"},
         child' = child \/ (child = "none" /\ child' \in {"running", "none"})
  PROVE  SigInv'
<1>1. Held = {} /\ Held' = {}
  BY DEF Held
<1>2. Masks'
  BY MasksStay
<1>3. OneDeath'
  <2>1. OneDeath
    BY DEF SigInv
  <2> QED BY <1>1, <2>1 DEF OneDeath, Alive, ByHand
<1>4. KilledByDesign'
  BY DEF KilledByDesign, Sig
<1> QED BY <1>2, <1>3, <1>4 DEF SigInv

LEMMA SigMainInv == ASSUME SigInv, SigMain PROVE SigInv'
<1>1. SigTypes /\ Places /\ OneDeath
  BY DEF SigInv
<1>2. /\ Alive /\ stack = << >> /\ sended = "no"
      /\ UNCHANGED <<sprog, nodefer, stack, spend, vain, sent>>
  BY DEF SigMain, Install, InstallFails, Woken, Block, Look, Unblock, ForkChild, MaskAll,
         CreateThreads, InMain, Then, Alive
<1>3. HandlerOf' = HandlerOf
  BY <1>2 DEF HandlerOf
<1>4. CASE Install
  <2>1. sat = "install" /\ UNCHANGED <<smask, oldmask, child, taker, sended>> /\ child = "none"
    BY <1>1, <1>4 DEF Install, InMain, OneDeath
  <2>2. CASE HandlerOf \subseteq installed
    <3>1. /\ installed' = installed
          /\ sat' = CASE sprog = "pending" -> "block" [] sprog = "sigthread" -> "mask"
                      [] sprog = "nocldstop" -> "fork" [] OTHER -> "pause"
      BY <1>4, <2>2 DEF Install, Then
    <3>2. /\ sprog = "pending" => sat' = "block" 
          /\ sprog = "sigthread" => sat' = "mask"
          /\ sprog = "nocldstop" => sat' = "fork"
          /\ sprog \notin {"pending", "sigthread", "nocldstop"} => sat' = "pause"
      BY <3>1
    <3>3. SigTypes' /\ Places'
      BY <1>1, <1>2, <1>3, <2>1, <2>2, <3>1, <3>2 DEF SigTypes, Places
    <3> QED BY <1>2, <2>1, <3>1, <3>3, MainInv
  <2>3. CASE ~(HandlerOf \subseteq installed)
    <3>1. PICK s \in HandlerOf \ installed : installed' = installed \union {s} /\ sat' = "install"
      BY <1>4, <2>3 DEF Install, Then
    <3>2. SigTypes' /\ Places'
      BY <1>1, <1>2, <1>3, <2>1, <3>1 DEF SigTypes, Places
    <3> QED BY <1>2, <2>1, <3>1, <3>2, MainInv
  <2> QED BY <2>2, <2>3
<1>5. CASE InstallFails
  <2>1. /\ sat = "install" /\ sat' = "install" /\ sended' = "exit"
        /\ UNCHANGED <<installed, smask, oldmask, child, taker>>
    BY <1>5 DEF InstallFails, InMain, Then
  <2>2. SigTypes' /\ Places'
    BY <1>1, <1>2, <1>3, <2>1 DEF SigTypes, Places
  <2> QED BY <1>1, <1>2, <2>1, <2>2, MainInv DEF OneDeath
<1>6. CASE Woken
  <2>1. /\ sat = "woken" /\ sat' = "pause" /\ UNCHANGED <<installed, smask, oldmask, child, taker, sended>>
    BY <1>6 DEF Woken, InMain, Then
  <2>2. SigTypes' /\ Places'
    BY <1>1, <1>2, <1>3, <2>1 DEF SigTypes, Places
  <2> QED BY <1>1, <1>2, <2>1, <2>2, MainInv DEF OneDeath
<1>7. CASE Block \/ Look \/ Unblock
  <2>1. /\ sprog = "pending" /\ sat \in {"block", "look", "unblock"}
        /\ sat' \in {"block", "look", "unblock"}
        /\ UNCHANGED <<installed, child, taker>> /\ sended' \in {"no", "exit"}
    BY <1>1, <1>2, <1>7 DEF Block, Look, Unblock, InMain, Then, Places
  <2>2. smask' \subseteq Sig /\ oldmask' \subseteq Sig
    BY <1>1, <1>7 DEF Block, Look, Unblock, Blocked, SigTypes
  <2>3. SigTypes' /\ Places'
    BY <1>1, <1>2, <1>3, <2>1, <2>2 DEF SigTypes, Places
  <2> QED BY <1>1, <1>2, <2>1, <2>3, MainInv DEF OneDeath
<1>8. CASE ForkChild
  <2>1. /\ sat = "fork" /\ sat' = "pause" /\ sprog = "nocldstop" /\ child' \in {"running", "none"}
        /\ child = "none" /\ "CHLD" \in installed
        /\ UNCHANGED <<installed, smask, oldmask, taker, sended>>
    BY <1>1, <1>8 DEF ForkChild, InMain, Then, Places, OneDeath, HandlerOf
  <2>2. SigTypes' /\ Places'
    BY <1>1, <1>2, <1>3, <2>1 DEF SigTypes, Places
  <2> QED BY <1>2, <2>1, <2>2, MainInv
<1>9. CASE MaskAll
  <2>1. /\ sat = "mask" /\ sat' = "create" /\ smask' = Blocked /\ oldmask' = smask
        /\ UNCHANGED <<installed, child, taker, sended>>
    BY <1>9 DEF MaskAll, InMain, Then
  <2>2. SigTypes' /\ Places'
    BY <1>1, <1>2, <1>3, <2>1 DEF SigTypes, Places, Blocked
  <2> QED BY <1>1, <1>2, <2>1, <2>2, MainInv DEF OneDeath
<1>10. CASE CreateThreads
  <2>1. /\ sat = "create" /\ sat' \in {"create", "join"} /\ sended' \in {"no", "exit"}
        /\ UNCHANGED <<installed, smask, oldmask, child>>
    BY <1>2, <1>10 DEF CreateThreads, InMain, Then
  <2>2. SigTypes' /\ Places'
    BY <1>1, <1>2, <1>3, <2>1 DEF SigTypes, Places, Blocked
  <2> QED BY <1>1, <1>2, <2>1, <2>2, MainInv DEF OneDeath
<1> QED BY <1>4, <1>5, <1>6, <1>7, <1>8, <1>9, <1>10 DEF SigMain

\* Signals that come, and what the signal thread takes.
LEMMA ArriveInv ==
  ASSUME SigInv, Alive, UNCHANGED <<sprog, nodefer, sat, installed, smask, oldmask, stack, vain>>,
         spend' \subseteq Sig, sended' \in {"no", "exit"},
         sent' \in [Sig \union {"STOP"} -> Nat], ByHand => ByHand',
         "RT" \in spend' => "RT" \in spend \/ (sprog = "timer" /\ sat # "install"),
         \/ child' = child /\ ("CHLD" \in spend' <=> "CHLD" \in spend)
         \/ child' = child /\ "CHLD" \in spend' /\ ByHand'
         \/ child \in {"running", "stopped"} /\ child' \in {"running", "stopped"}
            /\ ("CHLD" \in spend' <=> "CHLD" \in spend)
         \/ child \in {"running", "stopped"} /\ child' = "dead" /\ "CHLD" \in spend'
  PROVE  SigInv'
<1>1. SigTypes /\ Places /\ OneDeath
  BY DEF SigInv
<1>2. SigTypes' /\ Places'
  BY <1>1 DEF SigTypes, Places, HandlerOf
<1>3. Masks'
  BY MasksStay
<1>4. OneDeath'
  BY <1>1 DEF OneDeath, Alive, Held
<1>5. KilledByDesign'
  BY DEF KilledByDesign, Sig
<1> QED BY <1>2, <1>3, <1>4, <1>5 DEF SigInv

LEMMA CountOnce ==
  ASSUME sent \in [Sig \union {"STOP"} -> Nat], NEW s \in Sig \union {"STOP"},
         sent' = [sent EXCEPT ![s] = @ + 1]
  PROVE  sent' \in [Sig \union {"STOP"} -> Nat] /\ (ByHand => ByHand') /\ (s = "CHLD" => ByHand')
<1>1. "CHLD" \in Sig \union {"STOP"}
  BY DEF Sig
<1> QED BY <1>1 DEF ByHand

LEMMA OthersInv ==
  ASSUME SigInv,
         \/ \E s \in Sig : SigWait(s) \/ Kill(s)
         \/ Expire \/ ChildStops \/ ChildDies
  PROVE  SigInv'
<1>1. SigTypes /\ Sig = {"USR1", "USR2", "INT", "TERM", "CHLD", "RT"}
  BY DEF SigInv, Sig
<1>2. ASSUME NEW s \in Sig, SigWait(s) PROVE SigInv'
  BY <1>1, <1>2, ArriveInv DEF SigWait, SigTypes, Alive, Waited, ByHand
<1>3. ASSUME NEW s \in Sig, Kill(s) PROVE SigInv'
  <2>1. sent' \in [Sig \union {"STOP"} -> Nat] /\ (ByHand => ByHand') /\ (s = "CHLD" => ByHand')
    BY <1>1, <1>3, CountOnce DEF Kill, SigTypes
  <2> QED BY <1>1, <1>3, <2>1, ArriveInv DEF Kill, SigTypes, Alive
<1>4. CASE Expire
  <2>1. sent' \in [Sig \union {"STOP"} -> Nat] /\ (ByHand => ByHand')
    BY <1>1, <1>4, CountOnce DEF Expire, SigTypes
  <2> QED BY <1>1, <1>4, <2>1, ArriveInv DEF Expire, SigTypes, Alive
<1>5. CASE ChildStops
  <2>1. sent' \in [Sig \union {"STOP"} -> Nat] /\ (ByHand => ByHand')
    BY <1>1, <1>5, CountOnce DEF ChildStops, SigTypes
  <2> QED BY <1>1, <1>5, <2>1, ArriveInv DEF ChildStops, StopSignals, SigTypes, Alive
<1>6. CASE ChildDies
  BY <1>1, <1>6, ArriveInv DEF ChildDies, SigTypes, Alive, ByHand
<1> QED BY <1>2, <1>3, <1>4, <1>5, <1>6

LEMMA SigStepInv == SigInv /\ [SigNext]_sigvars => SigInv'
<1> SUFFICES ASSUME SigInv, [SigNext]_sigvars PROVE SigInv'
  OBVIOUS
<1>1. CASE UNCHANGED sigvars
  BY <1>1 DEF sigvars, SigInv, SigTypes, Places, Masks, OneDeath, KilledByDesign, Held, Alive,
             HandlerOf, ByHand
<1>2. CASE SigNext
  BY <1>2, EnterInv, DefaultInv, WaitChildInv, HandlerReturnInv, SigMainInv, OthersInv
     DEF SigNext, Deliver, Handle, TakeOne
<1> QED BY <1>1, <1>2

\* The handlers of sig_basic.c, sig_siginfo.c, sig_nocldstop.c and rt_timer.c nest only as
\* their masks and flags say, chk_chld finds a dead child unless somebody sent SIGCHLD by
\* hand, and no program dies of a signal it handles or blocks: however signals come, and
\* however many.
THEOREM SignalsCorrect == SigSpec => []SignalsKept
BY SigInitInv, SigStepInv, SigInvSuffices, PTL DEF SigSpec

(***************************************************************************)
(* Echo servers: where the octets of a client are, and what a reset costs. *)
(***************************************************************************)

Octet == Client \X Nat
KidOf == [at : {"none", "accept", "option", "recv", "send", "dead"},
          on : Client \union {NoClient}, buf : Seq(Octet), len : Nat]

PoolTypes ==
  /\ pool \in Pools /\ kid \in [Kid -> KidOf]
  /\ cl \in [Client -> {"out", "queued", "open", "left"}] /\ said \in [Client -> Nat]
  /\ unread \in [Client -> Seq(Octet)] /\ heard \in [Client -> Seq(Octet)]
  /\ reset \in [Client -> BOOLEAN] /\ fd \in [Client -> Kid \union {"none", "closed"}]

\* A session has a client of its own, which stays the client of a child that died in it, and
\* its descriptor unless a failing send has closed it; there is none before main pauses.
Busy(k) == InSession(k) \/ kid[k].at = "dead"
Sessions ==
  /\ pmain # "pause" => \A k \in Kid : kid[k].at = "none"
  /\ \A k \in Kid : Busy(k) => Peer(k) \in Client /\ fd[Peer(k)] \in {k, "closed"}
  /\ \A k \in Kid : kid[k].at = "send" => fd[Peer(k)] = k
  /\ \A k, l \in Kid : Busy(k) /\ Busy(l) /\ Peer(k) = Peer(l) => k = l

Deaths ==
  \A k \in Kid : kid[k].at = "dead" =>
    fd[Peer(k)] = "closed" /\ (cl[Peer(k)] = "left" \/ pool = "timeo")

\* Octets the server has received from client c.
Got(c) == said[c] - Len(unread[c])

Octets ==
  \A c \in Client :
    /\ Got(c) \in Nat /\ \A i \in 1 .. Len(unread[c]) : unread[c][i] = <<c, Got(c) + i>>
    /\ fd[c] = "none" => heard[c] = << >> /\ ~reset[c] /\ Got(c) = 0

\* What the child has received and not echoed are the last octets received, at the beginning
\* of its buffer, and while the client is there and its descriptor open it has heard all others.
Pending(k) == IF kid[k].at = "send" THEN kid[k].len ELSE 0
Echoing(k) ==
  /\ kid[k].at = "send" =>
       /\ kid[k].len <= Len(kid[k].buf)
       /\ \A i \in 1 .. kid[k].len : kid[k].buf[i] = <<Peer(k), Got(Peer(k)) - kid[k].len + i>>
  /\ fd[Peer(k)] = k /\ cl[Peer(k)] # "left" => Len(heard[Peer(k)]) + Pending(k) = Got(Peer(k))
Echoes == \A k \in Kid : InSession(k) => Echoing(k)

\* Only clients that have left are reset, and what is open without a session is of those.
Served == {Peer(k) : k \in {q \in Kid : InSession(q)}}
Costs ==
  \A c \in Client : (fd[c] \in Kid /\ c \notin Served => reset[c]) /\ (reset[c] => cl[c] = "left")

EchoInv == PoolTypes /\ Sessions /\ Deaths /\ Octets /\ Echoes /\ Costs /\ EchoInOrder

LEMMA ServedHas == \A c : c \in Served <=> \E k \in Kid : InSession(k) /\ Peer(k) = c
BY DEF Served

LEMMA ServedHasNext == \A c : c \in Served' <=> \E k \in Kid : InSession(k)' /\ Peer(k)' = c
BY DEF Served

\* A child that stays where it is, with a client that neither sends nor hears.
LEMMA EchoingStays ==
  ASSUME NEW l \in Kid, Echoing(l), kid'[l] = kid[l], Got(Peer(l))' = Got(Peer(l)),
         heard'[Peer(l)] = heard[Peer(l)], fd'[Peer(l)] = l => fd[Peer(l)] = l,
         cl[Peer(l)] = "left" => cl'[Peer(l)] = "left"
  PROVE  Echoing(l)'
BY DEF Echoing, Peer, Pending, Got

LEMMA PoolInitInv == PoolInit => EchoInv
<1> SUFFICES ASSUME PoolInit PROVE EchoInv
  OBVIOUS
<1>1. PICK g \in Pools : PoolAt(g, "socket")
  BY DEF PoolInit
<1>2. \A k \in Kid : kid[k] = NewKid("none")
  BY <1>1 DEF PoolAt
<1>3. /\ \A k \in Kid : kid[k].at = "none" /\ ~InSession(k)
      /\ kid \in [Kid -> KidOf]
  BY <1>1, <1>2 DEF PoolAt, NewKid, InSession, KidOf
<1>4. PoolTypes
  BY <1>1, <1>3 DEF PoolAt, PoolTypes
<1>5. Sessions /\ Deaths /\ Echoes
  BY <1>3 DEF Sessions, Deaths, Busy, Echoes
<1>6. \A c \in Client : Got(c) = 0 /\ unread[c] = << >> /\ heard[c] = << >> /\ ~reset[c]
                        /\ fd[c] = "none" /\ said[c] = 0
  BY <1>1 DEF PoolAt, Got
<1>7. Octets
  BY <1>6 DEF Octets
<1>8. Costs
  BY <1>6, EchoAssumption DEF Costs
<1>9. EchoInOrder
  BY <1>6 DEF EchoInOrder
<1> QED BY <1>4, <1>5, <1>7, <1>8, <1>9 DEF EchoInv

\* main sets up; until it pauses there are no sessions.
LEMMA PoolStepMain ==
  ASSUME EchoInv, PoolMain
  PROVE  EchoInv'
<1> USE DEF EchoInv
<1>1. \/ ForkPool
      \/ /\ pmain # "pause" /\ pmain' # "pause"
         /\ UNCHANGED <<pool, kid, cl, said, unread, heard, reset, fd>>
  BY DEF PoolMain, serv1_main, serv2_main, serv3_main, unix_main, oob_main, reuse_main,
         timeo_main, Socket, SetSockOpt, RemovePath, Bind, Main
<1>2. CASE ForkPool
  <2>1. /\ UNCHANGED <<pool, cl, said, unread, heard, reset, fd>> /\ pmain' = "pause"
        /\ \A k \in Kid : kid[k].at = "none"
    BY <1>2 DEF ForkPool, Sessions
  <2>2. PICK forked \in SUBSET Kid :
          kid' = [k \in Kid |-> IF k \in forked THEN NewKid("accept") ELSE kid[k]]
    BY <1>2 DEF ForkPool
  <2>3. /\ NewKid("accept") \in KidOf
        /\ NewKid("accept").at = "accept"
    BY DEF NewKid, KidOf
  <2>4. PoolTypes' /\ \A k \in Kid : kid'[k].at \in {"none", "accept"}
    BY <2>1, <2>2, <2>3 DEF PoolTypes
  <2>5. \A k \in Kid : ~InSession(k) /\ ~InSession(k)'
    BY <2>1, <2>4 DEF InSession
  <2>6. Served = {} /\ Served' = {}
    BY <2>5 DEF Served
  <2>7. Sessions' /\ Deaths' /\ Echoes'
    BY <2>1, <2>4, <2>5 DEF Sessions, Deaths, Busy, Echoes
  <2>8. Octets' /\ EchoInOrder'
    BY <2>1 DEF Octets, Got, EchoInOrder
  <2>9. Costs'
    BY <2>1, <2>6 DEF Costs
  <2> QED BY <2>4, <2>7, <2>8, <2>9
<1>3. CASE /\ pmain # "pause" /\ pmain' # "pause"
           /\ UNCHANGED <<pool, kid, cl, said, unread, heard, reset, fd>>
  <2>1. \A k \in Kid : InSession(k)' = InSession(k) /\ Peer(k)' = Peer(k)
    BY <1>3 DEF InSession, Peer
  <2>2. Served' = Served
    BY <1>3 DEF Served, InSession, Peer
  <2>3. PoolTypes' /\ Sessions' /\ Deaths'
    BY <1>3 DEF PoolTypes, Sessions, Deaths, Busy, InSession, Peer
  <2>4. Echoes'
    BY <1>3 DEF Echoes, Echoing, InSession, Peer, Got, Pending
  <2>5. Octets' /\ EchoInOrder'
    BY <1>3 DEF Octets, Got, EchoInOrder
  <2>6. Costs'
    BY <1>3, <2>2 DEF Costs
  <2> QED BY <2>3, <2>4, <2>5, <2>6
<1> QED BY <1>1, <1>2, <1>3

LEMMA GotoShape ==
  ASSUME PoolTypes, NEW k \in Kid, NEW a \in {"none", "accept", "option", "recv", "send", "dead"},
         Goto(k, a)
  PROVE  /\ kid' \in [Kid -> KidOf]
         /\ kid'[k].at = a /\ kid'[k].on = kid[k].on /\ kid'[k].buf = kid[k].buf
         /\ kid'[k].len = kid[k].len /\ \A l \in Kid \ {k} : kid'[l] = kid[l]
BY DEF PoolTypes, Goto, KidOf

\* A child ends its session: recv has returned 0 or has failed.
LEMMA PoolStepEnd ==
  ASSUME EchoInv, NEW k \in Kid, RecvEof(k) \/ RecvError(k) \/ RecvClosed(k)
  PROVE  EchoInv'
<1> USE DEF EchoInv
<1> DEFINE c == Peer(k)
<1>1. /\ kid[k].at = "recv" /\ Goto(k, "accept")
      /\ UNCHANGED <<pool, pmain, cl, said, unread, heard, reset>>
  BY DEF RecvEof, RecvError, RecvClosed, AfterError
<1>2. InSession(k) /\ Busy(k) /\ c \in Client /\ fd[c] \in {k, "closed"}
  BY <1>1 DEF InSession, Busy, Sessions
<1>3. /\ kid' \in [Kid -> KidOf]
      /\ kid'[k].at = "accept" /\ \A l \in Kid \ {k} : kid'[l] = kid[l]
  BY <1>1, GotoShape
<1>4. fd' = fd \/ fd' = [fd EXCEPT ![c] = "closed"]
  BY DEF RecvEof, RecvError, RecvClosed
<1>5. /\ fd' \in [Client -> Kid \union {"none", "closed"}]
      /\ \A d \in Client \ {c} : fd'[d] = fd[d]
      /\ fd'[c] = fd[c] \/ fd'[c] = "closed"
      /\ fd'[c] \in Kid => reset[c]
  <2>1. /\ fd' \in [Client -> Kid \union {"none", "closed"}]
        /\ \A d \in Client \ {c} : fd'[d] = fd[d]
        /\ fd'[c] = fd[c] \/ fd'[c] = "closed"
    BY <1>2, <1>4 DEF PoolTypes
  <2>2. fd'[c] \in Kid => reset[c]
    <3>1. CASE RecvEof(k)
      BY <1>2, <3>1, EchoAssumption DEF RecvEof, PoolTypes
    <3>2. CASE RecvError(k)
      BY <3>2 DEF RecvError
    <3>3. CASE RecvClosed(k)
      BY <1>2, <3>3, EchoAssumption DEF RecvClosed
    <3> QED BY <3>1, <3>2, <3>3
  <2> QED BY <2>1, <2>2
<1> HIDE DEF c
<1>6. PoolTypes'
  BY <1>1, <1>3, <1>5 DEF PoolTypes
<1>7. /\ ~InSession(k)' /\ ~Busy(k)'
      /\ \A l \in Kid \ {k} : (InSession(l)' <=> InSession(l)) /\ Peer(l)' = Peer(l)
                              /\ (Busy(l)' <=> Busy(l))
      /\ \A l \in Kid \ {k} : Busy(l) => Peer(l) # c /\ Peer(l) \in Client
  <2>1. \A l \in Kid \ {k} : Busy(l) => Peer(l) # c /\ Peer(l) \in Client
    BY <1>2 DEF Sessions, c
  <2> QED BY <1>3, <2>1 DEF InSession, Busy, Peer
<1>8. Sessions' /\ Deaths'
  <2>1. pmain' # "pause" => \A l \in Kid : kid'[l].at = "none"
    BY <1>1, <1>3 DEF Sessions
  <2>2. \A l \in Kid : Busy(l)' => Peer(l)' \in Client /\ fd'[Peer(l)'] \in {l, "closed"}
    BY <1>1, <1>5, <1>7 DEF Sessions
  <2>3. \A m, l \in Kid : Busy(m)' /\ Busy(l)' /\ Peer(m)' = Peer(l)' => m = l
    BY <1>7 DEF Sessions
  <2>4. \A l \in Kid : kid'[l].at = "send" => fd'[Peer(l)'] = l
    <3> SUFFICES ASSUME NEW l \in Kid, kid'[l].at = "send" PROVE fd'[Peer(l)'] = l
      OBVIOUS
    <3>1. l # k /\ kid[l].at = "send" /\ Busy(l)
      BY <1>3 DEF Busy, InSession
    <3> QED BY <1>5, <1>7, <3>1 DEF Sessions
  <2>5. Deaths'
    <3> SUFFICES ASSUME NEW l \in Kid, kid'[l].at = "dead"
                 PROVE  fd'[Peer(l)'] = "closed" /\ (cl'[Peer(l)'] = "left" \/ pool' = "timeo")
      BY DEF Deaths
    <3>1. l # k /\ kid[l].at = "dead" /\ Busy(l)
      BY <1>3 DEF Busy
    <3> QED BY <1>1, <1>5, <1>7, <3>1 DEF Deaths
  <2> QED BY <2>1, <2>2, <2>3, <2>4, <2>5 DEF Sessions
<1>9. Octets' /\ EchoInOrder'
  <2>1. \A d \in Client : fd'[d] = "none" => fd[d] = "none"
    BY <1>5
  <2> QED BY <1>1, <2>1 DEF Octets, Got, EchoInOrder
<1>10. Echoes'
  <2> SUFFICES ASSUME NEW l \in Kid, InSession(l)' PROVE Echoing(l)'
    BY DEF Echoes
  <2>1. l # k /\ InSession(l) /\ Echoing(l) /\ kid'[l] = kid[l]
    BY <1>3, <1>7 DEF Echoes
  <2>2. Got(Peer(l))' = Got(Peer(l))
    BY <1>1, <2>1 DEF Got, Peer
  <2>3. Peer(l) # c /\ Peer(l) \in Client
    BY <1>7, <2>1 DEF Busy
  <2> QED BY <1>1, <1>5, <2>1, <2>2, <2>3, EchoingStays
<1>11. Costs'
  <2>1. \A d : d \in Served' <=> d \in Served /\ d # c
    <3>1. \A d : d \in Served <=> \E l \in Kid : InSession(l) /\ Peer(l) = d
      BY ServedHas
    <3>2. \A d : d \in Served' <=> \E l \in Kid : InSession(l)' /\ Peer(l)' = d
      BY ServedHasNext
    <3>3. Peer(k) = c
      BY DEF c
    <3> QED BY <1>7, <3>1, <3>2, <3>3 DEF Busy
  <2>2. \A d \in Client : fd'[d] \in Kid /\ d \notin Served' => reset'[d]
    BY <1>1, <1>5, <2>1 DEF Costs
  <2> QED BY <1>1, <2>2 DEF Costs
<1> QED BY <1>6, <1>8, <1>9, <1>10, <1>11

\* accept: a client that has no descriptor yet gets a session.
LEMMA PoolStepAccept ==
  ASSUME EchoInv, NEW k \in Kid, Accept(k)
  PROVE  EchoInv'
<1> USE DEF EchoInv
<1>1. PICK c \in Client :
       /\ cl[c] \in {"queued", "left"} /\ fd[c] = "none"
       /\ fd' = [fd EXCEPT ![c] = k]
       /\ cl' = [cl EXCEPT ![c] = IF @ = "left" THEN @ ELSE "open"]
       /\ kid' = [kid EXCEPT ![k].at = FirstPlace, ![k].on = c]
  BY DEF Accept
<1>2. kid[k].at = "accept" /\ UNCHANGED <<pool, pmain, said, unread, heard, reset>>
  BY DEF Accept
<1>3. PICK a \in {"option", "recv"} : a = FirstPlace
  BY DEF FirstPlace
<1>4. /\ kid' \in [Kid -> KidOf]
      /\ kid'[k].at = a /\ kid'[k].on = c /\ \A l \in Kid \ {k} : kid'[l] = kid[l]
  <2>1. kid[k] \in KidOf /\ kid = [l \in Kid |-> kid[l]]
    BY DEF PoolTypes
  <2>2. PICK e : e = [kid[k] EXCEPT !.at = a, !.on = c]
    OBVIOUS
  <2>3. e \in KidOf /\ e.at = a /\ e.on = c
    BY <2>1, <2>2 DEF KidOf
  <2>4. kid' = [kid EXCEPT ![k] = e]
    BY <1>1, <1>3, <2>1, <2>2
  <2> QED BY <2>3, <2>4 DEF PoolTypes
<1>5. /\ fd' \in [Client -> Kid \union {"none", "closed"}] /\ fd'[c] = k
      /\ \A d \in Client \ {c} : fd'[d] = fd[d]
      /\ cl' \in [Client -> {"out", "queued", "open", "left"}]
      /\ \A d \in Client : cl'[d] = "left" <=> cl[d] = "left"
  BY <1>1 DEF PoolTypes
<1>6. PoolTypes'
  BY <1>2, <1>4, <1>5 DEF PoolTypes
<1>7. /\ ~InSession(k) /\ ~Busy(k) /\ InSession(k)' /\ Busy(k)' /\ Peer(k)' = c
      /\ \A l \in Kid \ {k} : (InSession(l)' <=> InSession(l)) /\ Peer(l)' = Peer(l)
                              /\ (Busy(l)' <=> Busy(l))
      /\ \A l \in Kid : Busy(l) => Peer(l) # c /\ Peer(l) \in Client
  <2>1. \A l \in Kid : Busy(l) => Peer(l) # c /\ Peer(l) \in Client
    BY <1>1, EchoAssumption DEF Sessions
  <2> QED BY <1>2, <1>4, <2>1 DEF InSession, Busy, Peer
<1>8. Sessions' /\ Deaths'
  <2>1. pmain' # "pause" => \A l \in Kid : kid'[l].at = "none"
    BY <1>2, <1>4 DEF Sessions
  <2>2. \A l \in Kid : Busy(l)' => Peer(l)' \in Client /\ fd'[Peer(l)'] \in {l, "closed"}
    BY <1>2, <1>5, <1>7 DEF Sessions
  <2>3. \A m, l \in Kid : Busy(m)' /\ Busy(l)' /\ Peer(m)' = Peer(l)' => m = l
    BY <1>7 DEF Sessions
  <2>4. \A l \in Kid : kid'[l].at = "send" => fd'[Peer(l)'] = l
    <3> SUFFICES ASSUME NEW l \in Kid, kid'[l].at = "send" PROVE fd'[Peer(l)'] = l
      OBVIOUS
    <3>1. l # k /\ kid[l].at = "send" /\ Busy(l)
      BY <1>4 DEF Busy, InSession
    <3> QED BY <1>5, <1>7, <3>1 DEF Sessions
  <2>5. Deaths'
    <3> SUFFICES ASSUME NEW l \in Kid, kid'[l].at = "dead"
                 PROVE  fd'[Peer(l)'] = "closed" /\ (cl'[Peer(l)'] = "left" \/ pool' = "timeo")
      BY DEF Deaths
    <3>1. l # k /\ kid[l].at = "dead" /\ Busy(l)
      BY <1>4 DEF Busy
    <3> QED BY <1>2, <1>5, <1>7, <3>1 DEF Deaths
  <2> QED BY <2>1, <2>2, <2>3, <2>4, <2>5 DEF Sessions
<1>9. Octets' /\ EchoInOrder'
  <2>1. \A d \in Client : fd'[d] = "none" => fd[d] = "none"
    BY <1>1, <1>5
  <2> QED BY <1>2, <2>1 DEF Octets, Got, EchoInOrder
<1>10. Echoes'
  <2> SUFFICES ASSUME NEW l \in Kid, InSession(l)' PROVE Echoing(l)'
    BY DEF Echoes
  <2>1. CASE l = k
    <3>1. Got(c) = 0 /\ heard[c] = << >>
      BY <1>1 DEF Octets
    <3>2. Got(Peer(k))' = 0 /\ heard'[Peer(k)'] = << >> /\ Pending(k)' = 0
      BY <1>2, <1>4, <1>7, <3>1 DEF Got, Pending
    <3> QED BY <1>4, <2>1, <3>2 DEF Echoing
  <2>2. CASE l # k
    <3>1. InSession(l) /\ Echoing(l) /\ kid'[l] = kid[l] /\ Peer(l) \in Client /\ Peer(l) # c
      BY <1>4, <1>7, <2>2 DEF Echoes, Busy
    <3>2. Got(Peer(l))' = Got(Peer(l))
      BY <1>2, <3>1 DEF Got, Peer
    <3> QED BY <1>2, <1>5, <3>1, <3>2, EchoingStays
  <2> QED BY <2>1, <2>2
<1>11. Costs'
  <2>1. \A d : d \in Served' <=> d \in Served \/ d = c
    <3>1. \A d : d \in Served <=> \E l \in Kid : InSession(l) /\ Peer(l) = d
      BY ServedHas
    <3>2. \A d : d \in Served' <=> \E l \in Kid : InSession(l)' /\ Peer(l)' = d
      BY ServedHasNext
    <3> QED BY <1>7, <3>1, <3>2
  <2>2. \A d \in Client : fd'[d] \in Kid /\ d \notin Served' => reset'[d]
    BY <1>2, <1>5, <2>1 DEF Costs
  <2> QED BY <1>2, <1>5, <2>2 DEF Costs
<1> QED BY <1>6, <1>8, <1>9, <1>10, <1>11

\* Steps of a child that keeps its session.
LEMMA SessionsStay ==
  ASSUME EchoInv, NEW k \in Kid, InSession(k), InSession(k)', Peer(k)' = Peer(k),
         \A l \in Kid \ {k} : kid'[l] = kid[l], UNCHANGED <<pool, pmain, cl>>,
         \A d \in Client : reset[d] => reset'[d],
         \A d \in Client : reset'[d] => reset[d] \/ cl[d] = "left",
         \A d \in Client \ {Peer(k)} : fd'[d] = fd[d],
         fd'[Peer(k)] \in {fd[Peer(k)], "closed"},
         kid'[k].at = "send" => fd'[Peer(k)] = k
  PROVE  Sessions' /\ Deaths' /\ Costs'
<1>1. /\ \A l \in Kid : (InSession(l)' <=> InSession(l)) /\ Peer(l)' = Peer(l)
                        /\ (Busy(l)' <=> Busy(l))
      /\ \A l \in Kid : Busy(l) => Peer(l) \in Client
      /\ \A l \in Kid \ {k} : Busy(l) => Peer(l) # Peer(k)
  <2>1. \A l \in Kid \ {k} : (InSession(l)' <=> InSession(l)) /\ Peer(l)' = Peer(l)
                             /\ (Busy(l)' <=> Busy(l))
    BY DEF InSession, Busy, Peer
  <2>2. Busy(k) /\ Busy(k)'
    BY DEF Busy
  <2> QED BY <2>1, <2>2 DEF EchoInv, Sessions
<1>2. Sessions'
  <2>1. pmain' = "pause"
    BY DEF EchoInv, Sessions, InSession
  <2>2. \A l \in Kid : Busy(l)' => Peer(l)' \in Client /\ fd'[Peer(l)'] \in {l, "closed"}
    <3> SUFFICES ASSUME NEW l \in Kid, Busy(l)
                 PROVE  fd'[Peer(l)] \in {l, "closed"}
      BY <1>1
    <3>1. Peer(l) \in Client /\ fd[Peer(l)] \in {l, "closed"}
      BY DEF EchoInv, Sessions
    <3>2. CASE l = k
      BY <3>1, <3>2
    <3>3. CASE l # k
      BY <1>1, <3>1, <3>3
    <3> QED BY <3>2, <3>3
  <2>3. \A m, l \in Kid : Busy(m)' /\ Busy(l)' /\ Peer(m)' = Peer(l)' => m = l
    BY <1>1 DEF EchoInv, Sessions
  <2>4. ASSUME NEW l \in Kid, kid'[l].at = "send" PROVE fd'[Peer(l)'] = l
    <3>1. CASE l = k
      BY <2>4, <3>1
    <3>2. CASE l # k
      <4>1. kid[l].at = "send" /\ Busy(l) /\ fd[Peer(l)] = l
        BY <2>4, <3>2 DEF Busy, InSession, EchoInv, Sessions
      <4> QED BY <1>1, <3>2, <4>1
    <3> QED BY <3>1, <3>2
  <2> QED BY <2>1, <2>2, <2>3, <2>4 DEF Sessions
<1>3. Deaths'
  <2> SUFFICES ASSUME NEW l \in Kid, kid'[l].at = "dead"
               PROVE  fd'[Peer(l)'] = "closed" /\ (cl'[Peer(l)'] = "left" \/ pool' = "timeo")
    BY DEF Deaths
  <2>1. l # k
    BY DEF InSession
  <2>2. kid[l].at = "dead" /\ Busy(l) /\ Peer(l)' = Peer(l) /\ Peer(l) # Peer(k) /\ Peer(l) \in Client
    BY <1>1, <2>1 DEF Busy
  <2> QED BY <2>2 DEF EchoInv, Deaths
<1>4. Served' = Served
  BY <1>1 DEF Served
<1>5. Peer(k) \in Served /\ Peer(k) \in Client
  BY <1>1, ServedHas DEF Busy
<1>6. Costs'
  BY <1>4, <1>5 DEF EchoInv, Costs
<1> QED BY <1>2, <1>3, <1>6

LEMMA PoolStepRecv ==
  ASSUME EchoInv, NEW k \in Kid, Recv(k)
  PROVE  EchoInv'
<1> USE DEF EchoInv
<1>c. PICK c \in Client : c = Peer(k)
  BY DEF Recv, InSession, Busy, Sessions
<1> DEFINE u == unread[c]
           n == IF Len(u) < BufLen THEN Len(u) ELSE BufLen
           b == kid[k].buf
           nb == SubSeq(u, 1, n) \o SubSeq(b, n + 1, Len(b))
           nu == SubSeq(u, n + 1, Len(u))
<1>1. /\ kid[k].at = "recv" /\ fd[c] = k /\ n > 0
      /\ kid' = [kid EXCEPT ![k].at = "send", ![k].len = n, ![k].buf = nb]
      /\ unread' = [unread EXCEPT ![c] = nu]
      /\ UNCHANGED <<pool, pmain, cl, said, heard, reset, fd>>
  BY <1>c DEF Recv
<1>2. InSession(k) /\ c \in Client
  BY <1>1 DEF InSession
<1>3. u \in Seq(Octet) /\ b \in Seq(Octet) /\ Len(u) \in Nat /\ Len(b) \in Nat
  BY <1>2 DEF PoolTypes, KidOf
<1>4. /\ said[c] \in Nat /\ Got(c) = said[c] - Len(u) /\ Got(c) \in Nat
      /\ \A i \in 1 .. Len(u) : u[i] = <<c, Got(c) + i>>
  BY <1>2 DEF Octets, Got, PoolTypes
<1> HIDE DEF u, b
<1>5. n \in 1 .. Len(u)
  BY <1>1, <1>3, EchoAssumption
<1> HIDE DEF n
<1>6. nu \in Seq(Octet) /\ Len(nu) = Len(u) - n /\ \A i \in 1 .. Len(u) - n : nu[i] = u[n + i]
  <2>1. n + 1 \in 1 .. Len(u) + 1 /\ n \in Nat
    BY <1>3, <1>5
  <2>2. /\ nu \in Seq(Octet) /\ Len(nu) = IF n + 1 <= Len(u) THEN Len(u) - (n + 1) + 1 ELSE 0
        /\ \A i \in 1 .. Len(u) - (n + 1) + 1 : nu[i] = u[(n + 1) + i - 1]
    BY <1>3, <2>1, SubSeqProperties
  <2> HIDE DEF nu
  <2>3. Len(nu) = Len(u) - n
    BY <1>3, <1>5, <2>2
  <2>4. ASSUME NEW i \in 1 .. Len(u) - n  PROVE nu[i] = u[n + i]
    <3>1. i \in 1 .. Len(u) - (n + 1) + 1 /\ (n + 1) + i - 1 = n + i
      BY <1>3, <2>1
    <3>2. nu[i] = u[(n + 1) + i - 1]
      BY <2>2, <3>1
    <3> QED BY <3>1, <3>2
  <2> QED BY <2>2, <2>3, <2>4
<1>7. nb \in Seq(Octet) /\ Len(nb) >= n /\ \A i \in 1 .. n : nb[i] = u[i]
  <2> DEFINE x == SubSeq(u, 1, n)
             y == SubSeq(b, n + 1, Len(b))
  <2>1. x \in Seq(Octet) /\ Len(x) = n /\ \A i \in 1 .. n : x[i] = u[i]
    BY <1>3, <1>5
  <2>2. y \in Seq(Octet) /\ Len(y) \in Nat
    BY <1>3, <1>5
  <2> HIDE DEF x, y
  <2>3. x \o y \in Seq(Octet) /\ Len(x \o y) = Len(x) + Len(y)
    BY <2>1, <2>2, ConcatProperties
  <2>4. \A i \in 1 .. n : (x \o y)[i] = x[i]
    BY <2>1, <2>2, ConcatProperties
  <2> QED BY <1>5, <2>1, <2>2, <2>3, <2>4 DEF x, y
<1> HIDE DEF nb, nu
<1>8. /\ kid' \in [Kid -> KidOf]
      /\ kid'[k].at = "send" /\ kid'[k].on = kid[k].on /\ kid'[k].buf = nb /\ kid'[k].len = n
      /\ \A l \in Kid \ {k} : kid'[l] = kid[l]
  <2>1. n \in Nat
    BY <1>3, <1>5
  <2>2. kid[k] \in KidOf
        /\ kid = [l \in Kid |-> kid[l]]
    BY DEF PoolTypes
  <2>3. PICK e : e = [kid[k] EXCEPT !.at = "send", !.len = n, !.buf = nb]
    OBVIOUS
  <2>4. /\ e \in KidOf
        /\ e.at = "send" /\ e.on = kid[k].on /\ e.buf = nb /\ e.len = n
    BY <1>7, <2>1, <2>2, <2>3 DEF KidOf
  <2>5. kid' = [kid EXCEPT ![k] = e]
    BY <1>1, <2>2, <2>3
  <2> QED BY <2>4, <2>5 DEF PoolTypes
<1>9. /\ unread' \in [Client -> Seq(Octet)] /\ unread'[c] = nu
      /\ \A d \in Client \ {c} : unread'[d] = unread[d]
  BY <1>1, <1>2, <1>6 DEF PoolTypes
<1>10. PoolTypes'
  BY <1>1, <1>8, <1>9 DEF PoolTypes
<1>11. InSession(k)' /\ Peer(k)' = c /\ Peer(k) = c
  BY <1>c, <1>8 DEF InSession, Peer
<1>12. Sessions' /\ Deaths' /\ Costs'
  BY <1>1, <1>2, <1>8, <1>11, SessionsStay
<1>13. /\ Got(c)' = Got(c) + n /\ \A d \in Client \ {c} : Got(d)' = Got(d)
  BY <1>1, <1>2, <1>4, <1>5, <1>6, <1>9 DEF Got
<1>14. Octets'
  <2> SUFFICES ASSUME NEW d \in Client
               PROVE  /\ Got(d)' \in Nat /\ \A i \in 1 .. Len(unread'[d]) : unread'[d][i] = <<d, Got(d)' + i>>
                      /\ fd'[d] = "none" => heard'[d] = << >> /\ ~reset'[d] /\ Got(d)' = 0
    BY DEF Octets
  <2>1. CASE d = c
    <3>1. fd[c] # "none"
      BY <1>1, EchoAssumption
    <3>2. Got(c)' \in Nat
      BY <1>4, <1>5, <1>13
    <3>3. ASSUME NEW i \in 1 .. Len(nu) PROVE nu[i] = <<c, Got(c) + n + i>>
      <4>1. n + i \in 1 .. Len(u) /\ nu[i] = u[n + i]
        <5>1. i \in 1 .. Len(u) - n
          BY <1>6
        <5>2. n + i \in 1 .. Len(u)
          BY <5>1, <1>3, <1>5
        <5> QED BY <5>1, <5>2, <1>6
      <4>2. nu[i] = <<c, Got(c) + (n + i)>> /\ Got(c) + (n + i) = Got(c) + n + i
        <5>1. nu[i] = <<c, Got(c) + (n + i)>>
          BY <1>4, <4>1
        <5>2. i \in Int /\ n \in Int /\ Got(c) \in Int
          BY <1>4, <1>5
        <5>3. Got(c) + (n + i) = Got(c) + n + i
          BY <5>2
        <5> QED BY <5>1, <5>3
      <4> QED BY <4>2
    <3> QED BY <1>1, <1>9, <1>13, <2>1, <3>1, <3>2, <3>3
  <2>2. CASE d # c
    BY <1>1, <1>9, <1>13, <2>2 DEF Octets
  <2> QED BY <2>1, <2>2
<1>15. Echoes'
  <2> SUFFICES ASSUME NEW l \in Kid, InSession(l)' PROVE Echoing(l)'
    BY DEF Echoes
  <2>1. CASE l = k
    <3>1. kid'[k].len <= Len(kid'[k].buf)
      BY <1>3, <1>5, <1>7, <1>8
    <3>2. ASSUME NEW i \in 1 .. n PROVE nb[i] = <<c, Got(c) + i>>
      <4>1. i \in 1 .. Len(u) /\ nb[i] = u[i]
        BY <1>3, <1>5, <1>7
      <4> QED BY <1>4, <4>1
    <3>3. cl[c] # "left" => Len(heard[c]) + n = Got(c) + n
      <4>1. cl[c] # "left" => Len(heard[c]) + 0 = Got(c)
        BY <1>1, <1>2, <1>11 DEF Echoes, Echoing, Pending
      <4>2. Len(heard[c]) \in Nat
        BY <1>2 DEF PoolTypes
      <4> QED BY <1>4, <1>5, <4>1, <4>2
    <3>4. Got(Peer(k))' = Got(c) + n /\ Pending(k)' = n
      BY <1>8, <1>11, <1>13 DEF Pending, Got
    <3>5. ASSUME NEW i \in 1 .. kid'[k].len
          PROVE  kid'[k].buf[i] = <<Peer(k)', Got(Peer(k))' - kid'[k].len + i>>
      <4>1. kid'[k].len = n /\ kid'[k].buf = nb /\ i \in 1 .. n
        BY <1>8
      <4>2. nb[i] = <<c, Got(c) + i>>
        BY <3>2, <4>1
      <4>3. Got(Peer(k))' - kid'[k].len + i = Got(c) + i
        BY <1>4, <1>5, <3>4, <4>1
      <4> QED BY <1>11, <4>1, <4>2, <4>3
    <3>6. fd'[Peer(k)'] = k /\ cl'[Peer(k)'] # "left" =>
            Len(heard'[Peer(k)']) + Pending(k)' = Got(Peer(k))'
      BY <1>1, <1>11, <3>3, <3>4
    <3> QED BY <2>1, <3>1, <3>5, <3>6 DEF Echoing
  <2>2. CASE l # k
    <3>1. InSession(l) /\ Echoing(l) /\ kid'[l] = kid[l] /\ Peer(l) \in Client /\ Peer(l)' = Peer(l)
      BY <1>8, <2>2 DEF Echoes, InSession, Busy, Sessions, Peer
    <3>2. Peer(l) # c
      BY <1>2, <1>11, <2>2, <3>1 DEF Sessions, Busy
    <3>3. Got(Peer(l))' = Got(Peer(l))
      BY <1>1, <1>9, <3>1, <3>2 DEF Got
    <3> QED BY <1>1, <3>1, <3>3, EchoingStays
  <2> QED BY <2>1, <2>2
<1>16. EchoInOrder'
  BY <1>1 DEF EchoInOrder
<1> QED BY <1>10, <1>12, <1>14, <1>15, <1>16

\* The octets of one client, counted from 1.
LEMMA CountsFromOne ==
  ASSUME NEW c, NEW s \in Seq(Octet), \A i \in 1 .. Len(s) : s[i] = <<c, i>>
  PROVE  s = [i \in 1 .. Len(s) |-> <<c, i>>]
<1>1. s = [i \in 1 .. Len(s) |-> s[i]]
  OBVIOUS
<1> QED BY <1>1

\* Steps of a child that goes on to recv: the option is set, or an echo was sent or failed.
LEMMA PoolStepOn ==
  ASSUME EchoInv, NEW k \in Kid, SetTimeout(k) \/ Send(k) \/ SendFails(k)
  PROVE  EchoInv'
<1> USE DEF EchoInv
<1>1. PICK c \in Client : c = Peer(k)
  BY DEF SetTimeout, Send, SendFails, InSession, Busy, Sessions
<1>2. /\ InSession(k) /\ Goto(k, "recv") /\ UNCHANGED <<pool, pmain, cl, said, unread>>
  BY DEF SetTimeout, Send, SendFails, InSession
<1>3. /\ kid' \in [Kid -> KidOf]
      /\ kid'[k].at = "recv" /\ kid'[k].on = kid[k].on
      /\ \A l \in Kid \ {k} : kid'[l] = kid[l]
  BY <1>2, GotoShape
<1>4. InSession(k)' /\ Peer(k)' = c
  BY <1>1, <1>3 DEF InSession, Peer
<1>5. /\ fd' \in [Client -> Kid \union {"none", "closed"}] /\ reset' \in [Client -> BOOLEAN]
      /\ \A d \in Client : reset[d] => reset'[d]
      /\ \A d \in Client : reset'[d] => reset[d] \/ cl[d] = "left"
      /\ \A d \in Client \ {c} : fd'[d] = fd[d] /\ reset'[d] = reset[d]
      /\ fd'[c] \in {fd[c], "closed"}
  <2>1. CASE SetTimeout(k)
    BY <2>1 DEF SetTimeout, PoolTypes
  <2>2. CASE Send(k)
    <3>1. fd' = fd /\ ~reset[c] /\ reset' = [reset EXCEPT ![c] = cl[c] = "left"]
      BY <1>1, <2>2 DEF Send, Broken
    <3> QED BY <3>1 DEF PoolTypes
  <2>3. CASE SendFails(k)
    BY <1>1, <2>3 DEF SendFails, PoolTypes
  <2> QED BY <2>1, <2>2, <2>3
<1>6. Sessions' /\ Deaths' /\ Costs'
  BY <1>1, <1>2, <1>3, <1>4, <1>5, SessionsStay
<1>7. \A d \in Client : Got(d)' = Got(d)
  BY <1>2 DEF Got
<1>8. fd[c] # "none" /\ fd'[c] # "none"
  BY <1>1, <1>2, <1>5, EchoAssumption DEF Sessions, Busy
\* What is echoed comes behind what was heard.
<1>9. /\ heard' \in [Client -> Seq(Octet)] /\ \A d \in Client \ {c} : heard'[d] = heard[d]
      /\ \A i \in 1 .. Len(heard'[c]) : heard'[c][i] = <<c, i>>
      /\ Len(heard'[c]) <= said[c]
      /\ fd'[c] = k /\ cl[c] # "left" => Len(heard'[c]) = Got(c)
  <2>1. /\ heard[c] \in Seq(Octet) /\ \A i \in 1 .. Len(heard[c]) : heard[c][i] = <<c, i>>
        /\ Len(heard[c]) <= said[c]
    <3>1. heard[c] \in Seq(Octet)
      BY DEF PoolTypes
    <3>2. heard[c] = [i \in 1 .. Len(heard[c]) |-> <<c, i>>] /\ Len(heard[c]) <= said[c]
      BY DEF EchoInOrder
    <3>3. \A i \in 1 .. Len(heard[c]) : heard[c][i] = <<c, i>>
      BY <3>2
    <3> QED BY <3>1, <3>2, <3>3
  <2>2. Echoing(k)
    BY <1>2 DEF Echoes
  <2>3. CASE SetTimeout(k)
    <3>1. heard' = heard /\ fd' = fd /\ kid[k].at = "option"
      BY <2>3 DEF SetTimeout
    <3>2. fd[c] = k /\ cl[c] # "left" => Len(heard[c]) + 0 = Got(c)
      BY <1>1, <2>2, <3>1 DEF Echoing, Pending
    <3> QED BY <2>1, <3>1, <3>2 DEF PoolTypes
  <2>4. CASE SendFails(k)
    <3>1. heard' = heard /\ fd'[c] = "closed"
      BY <1>1, <2>4 DEF SendFails, PoolTypes
    <3>2. fd'[c] # k
      BY <3>1, EchoAssumption
    <3> QED BY <2>1, <3>1, <3>2 DEF PoolTypes
  <2>5. CASE Send(k) /\ cl[c] = "left"
    <3>1. heard' = heard
      BY <1>1, <2>5 DEF Send
    <3> QED BY <2>1, <2>5, <3>1 DEF PoolTypes
  <2>6. CASE Send(k) /\ cl[c] # "left"
    <3> DEFINE h == heard[c]
               e == SubSeq(kid[k].buf, 1, kid[k].len)
               g == kid[k].len
    <3>1. kid[k].at = "send" /\ fd[c] = k /\ heard' = [heard EXCEPT ![c] = h \o e]
      BY <1>1, <2>6 DEF Send, Echo, Sessions
    <3>2. kid[k].buf \in Seq(Octet) /\ g \in Nat
      BY DEF PoolTypes, KidOf
    <3>3. /\ g <= Len(kid[k].buf) /\ \A i \in 1 .. g : kid[k].buf[i] = <<c, Got(c) - g + i>>
          /\ Len(h) + g = Got(c)
      BY <1>1, <2>2, <2>6, <3>1 DEF Echoing, Pending
    <3>4. e \in Seq(Octet) /\ Len(e) = g /\ \A i \in 1 .. g : e[i] = kid[k].buf[i]
      <4>1. PICK b \in Seq(Octet) : b = kid[k].buf
        BY <3>2
      <4>2. PICK n \in Nat : n = g
        BY <3>2
      <4>3. n <= Len(b)
        BY <3>3, <4>1, <4>2
      <4>4. /\ SubSeq(b, 1, n) \in Seq(Octet) /\ Len(SubSeq(b, 1, n)) = n
            /\ \A i \in 1 .. n : SubSeq(b, 1, n)[i] = b[i]
        BY <4>3
      <4> QED BY <4>1, <4>2, <4>4
    <3> HIDE DEF e, h, g
    <3>5. Got(c) \in Nat /\ Got(c) <= said[c] /\ said[c] \in Nat
      <4>1. Len(unread[c]) \in Nat
        BY DEF PoolTypes
      <4> QED BY <4>1 DEF Octets, Got, PoolTypes
    <3>6. h \in Seq(Octet) /\ Len(h) \in Nat /\ \A i \in 1 .. Len(h) : h[i] = <<c, i>>
      BY <2>1 DEF h
    <3>7. h \o e \in Seq(Octet) /\ Len(h \o e) = Got(c)
      <4>1. h \o e \in Seq(Octet) /\ Len(h \o e) = Len(h) + Len(e)
        BY <3>4, <3>6, ConcatProperties
      <4> QED BY <3>3, <3>4, <4>1
    <3>w. PICK w \in Seq(Octet) : w = h \o e
      BY <3>7
    <3>z. Len(w) = Got(c)
      BY <3>7, <3>w, Zenon
    <3>8. ASSUME NEW i \in 1 .. Got(c) PROVE w[i] = <<c, i>>
      <4>1. CASE i \in 1 .. Len(h)
        <5>1. (h \o e)[i] = h[i]
          BY <3>4, <3>6, <4>1, ConcatProperties
        <5> QED BY <3>6, <3>w, <4>1, <5>1
      <4>2. CASE i > Len(h)
        <5>1. (h \o e)[i] = e[i - Len(h)]
          BY <3>2, <3>3, <3>4, <3>5, <3>6, <3>7, <4>2, ConcatProperties
        <5>2. i - Len(h) \in 1 .. g
          BY <3>2, <3>3, <3>5, <3>6, <4>2
        <5>3. e[i - Len(h)] = <<c, Got(c) - g + (i - Len(h))>>
          BY <3>3, <3>4, <5>2
        <5>4. Got(c) - g + (i - Len(h)) = i
          BY <3>2, <3>3, <3>5, <3>6
        <5> QED BY <3>w, <5>1, <5>3, <5>4
      <4>3. i \in Nat /\ i >= 1
        BY <3>5
      <4> QED BY <3>6, <4>1, <4>2, <4>3
    <3>9. /\ heard' \in [Client -> Seq(Octet)] /\ heard'[c] = w
          /\ \A d \in Client \ {c} : heard'[d] = heard[d]
      BY <3>1, <3>w DEF PoolTypes
    <3>10. \A i \in 1 .. Len(heard'[c]) : heard'[c][i] = <<c, i>>
      BY <3>8, <3>9, <3>z
    <3>11. Len(heard'[c]) = Got(c)
      BY <3>9, <3>z
    <3> QED BY <3>5, <3>9, <3>10, <3>11
  <2> QED BY <2>3, <2>4, <2>5, <2>6
<1>10. PoolTypes'
  BY <1>2, <1>3, <1>5, <1>9 DEF PoolTypes
<1>11. Octets'
  <2> SUFFICES ASSUME NEW d \in Client
               PROVE  /\ Got(d)' \in Nat /\ \A i \in 1 .. Len(unread'[d]) : unread'[d][i] = <<d, Got(d)' + i>>
                      /\ fd'[d] = "none" => heard'[d] = << >> /\ ~reset'[d] /\ Got(d)' = 0
    BY DEF Octets
  <2>1. CASE d = c
    BY <1>2, <1>7, <1>8, <2>1 DEF Octets
  <2>2. CASE d # c
    <3>1. Got(d)' = Got(d) /\ unread'[d] = unread[d] /\ heard'[d] = heard[d] /\ fd'[d] = fd[d]
      BY <1>2, <1>5, <1>7, <1>9, <2>2
    <3>2. reset'[d] = reset[d]
      BY <1>5, <2>2
    <3>3. /\ Got(d) \in Nat /\ \A i \in 1 .. Len(unread[d]) : unread[d][i] = <<d, Got(d) + i>>
          /\ fd[d] = "none" => heard[d] = << >> /\ ~reset[d] /\ Got(d) = 0
      BY DEF Octets
    <3> HIDE DEF EchoInv
    <3>4. Got(d)' \in Nat /\ \A i \in 1 .. Len(unread'[d]) : unread'[d][i] = <<d, Got(d)' + i>>
      BY <3>1, <3>3
    <3>5. fd'[d] = "none" => heard'[d] = << >> /\ ~reset'[d] /\ Got(d)' = 0
      BY <3>1, <3>2, <3>3, Zenon
    <3> QED BY <3>4, <3>5
  <2> QED BY <2>1, <2>2
<1>12. Echoes'
  <2> SUFFICES ASSUME NEW l \in Kid, InSession(l)' PROVE Echoing(l)'
    BY DEF Echoes
  <2>1. CASE l = k
    <3>1. Pending(k)' = 0 /\ Got(Peer(k))' = Got(c) /\ Len(heard'[c]) \in Nat
      <4>1. heard'[c] \in Seq(Octet)
        BY <1>9
      <4>2. Len(heard'[c]) \in Nat
        BY <4>1
      <4> QED BY <1>2, <1>3, <1>4, <4>2 DEF Pending, Got
    <3>2. fd'[Peer(k)'] = k /\ cl'[Peer(k)'] # "left" =>
            Len(heard'[Peer(k)']) + Pending(k)' = Got(Peer(k))'
      BY <1>2, <1>4, <1>9, <3>1
    <3> QED BY <1>3, <2>1, <3>2 DEF Echoing
  <2>2. CASE l # k
    <3>1. InSession(l) /\ Echoing(l) /\ kid'[l] = kid[l] /\ Peer(l) \in Client /\ Peer(l)' = Peer(l)
      BY <1>3, <2>2 DEF Echoes, InSession, Busy, Sessions, Peer
    <3>2. Peer(l) # c
      BY <1>1, <1>2, <2>2, <3>1 DEF Sessions, Busy
    <3>3. Got(Peer(l))' = Got(Peer(l))
      BY <1>2, <3>1 DEF Got
    <3> QED BY <1>2, <1>5, <1>9, <3>1, <3>2, <3>3, EchoingStays
  <2> QED BY <2>1, <2>2
<1>13. EchoInOrder'
  <2> SUFFICES ASSUME NEW d \in Client
               PROVE  heard'[d] = [i \in 1 .. Len(heard'[d]) |-> <<d, i>>] /\ Len(heard'[d]) <= said'[d]
    BY DEF EchoInOrder
  <2>1. CASE d = c
    <3>1. heard'[c] \in Seq(Octet) /\ \A i \in 1 .. Len(heard'[c]) : heard'[c][i] = <<c, i>>
      BY <1>9
    <3>2. heard'[c] = [i \in 1 .. Len(heard'[c]) |-> <<c, i>>]
      BY <3>1, CountsFromOne
    <3> QED BY <1>2, <1>9, <2>1, <3>2
  <2>2. CASE d # c
    BY <1>2, <1>9, <2>2 DEF EchoInOrder
  <2> QED BY <2>1, <2>2
<1> QED BY <1>6, <1>10, <1>11, <1>12, <1>13

\* A child dies in its session, of SIGPIPE or because of setsockopt, and what it had open is
\* closed.
LEMMA PoolStepDie ==
  ASSUME EchoInv, NEW k \in Kid, SendPipe(k) \/ (pool = "timeo" /\ TimeoutFails(k))
  PROVE  EchoInv'
<1> USE DEF EchoInv
<1>1. PICK c \in Client : c = Peer(k)
  BY DEF SendPipe, TimeoutFails, InSession, Busy, Sessions
<1>2. /\ InSession(k) /\ Busy(k) /\ Goto(k, "dead")
      /\ fd' = [d \in Client |-> IF fd[d] = k THEN "closed" ELSE fd[d]]
      /\ UNCHANGED <<pool, pmain, cl, said, unread, heard, reset>>
  BY DEF SendPipe, TimeoutFails, Dies, InSession, Busy
<1>3. cl[c] = "left" \/ pool = "timeo"
  BY <1>1 DEF SendPipe, Broken, Costs
<1>4. /\ kid' \in [Kid -> KidOf] /\ kid'[k].at = "dead" /\ kid'[k].on = kid[k].on
      /\ \A l \in Kid \ {k} : kid'[l] = kid[l]
  BY <1>2, GotoShape
<1>5. /\ fd' \in [Client -> Kid \union {"none", "closed"}]
      /\ \A d \in Client : fd'[d] = IF fd[d] = k THEN "closed" ELSE fd[d]
  BY <1>2 DEF PoolTypes
<1>6. PoolTypes'
  BY <1>2, <1>4, <1>5 DEF PoolTypes
<1>7. /\ ~InSession(k)' /\ Busy(k)' /\ Peer(k)' = c
      /\ \A l \in Kid \ {k} : (InSession(l)' <=> InSession(l)) /\ Peer(l)' = Peer(l)
                              /\ (Busy(l)' <=> Busy(l))
      /\ \A l \in Kid \ {k} : Busy(l) => Peer(l) # c /\ Peer(l) \in Client
  <2>1. \A l \in Kid \ {k} : Busy(l) => Peer(l) # c /\ Peer(l) \in Client
    BY <1>1, <1>2 DEF Sessions
  <2> QED BY <1>1, <1>4, <2>1 DEF InSession, Busy, Peer
<1>8. fd[c] \in {k, "closed"} /\ fd'[c] = "closed"
  BY <1>1, <1>2, <1>5 DEF Sessions
<1>9. Sessions'
  <2>1. pmain' = "pause"
    BY <1>2 DEF Sessions, InSession
  <2>2. ASSUME NEW l \in Kid, Busy(l)' PROVE Peer(l)' \in Client /\ fd'[Peer(l)'] \in {l, "closed"}
    <3>1. CASE l = k
      BY <1>7, <1>8, <3>1
    <3>2. CASE l # k
      <4>1. Busy(l) /\ Peer(l) \in Client /\ Peer(l)' = Peer(l) /\ fd[Peer(l)] \in {l, "closed"}
        BY <1>7, <2>2, <3>2 DEF Sessions
      <4> QED BY <1>5, <4>1
    <3> QED BY <3>1, <3>2
  <2>3. ASSUME NEW l \in Kid, kid'[l].at = "send" PROVE fd'[Peer(l)'] = l
    <3>1. l # k /\ kid[l].at = "send" /\ Busy(l)
      BY <1>4, <2>3 DEF Busy, InSession
    <3> QED BY <1>5, <1>7, <3>1 DEF Sessions
  <2>4. \A m, l \in Kid : Busy(m)' /\ Busy(l)' /\ Peer(m)' = Peer(l)' => m = l
    BY <1>7 DEF Sessions
  <2> QED BY <2>1, <2>2, <2>3, <2>4 DEF Sessions
<1>10. Deaths'
  <2> SUFFICES ASSUME NEW l \in Kid, kid'[l].at = "dead"
               PROVE  fd'[Peer(l)'] = "closed" /\ (cl'[Peer(l)'] = "left" \/ pool' = "timeo")
    BY DEF Deaths
  <2>1. CASE l = k
    BY <1>2, <1>3, <1>7, <1>8, <2>1
  <2>2. CASE l # k
    <3>1. kid[l].at = "dead" /\ Busy(l)
      BY <1>4, <2>2 DEF Busy
    <3> QED BY <1>2, <1>5, <1>7, <2>2, <3>1 DEF Deaths
  <2> QED BY <2>1, <2>2
<1>11. Octets'
  <2> SUFFICES ASSUME NEW d \in Client
               PROVE  /\ Got(d)' \in Nat
                      /\ \A i \in 1 .. Len(unread'[d]) : unread'[d][i] = <<d, Got(d)' + i>>
                      /\ fd'[d] = "none" => heard'[d] = << >> /\ ~reset'[d] /\ Got(d)' = 0
    BY DEF Octets
  <2>1. Got(d)' = Got(d)
    BY <1>2 DEF Got
  <2>2. fd'[d] = "none" => fd[d] = "none"
    BY <1>5
  <2> QED BY <1>2, <2>1, <2>2 DEF Octets
<1>12. Echoes'
  <2> SUFFICES ASSUME NEW l \in Kid, InSession(l)' PROVE Echoing(l)'
    BY DEF Echoes
  <2>1. l # k /\ InSession(l) /\ Echoing(l) /\ kid'[l] = kid[l] /\ Peer(l) \in Client
    BY <1>4, <1>7 DEF Echoes, Busy
  <2>2. Got(Peer(l))' = Got(Peer(l))
    BY <1>2, <2>1 DEF Got, Peer
  <2>3. fd'[Peer(l)] = l => fd[Peer(l)] = l
    BY <1>5, <2>1, EchoAssumption
  <2> QED BY <1>2, <2>1, <2>2, <2>3, EchoingStays
<1>13. EchoInOrder'
  BY <1>2 DEF EchoInOrder
<1>14. Costs'
  <2>1. \A d : d \in Served' <=> d \in Served /\ d # c
    <3>1. \A d : d \in Served <=> \E l \in Kid : InSession(l) /\ Peer(l) = d
      BY ServedHas
    <3>2. \A d : d \in Served' <=> \E l \in Kid : InSession(l)' /\ Peer(l)' = d
      BY ServedHasNext
    <3> QED BY <1>1, <1>7, <3>1, <3>2 DEF Busy
  <2>2. ASSUME NEW d \in Client, fd'[d] \in Kid, d \notin Served' PROVE reset'[d]
    <3>1. fd[d] \in Kid /\ d # c
      BY <1>5, <1>8, <2>2, EchoAssumption
    <3> QED BY <1>2, <2>1, <2>2, <3>1 DEF Costs
  <2> QED BY <1>2, <2>2 DEF Costs
<1> QED BY <1>6, <1>9, <1>10, <1>11, <1>12, <1>13, <1>14

LEMMA PoolStepRestart ==
  ASSUME EchoInv, NEW k \in Kid, Restart(k)
  PROVE  EchoInv'
<1> USE DEF EchoInv
<1>1. /\ kid[k].at = "dead" /\ kid' = [kid EXCEPT ![k] = NewKid("accept")]
      /\ UNCHANGED <<pool, pmain, cl, said, unread, heard, reset, fd>>
  BY DEF Restart
<1>2. /\ kid' \in [Kid -> KidOf]
      /\ kid'[k].at = "accept" /\ \A l \in Kid \ {k} : kid'[l] = kid[l]
  <2>1. NewKid("accept") \in KidOf /\ NewKid("accept").at = "accept"
    BY DEF NewKid, KidOf
  <2> QED BY <1>1, <2>1 DEF PoolTypes
<1>3. /\ ~InSession(k) /\ ~InSession(k)' /\ ~Busy(k)'
      /\ \A l \in Kid \ {k} : (InSession(l)' <=> InSession(l)) /\ Peer(l)' = Peer(l)
                              /\ (Busy(l)' <=> Busy(l))
  BY <1>1, <1>2 DEF InSession, Busy, Peer
<1>4. Sessions' /\ Deaths'
  <2>1. pmain' = "pause"
    BY <1>1 DEF Sessions
  <2>2. \A l \in Kid : kid'[l].at \in {"send", "dead"} => l # k /\ kid[l].at = kid'[l].at
    BY <1>2
  <2> QED BY <1>1, <1>3, <2>1, <2>2 DEF Sessions, Deaths
<1>5. Costs'
  <2>1. \A d : d \in Served' <=> d \in Served
    <3>1. \A d : d \in Served <=> \E l \in Kid : InSession(l) /\ Peer(l) = d
      BY ServedHas
    <3>2. \A d : d \in Served' <=> \E l \in Kid : InSession(l)' /\ Peer(l)' = d
      BY ServedHasNext
    <3> QED BY <1>3, <3>1, <3>2
  <2> QED BY <1>1, <2>1 DEF Costs
<1>6. PoolTypes' /\ Octets' /\ EchoInOrder'
  <2>1. PoolTypes'
    BY <1>1, <1>2 DEF PoolTypes
  <2>2. Octets' /\ EchoInOrder'
    BY <1>1 DEF Octets, Got, EchoInOrder
  <2> QED BY <2>1, <2>2
<1>7. Echoes'
  <2> SUFFICES ASSUME NEW l \in Kid, InSession(l)' PROVE Echoing(l)'
    BY DEF Echoes
  <2>1. l # k /\ InSession(l) /\ Echoing(l) /\ kid'[l] = kid[l]
    BY <1>2, <1>3 DEF Echoes
  <2>2. Got(Peer(l))' = Got(Peer(l))
    BY <1>1, <2>1 DEF Got, Peer
  <2> QED BY <1>1, <2>1, <2>2, EchoingStays
<1> QED BY <1>4, <1>5, <1>6, <1>7

LEMMA PoolStepClient ==
  ASSUME EchoInv, NEW c \in Client, Connect(c) \/ Say(c) \/ Leave(c)
  PROVE  EchoInv'
<1> USE DEF EchoInv
<1>1. UNCHANGED <<pool, pmain, kid, heard, fd>> /\ cl[c] # "left"
  BY DEF Connect, Say, Leave
<1>2. /\ cl' \in [Client -> {"out", "queued", "open", "left"}]
      /\ \A d \in Client : cl[d] = "left" => cl'[d] = "left"
      /\ \A d \in Client \ {c} : cl'[d] = cl[d]
  BY <1>1 DEF Connect, Say, Leave, PoolTypes
<1>3. /\ reset' \in [Client -> BOOLEAN] /\ \A d \in Client : reset[d] => reset'[d]
      /\ \A d \in Client : ~reset[d] /\ heard[d] = << >> => ~reset'[d]
      /\ \A d \in Client : reset'[d] => reset[d] \/ cl'[d] = "left"
  <2>1. CASE Connect(c) \/ Say(c)
    BY <2>1 DEF Connect, Say, PoolTypes
  <2>2. CASE Leave(c)
    <3>1. PICK b \in BOOLEAN : b = (reset[c] \/ heard[c] # << >>)
      OBVIOUS
    <3>2. reset' = [reset EXCEPT ![c] = b]
      BY <2>2, <3>1 DEF Leave
    <3>3. cl'[c] = "left"
      BY <2>2 DEF Leave, PoolTypes
    <3> QED BY <3>1, <3>2, <3>3 DEF PoolTypes
  <2> QED BY <2>1, <2>2
<1>4. /\ said' \in [Client -> Nat] /\ unread' \in [Client -> Seq(Octet)]
      /\ \A d \in Client : said'[d] >= said[d]
      /\ \A d \in Client : Got(d)' = Got(d)
      /\ \A d \in Client : \A i \in 1 .. Len(unread'[d]) : unread'[d][i] = <<d, Got(d) + i>>
  <2>1. CASE Connect(c) \/ Leave(c)
    <3>1. UNCHANGED <<said, unread>>
      BY <2>1 DEF Connect, Leave
    <3> QED BY <3>1 DEF PoolTypes, Octets, Got
  <2>2. CASE Say(c)
    <3> DEFINE u == unread[c]
               w == Append(u, <<c, said[c] + 1>>)
    <3>1. said' = [said EXCEPT ![c] = @ + 1] /\ unread' = [unread EXCEPT ![c] = w]
      BY <2>2 DEF Say
    <3>2. u \in Seq(Octet) /\ said[c] \in Nat /\ Len(u) \in Nat
      BY DEF PoolTypes
    <3>3. Got(c) = said[c] - Len(u) /\ Got(c) \in Nat /\ \A i \in 1 .. Len(u) : u[i] = <<c, Got(c) + i>>
      BY DEF Octets, Got
    <3> HIDE DEF u
    <3>4. /\ w \in Seq(Octet) /\ Len(w) = Len(u) + 1 /\ w[Len(u) + 1] = <<c, said[c] + 1>>
          /\ \A i \in 1 .. Len(u) : w[i] = u[i]
      <4>1. <<c, said[c] + 1>> \in Octet
        BY <3>2 DEF Octet
      <4> QED BY <3>2, <4>1
    <3> HIDE DEF w
    <3>5. /\ said' \in [Client -> Nat] /\ unread' \in [Client -> Seq(Octet)]
          /\ said'[c] = said[c] + 1 /\ unread'[c] = w
          /\ \A d \in Client \ {c} : said'[d] = said[d] /\ unread'[d] = unread[d]
      BY <3>1, <3>2, <3>4 DEF PoolTypes
    <3>6. Got(c)' = Got(c)
      <4>1. Got(c)' = said'[c] - Len(unread'[c])
        BY DEF Got
      <4>2. Got(c)' = (said[c] + 1) - (Len(u) + 1)
        BY <3>4, <3>5, <4>1
      <4> QED BY <3>2, <3>3, <4>2
    <3>7. \A d \in Client \ {c} : Got(d)' = Got(d)
      BY <3>5 DEF Got
    <3>8. ASSUME NEW i \in 1 .. Len(w) PROVE w[i] = <<c, Got(c) + i>>
      <4>1. CASE i \in 1 .. Len(u)
        BY <3>3, <3>4, <4>1
      <4>2. CASE i = Len(u) + 1
        <5>1. Got(c) + i = said[c] + 1
          BY <3>2, <3>3, <4>2
        <5> QED BY <3>4, <4>2, <5>1
      <4> QED BY <3>2, <3>4, <4>1, <4>2
    <3>9. \A d \in Client \ {c} : \A i \in 1 .. Len(unread'[d]) : unread'[d][i] = <<d, Got(d) + i>>
      <4>1. \A d \in Client \ {c} : unread'[d] = unread[d]
        BY <3>5
      <4>2. \A d \in Client : \A i \in 1 .. Len(unread[d]) : unread[d][i] = <<d, Got(d) + i>>
        BY DEF Octets
      <4> QED BY <4>1, <4>2
    <3>10. \A d \in Client : said'[d] >= said[d]
      <4>1. said'[c] >= said[c]
        BY <3>2, <3>5
      <4>2. \A d \in Client \ {c} : said'[d] = said[d] /\ said[d] \in Nat
        BY <3>5 DEF PoolTypes
      <4> QED BY <4>1, <4>2
    <3> QED BY <3>5, <3>6, <3>7, <3>8, <3>9, <3>10
  <2> QED BY <2>1, <2>2
<1>5. PoolTypes'
  BY <1>1, <1>2, <1>3, <1>4 DEF PoolTypes
<1>6. \A l \in Kid : (InSession(l)' <=> InSession(l)) /\ Peer(l)' = Peer(l)
  BY <1>1 DEF InSession, Peer
<1>7. Sessions' /\ Deaths' /\ Costs'
  <2>1. Sessions'
    BY <1>1 DEF Sessions, Busy, InSession, Peer
  <2>2. Deaths'
    BY <1>1, <1>2 DEF Deaths, Sessions, Busy, Peer
  <2>3. Served' = Served
    BY <1>1 DEF Served, InSession, Peer
  <2> QED BY <1>1, <1>2, <1>3, <2>1, <2>2, <2>3 DEF Costs
<1>8. Octets'
  BY <1>1, <1>3, <1>4 DEF Octets
<1>9. Echoes'
  <2> SUFFICES ASSUME NEW l \in Kid, InSession(l)' PROVE Echoing(l)'
    BY DEF Echoes
  <2>1. InSession(l) /\ Echoing(l) /\ kid'[l] = kid[l] /\ Peer(l) \in Client
    BY <1>1, <1>6 DEF Echoes, Sessions, Busy
  <2>2. Got(Peer(l))' = Got(Peer(l))
    BY <1>1, <1>4, <2>1 DEF Got, Peer
  <2> QED BY <1>1, <1>2, <1>3, <2>1, <2>2, EchoingStays
<1>10. EchoInOrder'
  <2>1. \A d \in Client : Len(heard[d]) \in Nat
    BY DEF PoolTypes
  <2>2. \A d \in Client : said[d] \in Nat /\ said'[d] \in Nat
    BY <1>4 DEF PoolTypes
  <2>3. \A d \in Client : heard[d] = [i \in 1 .. Len(heard[d]) |-> <<d, i>>] /\ Len(heard[d]) <= said[d]
    BY DEF EchoInOrder
  <2>4. ASSUME NEW d \in Client PROVE Len(heard[d]) <= said'[d]
    <3>1. said'[d] >= said[d] /\ Len(heard[d]) <= said[d]
      BY <1>4, <2>3
    <3>2. \A x, y, z \in Nat : x <= y /\ z >= y => x <= z
      OBVIOUS
    <3> QED BY <2>1, <2>2, <3>1, <3>2
  <2>5. heard' = heard
    BY <1>1
  <2> QED BY <2>3, <2>4, <2>5 DEF EchoInOrder
<1> QED BY <1>5, <1>7, <1>8, <1>9, <1>10

LEMMA CostsSuffice == EchoInv => FailuresCost
<1> SUFFICES ASSUME EchoInv PROVE FailuresCost
  OBVIOUS
<1>1. \A c \in Client : fd[c] \in Kid /\ ~ (\E k \in Kid : InSession(k) /\ Peer(k) = c) => reset[c]
  BY ServedHas DEF EchoInv, Costs
<1>2. ASSUME NEW k \in Kid, kid[k].at = "dead"
      PROVE  /\ fd[Peer(k)] = "closed" /\ (cl[Peer(k)] = "left" \/ pool = "timeo")
             /\ \A l \in Kid : kid[l].at = "dead" /\ Peer(l) = Peer(k) => l = k
  <2>1. fd[Peer(k)] = "closed" /\ (cl[Peer(k)] = "left" \/ pool = "timeo")
    BY <1>2 DEF EchoInv, Deaths
  <2>2. \A l \in Kid : kid[l].at = "dead" /\ Peer(l) = Peer(k) => l = k
    BY <1>2 DEF EchoInv, Sessions, Busy
  <2> QED BY <2>1, <2>2
<1> QED BY <1>1, <1>2 DEF FailuresCost

\* A client hears its own octets, in order and without a gap, whatever else is in the buffer
\* of its child; a descriptor is leaked only to a client that was reset, and a child dies only
\* in the session of a client that has left or, in so_timeo, of setsockopt: for any number of
\* children and clients and any size of the buffer.
THEOREM EchoCorrect == PoolSpec => []EchoKept
<1>1. EchoInv /\ [PoolNext]_poolvars => EchoInv'
  <2> SUFFICES ASSUME EchoInv, [PoolNext]_poolvars PROVE EchoInv'
    OBVIOUS
  <2>1. CASE UNCHANGED poolvars
    BY <2>1 DEF poolvars, EchoInv, PoolTypes, Sessions, Deaths, Busy, Octets, Echoes, Echoing, Costs,
                Served, InSession, Peer, Got, Pending, EchoInOrder
  <2>2. CASE PoolMain
    BY <2>2, PoolStepMain
  <2>3. ASSUME NEW k \in Kid, PoolChild(k) PROVE EchoInv'
    <3>1. Accept(k) \/ SetTimeout(k) \/ Session(k)
      BY <2>3 DEF PoolChild, serv1_child, serv2_child, serv3_child, unix_child, oob_child,
                  reuse_child, timeo_child
    <3> QED BY <3>1, PoolStepAccept, PoolStepRecv, PoolStepEnd, PoolStepOn, PoolStepDie
            DEF Session
  <2>4. ASSUME NEW k \in Kid, SendFails(k) \/ Restart(k) \/ (pool = "timeo" /\ TimeoutFails(k))
        PROVE  EchoInv'
    BY <2>4, PoolStepOn, PoolStepRestart, PoolStepDie
  <2>5. ASSUME NEW k \in Kid, RecvTimeout(k) PROVE EchoInv'
    BY <2>1, <2>5 DEF RecvTimeout
  <2>6. ASSUME NEW c \in Client, Connect(c) \/ Say(c) \/ Leave(c) PROVE EchoInv'
    BY <2>6, PoolStepClient
  <2> QED BY <2>1, <2>2, <2>3, <2>4, <2>5, <2>6 DEF PoolNext
<1>2. EchoInv => EchoKept
  BY CostsSuffice DEF EchoInv, EchoKept
<1> QED BY PoolInitInv, <1>1, <1>2, PTL DEF PoolSpec

(***************************************************************************)
(* Triggers: who is behind which descriptor, and what announces it.        *)
(***************************************************************************)

TrgSignal == [sig : {"LISTEN", "NORM"}, fd : Fds \union {Listener}, band : {"IN", "ERR"}]
\* The queued signals that announce a connection.
Announced(s) == {i \in 1 .. Len(s) : s[i].sig = "LISTEN"}

TrgTypes ==
  /\ gprog \in {"level", "edge", "rts"}
  /\ gat \in {"setup", "wait", "scan", "accept", "register", "returned", "killed"}
  /\ backlog \in Seq(Caller) /\ conn \in [Caller -> {"out", "backlog", "open", "closed"}]
  /\ slot \in [Fds -> Caller \union {NoCaller, Elsewhere}] /\ ours \subseteq Fds \union {Listener}
  /\ octets \in [Caller -> Nat] /\ end \in [Caller -> {"no", "fin", "reset"}]
  /\ sigq \in Seq(TrgSignal) /\ batch \subseteq ours /\ newfd \subseteq Fds

\* A caller is in the backlog, behind one descriptor, or gone; what reports has a caller.
Lines ==
  /\ \A f \in Fds : f \in ours \union newfd => slot[f] \in Caller
  /\ \A f \in Fds : slot[f] \in Caller => conn[slot[f]] = "open"
  /\ \A f, g \in Fds : slot[f] \in Caller /\ slot[f] = slot[g] => f = g
  /\ \A n \in 1 .. Len(backlog) : conn[backlog[n]] = "backlog"
  /\ \A m, n \in 1 .. Len(backlog) : backlog[m] = backlog[n] => m = n

\* io_rts never scans, no more connections are announced than wait, and a signal of a client
\* is about a number that was a client's.
Announcements ==
  /\ gprog = "rts" => gat \notin {"scan", "accept"}
  /\ newfd # {} => gat \in {"register", "killed"}
  /\ batch # {} => gprog # "rts" /\ gat \in {"scan", "accept", "returned"}
  /\ gprog # "rts" => gat \notin {"register"}
  /\ gprog = "rts" => Cardinality(Announced(sigq)) <= Len(backlog)
  /\ \A i \in 1 .. Len(sigq) :
       sigq[i].sig = "NORM" => sigq[i].fd \in Fds /\ slot[sigq[i].fd] # Elsewhere

TrgInv == TrgTypes /\ Lines /\ Announcements /\ TriggersKept

LEMMA LeastExists ==
  ASSUME NEW T \in SUBSET Nat, T # {}
  PROVE  \E x \in T : \A y \in T : x <= y
<1>1. PICK x \in T : \A y \in T : <<y, x>> \notin OpToRel(<, Nat)
  BY NatLessThanWellFounded, WFMin, Zenon
<1>2. \A y \in T : ~(y < x)
  BY <1>1 DEF OpToRel
<1> QED BY <1>2

LEMMA DequeuedShape ==
  ASSUME NEW S, NEW s \in Seq(S), NEW n \in 1 .. Len(s)
  PROVE  /\ Dequeued(s, n) \in Seq(S) /\ Len(Dequeued(s, n)) = Len(s) - 1
         /\ \A i \in 1 .. Len(s) - 1 :
              Dequeued(s, n)[i] = IF i < n THEN s[i] ELSE s[i + 1]
<1> DEFINE a == SubSeq(s, 1, n - 1)
           b == SubSeq(s, n + 1, Len(s))
<1>1. a \in Seq(S) /\ Len(a) = n - 1 /\ \A i \in 1 .. n - 1 : a[i] = s[i]
  OBVIOUS
<1>2. b \in Seq(S) /\ Len(b) = Len(s) - n /\ \A i \in 1 .. Len(s) - n : b[i] = s[n + i]
  OBVIOUS
<1>3. Dequeued(s, n) = a \o b
  BY DEF Dequeued
<1> HIDE DEF a, b
<1>4. a \o b \in Seq(S) /\ Len(a \o b) = Len(s) - 1
  <2>1. a \o b \in Seq(S) /\ Len(a \o b) = Len(a) + Len(b)
    BY <1>1, <1>2, ConcatProperties
  <2> QED BY <2>1, <1>1, <1>2
<1>5. ASSUME NEW i \in 1 .. Len(s) - 1
      PROVE  (a \o b)[i] = IF i < n THEN s[i] ELSE s[i + 1]
  <2>1. CASE i < n
    BY <2>1, <1>1, <1>2
  <2>2. CASE ~(i < n)
    <3>1. (a \o b)[i] = b[i - (n - 1)]
      BY <2>2, <1>1, <1>2
    <3>2. i - (n - 1) \in 1 .. Len(s) - n /\ n + (i - (n - 1)) = i + 1
      BY <2>2
    <3> QED BY <2>2, <3>1, <3>2, <1>2
  <2> QED BY <2>1, <2>2
<1> QED BY <1>3, <1>4, <1>5

LEMMA AnnouncedFinite ==
  ASSUME NEW s \in Seq(TrgSignal)
  PROVE  IsFiniteSet(Announced(s)) /\ Cardinality(Announced(s)) \in Nat
<1>1. IsFiniteSet(1 .. Len(s))
  BY FS_Interval
<1>2. Announced(s) \subseteq 1 .. Len(s)
  BY DEF Announced
<1>3. IsFiniteSet(Announced(s))
  BY <1>1, <1>2, FS_Subset
<1> QED BY <1>3, FS_CardinalityType

\* What is dequeued is announced no more, and nothing else is announced instead.
LEMMA AnnouncedDequeued ==
  ASSUME NEW s \in Seq(TrgSignal), NEW n \in 1 .. Len(s)
  PROVE  Cardinality(Announced(Dequeued(s, n))) <= Cardinality(Announced(s) \ {n})
<1> DEFINE d == Dequeued(s, n)
           A == Announced(d)
           B == Announced(s) \ {n}
           m == [i \in A |-> IF i < n THEN i ELSE i + 1]
<1>1. d \in Seq(TrgSignal) /\ Len(d) = Len(s) - 1
      /\ \A i \in 1 .. Len(s) - 1 : d[i] = IF i < n THEN s[i] ELSE s[i + 1]
  BY DequeuedShape
<1> HIDE DEF d
<1>2. \A i \in A : m[i] \in B
  BY <1>1 DEF Announced
<1>3. \A i, j \in A : m[i] = m[j] => i = j
  BY <1>1 DEF Announced
<1>4. m \in Injection(A, B)
  <2>1. m \in [A -> B]
    BY <1>2
  <2> QED BY <2>1, <1>3 DEF Injection, IsInjective
<1>5. IsFiniteSet(B)
  BY AnnouncedFinite, FS_Subset
<1> HIDE DEF m, A, B
<1>6. Cardinality(A) <= Cardinality(B)
  BY <1>4, <1>5, FS_Injection DEF ExistsInjection
<1> QED BY <1>6 DEF A, B, d

LEMMA AnnouncedAppended ==
  ASSUME NEW s \in Seq(TrgSignal), NEW e \in TrgSignal
  PROVE  /\ e.sig # "LISTEN" => Announced(Append(s, e)) = Announced(s)
         /\ Cardinality(Announced(Append(s, e))) <= Cardinality(Announced(s)) + 1
<1>1. e.sig # "LISTEN" => Announced(Append(s, e)) = Announced(s)
  BY DEF Announced
<1>2. Announced(Append(s, e)) \subseteq Announced(s) \union {Len(s) + 1}
  BY DEF Announced
<1>3. IsFiniteSet(Announced(s)) /\ Cardinality(Announced(s)) \in Nat
  BY AnnouncedFinite
<1>4. IsFiniteSet(Announced(s) \union {Len(s) + 1})
  BY <1>3, FS_AddElement
<1>5. \/ Cardinality(Announced(s) \union {Len(s) + 1}) = Cardinality(Announced(s))
      \/ Cardinality(Announced(s) \union {Len(s) + 1}) = Cardinality(Announced(s)) + 1
  BY <1>3, FS_AddElement
<1>6. Cardinality(Announced(Append(s, e))) <= Cardinality(Announced(s) \union {Len(s) + 1})
  BY <1>2, <1>4, FS_Subset
<1>7. Append(s, e) \in Seq(TrgSignal)
  OBVIOUS
<1>8. Cardinality(Announced(Append(s, e))) \in Nat
  BY <1>7, AnnouncedFinite
<1> QED BY <1>1, <1>3, <1>5, <1>6, <1>8

LEMMA NextSignalQueued ==
  ASSUME TrgTypes, sigq # << >>
  PROVE  NextSignal \in 1 .. Len(sigq)
<1> DEFINE listen == {i \in 1 .. Len(sigq) : sigq[i].sig = "LISTEN"}
           all    == IF listen = {} THEN 1 .. Len(sigq) ELSE listen
<1>1. sigq \in Seq(TrgSignal) /\ Len(sigq) \in Nat /\ Len(sigq) > 0
  BY DEF TrgTypes
<1>2. all \in SUBSET Nat /\ all # {} /\ all \subseteq 1 .. Len(sigq)
  BY <1>1
<1>3. NextSignal = CHOOSE i \in all : \A j \in all : i <= j
  BY DEF NextSignal
<1> HIDE DEF all
<1>4. \E i \in all : \A j \in all : i <= j
  BY <1>2, LeastExists
<1>5. NextSignal \in all
  BY <1>3, <1>4
<1> QED BY <1>2, <1>5

LEMMA TrgInitInv == TrgInit => TrgInv
<1> SUFFICES ASSUME TrgInit PROVE TrgInv
  OBVIOUS
<1>1. PICK g \in {"level", "edge", "rts"}, free \in {Fds, {CHOOSE f \in Fds : TRUE}} :
        TrgAt(g, "setup", free)
  BY DEF TrgInit
<1>2. TrgTypes
  BY <1>1 DEF TrgAt, TrgTypes
<1>3. Lines
  BY <1>1, TriggerAssumption DEF TrgAt, Lines
<1>4. Announced(sigq) = {}
  BY <1>1 DEF TrgAt, Announced
<1>5. Announcements
  <2>1. Cardinality(Announced(sigq)) = 0
    BY <1>4, FS_EmptySet
  <2> QED BY <1>1, <2>1 DEF TrgAt, Announcements
<1>6. TriggersKept
  BY <1>1 DEF TrgAt, TriggersKept, ClosedAtEnd, RecvHasInput, ReturnsOnlyFull
<1> QED BY <1>2, <1>3, <1>5, <1>6 DEF TrgInv

\* recv changes the descriptor it is called with and the caller behind it, and nothing else.
LEMMA ReceiveOne ==
  ASSUME TrgInv, NEW f \in Fds, slot[f] # Elsewhere, Receive(f)
  PROVE  /\ conn' \in [Caller -> {"out", "backlog", "open", "closed"}]
         /\ slot' \in [Fds -> Caller \union {NoCaller, Elsewhere}]
         /\ octets' \in [Caller -> Nat] /\ end' \in [Caller -> {"no", "fin", "reset"}]
         /\ (ours' = ours /\ slot' = slot) \/ (ours' = ours \ {f} /\ slot'[f] = NoCaller)
         /\ slot'[f] \in {slot[f], NoCaller}
         /\ \A g \in Fds \ {f} : slot'[g] = slot[g]
         /\ \A c \in Caller : c # slot[f] =>
              conn'[c] = conn[c] /\ octets'[c] = octets[c] /\ end'[c] = end[c]
         /\ slot'[f] = slot[f] => conn' = conn
         /\ \A c \in Caller : conn'[c] = "closed" =>
              \/ conn[c] = "closed"
              \/ end'[c] # "no" /\ octets'[c] = 0
<1> DEFINE c == slot[f]
<1> USE DEF TrgInv, TrgTypes
<1>1. CASE c = NoCaller \/ ~HasInput(f)
  <2>1. UNCHANGED <<conn, slot, ours, octets, end, missed>>
    BY <1>1 DEF Receive
  <2> QED BY <2>1
<1>2. CASE ~(c = NoCaller \/ ~HasInput(f))
  <2>1. c \in Caller /\ conn[c] = "open"
    BY <1>2 DEF Lines
  <2>2. CASE Ended(c)
    <3>1. /\ conn' = [conn EXCEPT ![c] = "closed"]
          /\ slot' = [slot EXCEPT ![f] = NoCaller] /\ ours' = ours \ {f}
          /\ octets' = octets /\ end' = end
      BY <1>2, <2>2 DEF Receive
    <3>2. octets[c] = 0 /\ end[c] = "fin"
      BY <2>2 DEF Ended
    <3>3. NoCaller # c
      BY <2>1, TriggerAssumption
    <3> QED BY <2>1, <3>1, <3>2, <3>3
  <2>3. CASE ~Ended(c)
    <3>1. /\ octets' = [octets EXCEPT ![c] = Left(@)]
          /\ end' = IF octets[c] = 0 THEN [end EXCEPT ![c] = "fin"] ELSE end
          /\ UNCHANGED <<conn, slot, ours>>
      BY <1>2, <2>3 DEF Receive
    <3>2. Left(octets[c]) \in Nat
      BY <2>1 DEF Left
    <3>3. octets' \in [Caller -> Nat] /\ \A d \in Caller : d # c => octets'[d] = octets[d]
      BY <2>1, <3>1, <3>2
    <3>4. end' \in [Caller -> {"no", "fin", "reset"}] /\ \A d \in Caller : d # c => end'[d] = end[d]
      BY <2>1, <3>1
    <3> QED BY <2>1, <3>1, <3>3, <3>4
  <2> QED BY <2>2, <2>3
<1> QED BY <1>1, <1>2

LEMMA ReceiveLines ==
  ASSUME TrgInv, NEW f \in Fds, slot[f] # Elsewhere, Receive(f), UNCHANGED <<backlog, newfd>>,
         newfd = {}
  PROVE  Lines' /\ ClosedAtEnd'
<1>1. ClosedAtEnd'
  BY ReceiveOne DEF TrgInv, TriggersKept, ClosedAtEnd, Lines, TrgTypes
<1>2. \A g \in Fds : g \in ours' \union newfd' => slot'[g] \in Caller
  <2> SUFFICES ASSUME NEW g \in Fds, g \in ours' \union newfd'  PROVE slot'[g] \in Caller
    OBVIOUS
  <2>1. /\ (ours' = ours /\ slot' = slot) \/ ours' = ours \ {f}
        /\ \A h \in Fds \ {f} : slot'[h] = slot[h]
    BY ReceiveOne
  <2>2. g \in ours' /\ \A h \in Fds : h \in ours => slot[h] \in Caller
    BY DEF TrgInv, Lines
  <2> QED BY <2>1, <2>2
<1>3. \A g \in Fds : slot'[g] \in Caller => slot'[g] = slot[g]
  BY ReceiveOne, TriggerAssumption DEF TrgInv, Lines, TrgTypes
<1>4. \A g \in Fds : slot'[g] \in Caller => conn'[slot'[g]] = "open"
  <2> SUFFICES ASSUME NEW g \in Fds, slot'[g] \in Caller PROVE conn'[slot'[g]] = "open"
    OBVIOUS
  <2>1. slot'[g] = slot[g] /\ conn[slot[g]] = "open"
    BY <1>3 DEF TrgInv, Lines
  <2>2. CASE g = f
    BY <2>1, <2>2, ReceiveOne
  <2>3. CASE g # f
    <3>1. slot[g] # slot[f]
      BY <2>1, <2>3 DEF TrgInv, Lines
    <3> QED BY <2>1, <3>1, ReceiveOne
  <2> QED BY <2>2, <2>3
<1>5. \A g, h \in Fds : slot'[g] \in Caller /\ slot'[g] = slot'[h] => g = h
  BY <1>3 DEF TrgInv, Lines
<1>6. \A n \in 1 .. Len(backlog) : conn'[backlog[n]] = "backlog"
  <2> SUFFICES ASSUME NEW n \in 1 .. Len(backlog) PROVE conn'[backlog[n]] = "backlog"
    OBVIOUS
  <2>1. backlog[n] \in Caller /\ conn[backlog[n]] = "backlog"
    BY DEF TrgInv, TrgTypes, Lines
  <2>2. backlog[n] # slot[f]
    BY <2>1 DEF TrgInv, Lines
  <2> QED BY <2>1, <2>2, ReceiveOne
<1> QED BY <1>1, <1>2, <1>4, <1>5, <1>6 DEF TrgInv, Lines

\* accept moves the first caller of the backlog behind a descriptor that was free.
LEMMA TakeCallerLines ==
  ASSUME TrgInv, NEW f \in FreeFds, backlog # << >>, TakeCaller(f),
         UNCHANGED <<octets, end>>, ours' \subseteq ours \union {f},
         newfd' \subseteq newfd \union {f}
  PROVE  /\ Lines' /\ ClosedAtEnd' /\ backlog' \in Seq(Caller)
         /\ Len(backlog') = Len(backlog) - 1
         /\ conn' \in [Caller -> {"out", "backlog", "open", "closed"}]
         /\ slot' \in [Fds -> Caller \union {NoCaller, Elsewhere}]
         /\ f \in Fds /\ f \notin ours /\ slot'[f] \in Caller
         /\ \A g \in Fds \ {f} : slot'[g] = slot[g]
<1> DEFINE c == backlog[1]
<1>1. backlog \in Seq(Caller) /\ Len(backlog) > 0 /\ Head(backlog) = c /\ c \in Caller
  BY DEF TrgInv, TrgTypes
<1>2. conn[c] = "backlog" /\ \A n \in 2 .. Len(backlog) : backlog[n] # c
  BY <1>1 DEF TrgInv, Lines
<1>3. f \in Fds /\ slot[f] = NoCaller /\ f \notin ours
  BY TriggerAssumption DEF FreeFds, TrgInv, Lines
<1>4. /\ conn' = [conn EXCEPT ![c] = "open"] /\ slot' = [slot EXCEPT ![f] = c]
      /\ backlog' = Tail(backlog)
  BY <1>1 DEF TakeCaller
<1>5. /\ backlog' \in Seq(Caller) /\ Len(backlog') = Len(backlog) - 1
      /\ \A n \in 1 .. Len(backlog) - 1 : backlog'[n] = backlog[n + 1]
  BY <1>1, <1>4
<1>6. /\ conn' \in [Caller -> {"out", "backlog", "open", "closed"}] /\ conn'[c] = "open"
      /\ \A d \in Caller \ {c} : conn'[d] = conn[d]
  BY <1>1, <1>4 DEF TrgInv, TrgTypes
<1>7. /\ slot' \in [Fds -> Caller \union {NoCaller, Elsewhere}] /\ slot'[f] = c
      /\ \A g \in Fds \ {f} : slot'[g] = slot[g]
  BY <1>1, <1>3, <1>4 DEF TrgInv, TrgTypes
<1> HIDE DEF c
<1>8. ClosedAtEnd'
  BY <1>1, <1>6 DEF TrgInv, TriggersKept, ClosedAtEnd
<1>9. \A g \in Fds : g # f /\ slot'[g] \in Caller => slot'[g] # c
  BY <1>2, <1>7 DEF TrgInv, Lines
<1>10. \A g \in Fds : g \in ours' \union newfd' => slot'[g] \in Caller
  BY <1>1, <1>7 DEF TrgInv, Lines
<1>11. \A g \in Fds : slot'[g] \in Caller => conn'[slot'[g]] = "open"
  BY <1>1, <1>6, <1>7, <1>9 DEF TrgInv, Lines
<1>12. \A g, h \in Fds : slot'[g] \in Caller /\ slot'[g] = slot'[h] => g = h
  BY <1>1, <1>7, <1>9 DEF TrgInv, Lines
<1>13. ASSUME NEW n \in 1 .. Len(backlog') PROVE conn'[backlog'[n]] = "backlog"
  <2>1. n + 1 \in 2 .. Len(backlog) /\ backlog'[n] = backlog[n + 1]
    BY <1>1, <1>5
  <2>2. backlog[n + 1] # c /\ backlog[n + 1] \in Caller /\ conn[backlog[n + 1]] = "backlog"
    BY <1>1, <1>2, <2>1 DEF TrgInv, Lines
  <2> QED BY <1>6, <2>1, <2>2
<1>14. \A m, n \in 1 .. Len(backlog') : backlog'[m] = backlog'[n] => m = n
  <2> SUFFICES ASSUME NEW m \in 1 .. Len(backlog'), NEW n \in 1 .. Len(backlog'),
                      backlog'[m] = backlog'[n]
               PROVE  m = n
    OBVIOUS
  <2>1. m + 1 \in 1 .. Len(backlog) /\ n + 1 \in 1 .. Len(backlog) /\ backlog[m + 1] = backlog[n + 1]
    BY <1>1, <1>5
  <2>2. m + 1 = n + 1
    BY <2>1 DEF TrgInv, Lines
  <2> QED BY <2>2, <1>1, <1>5
<1>15. Lines'
  BY <1>10, <1>11, <1>12, <1>13, <1>14 DEF Lines
<1> QED BY <1>1, <1>3, <1>5, <1>6, <1>7, <1>8, <1>15

\* What the steps of the epoll programs that receive nothing keep.
LEMMA TrgStepScan ==
  ASSUME TrgInv, AddListener \/ EpollWait \/ ScanListener \/ AcceptEnds \/ ScanEnds
  PROVE  TrgInv'
<1> USE DEF TrgInv
<1>1. CASE AddListener
  <2>1. batch = {} /\ newfd = {}
    BY <1>1 DEF AddListener, Announcements
  <2>2. TrgTypes' /\ Announcements'
    BY <1>1, <2>1 DEF AddListener, TrgTypes, Announcements
  <2>3. Lines' /\ TriggersKept'
    BY <1>1, <2>1, TriggerAssumption
    DEF AddListener, Lines, TriggersKept, ClosedAtEnd, RecvHasInput, ReturnsOnlyFull
  <2> QED BY <2>2, <2>3
<1>2. CASE EpollWait
  <2>1. batch' \subseteq ours /\ \A f \in batch' : HasInput(f)
    BY <1>2 DEF EpollWait
  <2>2. UNCHANGED <<gprog, backlog, conn, slot, ours, octets, spoken, end, sigq, newfd>>
        /\ gat = "wait" /\ gat' = "scan" /\ gprog # "rts"
    BY <1>2 DEF EpollWait
  <2>3. TrgTypes' /\ Announcements' /\ Lines'
    BY <2>1, <2>2 DEF TrgTypes, Announcements, Lines
  <2>4. TriggersKept'
    BY <2>1, <2>2 DEF TriggersKept, ClosedAtEnd, RecvHasInput, ReturnsOnlyFull, HasInput
  <2> QED BY <2>3, <2>4
<1>3. CASE ScanListener
  <2>1. gprog # "rts" /\ newfd = {} /\ batch' \subseteq batch
    BY <1>3 DEF ScanListener, Announcements
  <2>2. TrgTypes' /\ Announcements' /\ Lines'
    BY <1>3, <2>1 DEF ScanListener, TrgTypes, Announcements, Lines
  <2>3. TriggersKept'
    BY <1>3, <2>1
    DEF ScanListener, TriggersKept, ClosedAtEnd, RecvHasInput, ReturnsOnlyFull, HasInput
  <2> QED BY <2>2, <2>3
<1>4. CASE AcceptEnds \/ ScanEnds
  <2>1. /\ UNCHANGED <<gprog, backlog, conn, slot, ours, octets, end, batch, sigq, newfd>>
        /\ gat \in {"accept", "scan"} /\ gat' \in {"scan", "wait"} /\ (gat' = "wait" => batch = {})
    BY <1>4 DEF AcceptEnds, ScanEnds
  <2>2. TrgTypes' /\ Announcements' /\ Lines'
    BY <2>1 DEF TrgTypes, Announcements, Lines
  <2>3. TriggersKept'
    BY <2>1 DEF TriggersKept, ClosedAtEnd, RecvHasInput, ReturnsOnlyFull, HasInput
  <2> QED BY <2>2, <2>3
<1> QED BY <1>1, <1>2, <1>3, <1>4

LEMMA TrgStepAccept ==
  ASSUME TrgInv, AcceptNext
  PROVE  TrgInv'
<1>1. PICK f \in FreeFds : TakeCaller(f) /\ ours' = ours \union {f}
  BY DEF AcceptNext
<1>2. /\ gat = "accept" /\ backlog # << >> /\ gat' = "accept"
      /\ UNCHANGED <<gprog, octets, spoken, end, batch, sigq, newfd>>
  BY DEF AcceptNext, AfterAccept
<1>3. gprog # "rts" /\ newfd = {}
  BY <1>2 DEF TrgInv, Announcements
<1>4. /\ Lines' /\ ClosedAtEnd' /\ backlog' \in Seq(Caller)
      /\ Len(backlog') = Len(backlog) - 1
      /\ conn' \in [Caller -> {"out", "backlog", "open", "closed"}]
      /\ slot' \in [Fds -> Caller \union {NoCaller, Elsewhere}]
      /\ f \in Fds /\ f \notin ours /\ slot'[f] \in Caller
      /\ \A g \in Fds \ {f} : slot'[g] = slot[g]
  BY <1>1, <1>2, TakeCallerLines
<1>5. TrgTypes'
  BY <1>1, <1>2, <1>4 DEF TrgInv, TrgTypes
<1>6. Announcements'
  BY <1>2, <1>3, <1>4, TriggerAssumption DEF TrgInv, Announcements
<1>7. RecvHasInput'
  <2> SUFFICES ASSUME NEW g \in batch \ {Listener} PROVE HasInput(g)'
    BY <1>2 DEF RecvHasInput
  <2>1. g \in Fds /\ g # f /\ HasInput(g)
    BY <1>3, <1>4 DEF TrgInv, TrgTypes, TriggersKept, RecvHasInput
  <2> QED BY <1>2, <1>4, <2>1 DEF HasInput
<1>8. ReturnsOnlyFull'
  BY <1>2 DEF ReturnsOnlyFull
<1> QED BY <1>4, <1>5, <1>6, <1>7, <1>8 DEF TrgInv, TriggersKept

LEMMA TrgStepRecv ==
  ASSUME TrgInv, NEW f \in Fds, ScanRecv(f)
  PROVE  TrgInv'
<1>1. /\ gat = "scan" /\ f \in batch \ {Listener} /\ Receive(f) /\ batch' = batch \ {f}
      /\ UNCHANGED <<gprog, gat, backlog, spoken, sigq, newfd>>
  BY DEF ScanRecv, NextEvent
<1>2. gprog # "rts" /\ newfd = {}
  BY <1>1 DEF TrgInv, Announcements
<1>3. slot[f] \in Caller /\ slot[f] # Elsewhere
  BY <1>1, TriggerAssumption DEF TrgInv, TrgTypes, Lines
<1>4. Lines' /\ ClosedAtEnd'
  BY <1>1, <1>2, <1>3, ReceiveLines
<1>5. TrgTypes'
  <2>1. /\ conn' \in [Caller -> {"out", "backlog", "open", "closed"}]
        /\ slot' \in [Fds -> Caller \union {NoCaller, Elsewhere}]
        /\ octets' \in [Caller -> Nat] /\ end' \in [Caller -> {"no", "fin", "reset"}]
        /\ (ours' = ours \/ ours' = ours \ {f})
    BY <1>1, <1>3, ReceiveOne
  <2> QED BY <1>1, <2>1 DEF TrgInv, TrgTypes
<1>6. \A g \in Fds : slot'[g] \in {slot[g], NoCaller}
  BY <1>1, <1>3, ReceiveOne
<1>7. Announcements'
  BY <1>1, <1>2, <1>6 DEF TrgInv, Announcements, NoCaller, Elsewhere
<1>8. RecvHasInput'
  <2> SUFFICES ASSUME NEW g \in batch \ {Listener}, g # f PROVE HasInput(g)'
    BY <1>1 DEF RecvHasInput
  <2>1. g \in Fds /\ HasInput(g) /\ slot[g] \in Caller
    BY <1>2 DEF TrgInv, TrgTypes, TriggersKept, RecvHasInput, Lines
  <2>2. slot[g] # slot[f]
    BY <1>3, <2>1 DEF TrgInv, Lines
  <2>3. slot'[g] = slot[g] /\ octets'[slot[g]] = octets[slot[g]] /\ end'[slot[g]] = end[slot[g]]
    BY <1>1, <1>3, <2>1, <2>2, ReceiveOne
  <2> QED BY <1>1, <2>1, <2>3 DEF HasInput
<1>9. ReturnsOnlyFull'
  BY <1>1 DEF ReturnsOnlyFull
<1> QED BY <1>4, <1>5, <1>7, <1>8, <1>9 DEF TrgInv, TriggersKept

\* A queue that lost a signal still tells of clients only.
LEMMA NormDequeued ==
  ASSUME TrgInv, NEW n \in 1 .. Len(sigq), sigq' = Dequeued(sigq, n),
         \A g \in Fds : slot[g] # Elsewhere => slot'[g] # Elsewhere
  PROVE  /\ sigq' \in Seq(TrgSignal)
         /\ \A i \in 1 .. Len(sigq') :
              sigq'[i].sig = "NORM" => sigq'[i].fd \in Fds /\ slot'[sigq'[i].fd] # Elsewhere
<1>1. sigq \in Seq(TrgSignal)
  BY DEF TrgInv, TrgTypes
<1>2. /\ sigq' \in Seq(TrgSignal) /\ Len(sigq') = Len(sigq) - 1
      /\ \A i \in 1 .. Len(sigq) - 1 : sigq'[i] = IF i < n THEN sigq[i] ELSE sigq[i + 1]
  BY <1>1, DequeuedShape
<1>3. ASSUME NEW i \in 1 .. Len(sigq') PROVE \E j \in 1 .. Len(sigq) : sigq'[i] = sigq[j]
  <2>1. CASE i < n
    BY <1>1, <1>2, <2>1
  <2>2. CASE ~(i < n)
    <3>1. i + 1 \in 1 .. Len(sigq) /\ sigq'[i] = sigq[i + 1]
      BY <1>1, <1>2, <2>2
    <3> QED BY <3>1
  <2> QED BY <2>1, <2>2
<1>4. ASSUME NEW i \in 1 .. Len(sigq'), sigq'[i].sig = "NORM"
      PROVE  sigq'[i].fd \in Fds /\ slot'[sigq'[i].fd] # Elsewhere
  <2>1. PICK j \in 1 .. Len(sigq) : sigq'[i] = sigq[j]
    BY <1>3
  <2>2. sigq[j].fd \in Fds /\ slot[sigq[j].fd] # Elsewhere
    BY <1>4, <2>1 DEF TrgInv, Announcements
  <2> QED BY <2>1, <2>2
<1> QED BY <1>2, <1>4

LEMMA TrgStepListen ==
  ASSUME TrgInv, SigListen
  PROVE  TrgInv'
<1> DEFINE n == NextSignal
<1>1. /\ gprog = "rts" /\ gat = "wait" /\ sigq # << >> /\ sigq[n].sig = "LISTEN"
      /\ sigq' = Dequeued(sigq, n)
      /\ UNCHANGED <<gprog, ours, octets, spoken, end, edges, batch>>
  BY DEF SigListen
<1>2. n \in 1 .. Len(sigq)
  BY <1>1, NextSignalQueued DEF TrgInv
<1> HIDE DEF n
<1>3. sigq \in Seq(TrgSignal) /\ newfd = {} /\ batch = {}
  BY <1>1 DEF TrgInv, TrgTypes, Announcements
\* The signal announces a caller who still waits.
<1>4. /\ Cardinality(Announced(sigq)) <= Len(backlog) /\ Cardinality(Announced(sigq)) \in Nat
      /\ Cardinality(Announced(sigq) \ {n}) = Cardinality(Announced(sigq)) - 1
      /\ Cardinality(Announced(sigq) \ {n}) \in Nat
  <2>1. IsFiniteSet(Announced(sigq)) /\ Cardinality(Announced(sigq)) \in Nat
    BY <1>3, AnnouncedFinite
  <2>2. n \in Announced(sigq)
    BY <1>1, <1>2 DEF Announced
  <2>3. IsFiniteSet(Announced(sigq) \ {n})
    BY <2>1, FS_RemoveElement
  <2>4. Cardinality(Announced(sigq) \ {n}) = Cardinality(Announced(sigq)) - 1
    BY <2>1, <2>2, FS_RemoveElement
  <2>5. Cardinality(Announced(sigq) \ {n}) \in Nat
    BY <2>3, FS_CardinalityType
  <2> QED BY <1>1, <2>1, <2>4, <2>5 DEF TrgInv, Announcements
<1>5. backlog \in Seq(Caller) /\ Len(backlog) > 0 /\ backlog # << >>
  BY <1>4 DEF TrgInv, TrgTypes
<1>6. /\ Cardinality(Announced(sigq')) <= Len(backlog) - 1
      /\ Cardinality(Announced(sigq')) <= Len(backlog)
  <2>1. Cardinality(Announced(sigq')) <= Cardinality(Announced(sigq) \ {n})
    BY <1>1, <1>2, <1>3, AnnouncedDequeued
  <2>2. sigq' \in Seq(TrgSignal)
    BY <1>1, <1>2, <1>3, DequeuedShape
  <2>3. Cardinality(Announced(sigq')) \in Nat
    BY <2>2, AnnouncedFinite
  <2> QED BY <1>4, <1>5, <2>1, <2>3
<1>7. CASE FreeFds = {}
  <2>1. gat' = "returned" /\ UNCHANGED <<backlog, conn, slot, newfd>>
    BY <1>7 DEF SigListen
  <2>2. /\ sigq' \in Seq(TrgSignal)
        /\ \A i \in 1 .. Len(sigq') :
             sigq'[i].sig = "NORM" => sigq'[i].fd \in Fds /\ slot'[sigq'[i].fd] # Elsewhere
    BY <1>1, <1>2, <2>1, NormDequeued
  <2>3. TrgTypes' /\ Lines'
    BY <1>1, <2>1, <2>2 DEF TrgInv, TrgTypes, Lines
  <2>4. Announcements'
    BY <1>1, <1>3, <1>6, <2>1, <2>2 DEF Announcements
  <2>5. TriggersKept'
    BY <1>1, <1>7, <2>1
    DEF TrgInv, TriggersKept, ClosedAtEnd, RecvHasInput, ReturnsOnlyFull, FreeFds
  <2> QED BY <2>3, <2>4, <2>5 DEF TrgInv
<1>8. CASE FreeFds # {}
  <2>1. PICK f \in FreeFds : TakeCaller(f) /\ newfd' = {f} /\ gat' = "register"
    BY <1>5, <1>8 DEF SigListen
  <2>2. /\ Lines' /\ ClosedAtEnd' /\ backlog' \in Seq(Caller)
        /\ Len(backlog') = Len(backlog) - 1
        /\ conn' \in [Caller -> {"out", "backlog", "open", "closed"}]
        /\ slot' \in [Fds -> Caller \union {NoCaller, Elsewhere}]
        /\ f \in Fds /\ slot'[f] \in Caller
        /\ \A g \in Fds \ {f} : slot'[g] = slot[g]
    BY <1>1, <1>3, <1>5, <2>1, TakeCallerLines
  <2>3. \A g \in Fds : slot[g] # Elsewhere => slot'[g] # Elsewhere
    BY <2>2, TriggerAssumption
  <2>4. /\ sigq' \in Seq(TrgSignal)
        /\ \A i \in 1 .. Len(sigq') :
             sigq'[i].sig = "NORM" => sigq'[i].fd \in Fds /\ slot'[sigq'[i].fd] # Elsewhere
    BY <1>1, <1>2, <2>3, NormDequeued
  <2>5. TrgTypes'
    BY <1>1, <2>1, <2>2, <2>4 DEF TrgInv, TrgTypes
  <2>6. Announcements'
    BY <1>1, <1>3, <1>6, <2>1, <2>2, <2>4 DEF Announcements
  <2>7. TriggersKept'
    BY <1>1, <2>1, <2>2 DEF TriggersKept, RecvHasInput, ReturnsOnlyFull
  <2> QED BY <2>2, <2>5, <2>6, <2>7 DEF TrgInv
<1> QED BY <1>7, <1>8

LEMMA TrgStepRegister ==
  ASSUME TrgInv, add_rts_socket
  PROVE  TrgInv'
<1>1. /\ gat = "register" /\ gat' = "wait" /\ ours' = ours \union newfd /\ newfd' = {}
      /\ UNCHANGED <<gprog, backlog, conn, slot, octets, spoken, end, edges, batch, sigq>>
  BY DEF add_rts_socket
<1>2. gprog = "rts" /\ batch = {}
  BY <1>1 DEF TrgInv, TrgTypes, Announcements
<1>3. TrgTypes' /\ Lines' /\ Announcements'
  BY <1>1, <1>2 DEF TrgInv, TrgTypes, Lines, Announcements
<1>4. TriggersKept'
  BY <1>1, <1>2 DEF TrgInv, TriggersKept, ClosedAtEnd, RecvHasInput, ReturnsOnlyFull
<1> QED BY <1>3, <1>4 DEF TrgInv

LEMMA TrgStepNorm ==
  ASSUME TrgInv, SigNorm
  PROVE  TrgInv'
<1> DEFINE n == NextSignal
           f == sigq[n].fd
<1>1. /\ gprog = "rts" /\ gat = "wait" /\ sigq # << >> /\ sigq[n].sig = "NORM"
      /\ sigq' = Dequeued(sigq, n)
      /\ UNCHANGED <<gprog, gat, backlog, spoken, edges, batch, newfd>>
      /\ (Receive(f) \/ UNCHANGED <<conn, slot, ours, octets, end, missed>>)
  BY DEF SigNorm
<1>2. n \in 1 .. Len(sigq)
  BY <1>1, NextSignalQueued DEF TrgInv
<1> HIDE DEF n
<1>3. sigq \in Seq(TrgSignal) /\ newfd = {} /\ batch = {}
  BY <1>1 DEF TrgInv, TrgTypes, Announcements
<1>4. f \in Fds /\ slot[f] # Elsewhere
  BY <1>1, <1>2 DEF TrgInv, Announcements
<1> HIDE DEF f
<1>5. Lines' /\ ClosedAtEnd'
  <2>1. CASE Receive(f)
    BY <1>1, <1>3, <1>4, <2>1, ReceiveLines
  <2>2. CASE UNCHANGED <<conn, slot, ours, octets, end, missed>>
    BY <1>1, <2>2 DEF TrgInv, Lines, TriggersKept, ClosedAtEnd
  <2> QED BY <1>1, <2>1, <2>2
<1>6. /\ conn' \in [Caller -> {"out", "backlog", "open", "closed"}]
      /\ slot' \in [Fds -> Caller \union {NoCaller, Elsewhere}]
      /\ octets' \in [Caller -> Nat] /\ end' \in [Caller -> {"no", "fin", "reset"}]
      /\ ours' \subseteq ours
      /\ \A g \in Fds : slot'[g] \in {slot[g], NoCaller}
  <2>1. CASE Receive(f)
    BY <1>4, <2>1, ReceiveOne
  <2>2. CASE UNCHANGED <<conn, slot, ours, octets, end, missed>>
    BY <2>2 DEF TrgInv, TrgTypes
  <2> QED BY <1>1, <2>1, <2>2
<1>7. /\ sigq' \in Seq(TrgSignal)
      /\ \A i \in 1 .. Len(sigq') :
           sigq'[i].sig = "NORM" => sigq'[i].fd \in Fds /\ slot'[sigq'[i].fd] # Elsewhere
  <2>1. \A g \in Fds : slot[g] # Elsewhere => slot'[g] # Elsewhere
    BY <1>6 DEF NoCaller, Elsewhere
  <2> QED BY <1>1, <1>2, <2>1, NormDequeued
<1>8. Cardinality(Announced(sigq')) <= Len(backlog)
  <2>1. Announced(sigq) \ {n} = Announced(sigq)
    BY <1>1 DEF Announced
  <2>2. Cardinality(Announced(sigq')) <= Cardinality(Announced(sigq))
    BY <1>1, <1>2, <1>3, <2>1, AnnouncedDequeued
  <2>3. Cardinality(Announced(sigq)) \in Nat /\ Cardinality(Announced(sigq')) \in Nat
    BY <1>3, <1>7, AnnouncedFinite
  <2>4. Cardinality(Announced(sigq)) <= Len(backlog) /\ backlog \in Seq(Caller)
    BY <1>1 DEF TrgInv, TrgTypes, Announcements
  <2> QED BY <2>2, <2>3, <2>4
<1>9. TrgTypes'
  BY <1>1, <1>3, <1>6, <1>7 DEF TrgInv, TrgTypes
<1>10. Announcements'
  BY <1>1, <1>3, <1>7, <1>8 DEF TrgInv, Announcements
<1>11. TriggersKept'
  BY <1>1, <1>5 DEF TriggersKept, RecvHasInput, ReturnsOnlyFull
<1> QED BY <1>5, <1>9, <1>10, <1>11 DEF TrgInv

\* A queue that got a signal more.
LEMMA SignalQueued ==
  ASSUME TrgInv, NEW e \in TrgSignal, gprog = "rts", Queue(e), UNCHANGED <<gprog, slot>>,
         e.sig = "NORM" => e.fd \in Fds /\ slot[e.fd] # Elsewhere, gat \notin {"returned"},
         backlog' \in Seq(Caller), Len(backlog') >= Len(backlog),
         e.sig = "LISTEN" => Len(backlog') = Len(backlog) + 1,
         UNCHANGED <<batch, newfd>>
  PROVE  /\ sigq' \in Seq(TrgSignal) /\ gat' \in {gat, "killed"}
         /\ Announcements'
<1> USE DEF TrgInv
<1>1. sigq \in Seq(TrgSignal) /\ backlog \in Seq(Caller) /\ batch = {}
      /\ Cardinality(Announced(sigq)) <= Len(backlog) /\ Cardinality(Announced(sigq)) \in Nat
  BY AnnouncedFinite DEF TrgTypes, Announcements
<1>2. CASE Len(sigq) < MaxQueued
  <2>1. sigq' = Append(sigq, e) /\ gat' = gat
    BY <1>2 DEF Queue
  <2>2. sigq' \in Seq(TrgSignal) /\ Cardinality(Announced(sigq')) \in Nat
    <3>1. sigq' \in Seq(TrgSignal)
      BY <1>1, <2>1
    <3> QED BY <3>1, AnnouncedFinite
  <2>3. Cardinality(Announced(sigq')) <= Len(backlog')
    <3>1. /\ e.sig # "LISTEN" => Announced(sigq') = Announced(sigq)
          /\ Cardinality(Announced(sigq')) <= Cardinality(Announced(sigq)) + 1
      BY <1>1, <2>1, AnnouncedAppended
    <3> QED BY <3>1, <1>1, <2>2
  <2>4. ASSUME NEW i \in 1 .. Len(sigq'), sigq'[i].sig = "NORM"
        PROVE  sigq'[i].fd \in Fds /\ slot'[sigq'[i].fd] # Elsewhere
    <3>1. CASE i \in 1 .. Len(sigq)
      <4>1. sigq'[i] = sigq[i]
        BY <1>1, <2>1, <3>1
      <4> QED BY <2>4, <3>1, <4>1 DEF Announcements
    <3>2. CASE i = Len(sigq) + 1
      <4>1. sigq'[i] = e
        BY <1>1, <2>1, <3>2
      <4> QED BY <2>4, <4>1
    <3> QED BY <1>1, <2>1, <3>1, <3>2
  <2>5. Announcements'
    BY <1>1, <2>1, <2>3, <2>4 DEF Announcements
  <2> QED BY <2>1, <2>2, <2>5
<1>3. CASE ~(Len(sigq) < MaxQueued)
  <2>1. sigq' = sigq /\ gat' = "killed"
    BY <1>3 DEF Queue
  <2>2. Announcements'
    BY <1>1, <2>1 DEF Announcements
  <2> QED BY <1>1, <2>1, <2>2
<1> QED BY <1>2, <1>3

\* Nothing is said, or a signal is queued: what an arrival for a caller changes.
LEMMA ArrivesKeeps ==
  ASSUME TrgInv, Serving, NEW c \in Caller, NEW band \in {"IN", "ERR"}, Arrives(c, band),
         UNCHANGED <<gprog, slot, backlog, batch, newfd>>
  PROVE  /\ sigq' \in Seq(TrgSignal) /\ gat' \in {gat, "killed"}
         /\ (gprog # "rts" => gat' = gat) /\ Announcements'
<1> DEFINE fs == FdOf(c) \intersect ours
           f  == CHOOSE g \in fs : TRUE
<1>1. CASE fs = {} \/ gprog # "rts"
  <2>1. UNCHANGED <<gat, sigq>>
    BY <1>1 DEF Arrives, Quiet, Report
  <2> QED BY <2>1 DEF TrgInv, TrgTypes, Announcements
<1>2. CASE fs # {} /\ gprog = "rts"
  <2>1. f \in Fds /\ slot[f] = c /\ f # Listener /\ c # Elsewhere
    BY <1>2, TriggerAssumption DEF FdOf
  <2>2. Report(f, band)
    BY <1>2 DEF Arrives
  <2> HIDE DEF f
  <2>3. Queue([sig |-> "NORM", fd |-> f, band |-> band])
    BY <1>2, <2>1, <2>2 DEF Report
  <2>4. [sig |-> "NORM", fd |-> f, band |-> band] \in TrgSignal
    BY <2>1 DEF TrgSignal
  <2>5. backlog \in Seq(Caller) /\ gat # "returned"
    BY DEF TrgInv, TrgTypes, Serving
  <2>6. /\ sigq' \in Seq(TrgSignal) /\ gat' \in {gat, "killed"} /\ Announcements'
    BY <1>2, <2>1, <2>3, <2>4, <2>5, SignalQueued
  <2> QED BY <1>2, <2>6
<1> QED BY <1>1, <1>2

LEMMA TrgStepArrive ==
  ASSUME TrgInv, NEW c \in Caller, Talk(c) \/ HangUp(c) \/ Abort(c)
  PROVE  TrgInv'
<1>1. /\ Serving /\ conn[c] \in {"backlog", "open"} /\ end[c] = "no"
      /\ UNCHANGED <<gprog, backlog, conn, slot, ours, batch, newfd>>
      /\ \E band \in {"IN", "ERR"} : Arrives(c, band)
  BY DEF Talk, HangUp, Abort, Online
<1>2. /\ octets' \in [Caller -> Nat] /\ end' \in [Caller -> {"no", "fin", "reset"}]
      /\ octets'[c] >= octets[c]
      /\ \A d \in Caller : d # c => octets'[d] = octets[d] /\ end'[d] = end[d]
  <2>1. CASE Talk(c)
    BY <2>1 DEF Talk, TrgInv, TrgTypes
  <2>2. CASE HangUp(c)
    BY <2>2 DEF HangUp, TrgInv, TrgTypes
  <2>3. CASE Abort(c)
    BY <2>3 DEF Abort, TrgInv, TrgTypes
  <2> QED BY <2>1, <2>2, <2>3
<1>3. /\ sigq' \in Seq(TrgSignal) /\ gat' \in {gat, "killed"}
      /\ (gprog # "rts" => gat' = gat) /\ Announcements'
  BY <1>1, ArrivesKeeps
<1>4. TrgTypes' /\ Lines'
  BY <1>1, <1>2, <1>3 DEF TrgInv, TrgTypes, Lines
<1>5. ClosedAtEnd'
  BY <1>1, <1>2 DEF TrgInv, TriggersKept, ClosedAtEnd
<1>6. RecvHasInput'
  <2> SUFFICES ASSUME gprog # "rts", NEW g \in batch \ {Listener} PROVE HasInput(g)'
    BY <1>1 DEF RecvHasInput
  <2>1. g \in Fds /\ HasInput(g) /\ slot[g] \in Caller
    BY DEF TrgInv, TrgTypes, TriggersKept, RecvHasInput, Lines
  <2>2. CASE slot[g] # c
    BY <1>1, <1>2, <2>1, <2>2 DEF HasInput
  <2>3. CASE slot[g] = c
    <3>1. octets[c] > 0
      BY <1>1, <2>1, <2>3, TriggerAssumption DEF HasInput
    <3>2. octets'[c] > 0
      BY <1>2, <3>1 DEF TrgInv, TrgTypes
    <3> QED BY <1>1, <2>1, <2>3, <3>2, TriggerAssumption DEF HasInput
  <2> QED BY <2>2, <2>3
<1>7. ReturnsOnlyFull'
  BY <1>1, <1>3 DEF ReturnsOnlyFull, Serving
<1> QED BY <1>3, <1>4, <1>5, <1>6, <1>7 DEF TrgInv, TriggersKept

LEMMA TrgStepDial ==
  ASSUME TrgInv, NEW c \in Caller, Dial(c)
  PROVE  TrgInv'
<1>1. /\ Serving /\ conn[c] = "out" /\ conn' = [conn EXCEPT ![c] = "backlog"]
      /\ backlog' = Append(backlog, c)
      /\ UNCHANGED <<gprog, slot, ours, octets, spoken, end, batch, newfd>>
      /\ (Report(Listener, "IN") \/ Quiet)
  BY DEF Dial
<1>2. /\ backlog' \in Seq(Caller) /\ Len(backlog') = Len(backlog) + 1
      /\ backlog'[Len(backlog) + 1] = c /\ backlog \in Seq(Caller)
      /\ \A n \in 1 .. Len(backlog) : backlog'[n] = backlog[n] /\ backlog[n] \in Caller
  BY <1>1 DEF TrgInv, TrgTypes
<1>3. /\ conn' \in [Caller -> {"out", "backlog", "open", "closed"}] /\ conn'[c] = "backlog"
      /\ \A d \in Caller \ {c} : conn'[d] = conn[d]
  BY <1>1 DEF TrgInv, TrgTypes
<1>4. /\ sigq' \in Seq(TrgSignal) /\ gat' \in {gat, "killed"} /\ Announcements'
  <2>1. CASE gprog = "rts" /\ Report(Listener, "IN")
    <3>1. Queue([sig |-> "LISTEN", fd |-> Listener, band |-> "IN"])
      BY <2>1 DEF Report
    <3>2. [sig |-> "LISTEN", fd |-> Listener, band |-> "IN"] \in TrgSignal
      BY DEF TrgSignal
    <3>3. gat # "returned"
      BY <1>1 DEF Serving
    <3> QED BY <1>1, <1>2, <2>1, <3>1, <3>2, <3>3, SignalQueued
  <2>2. CASE gprog # "rts" \/ Quiet
    <3>1. UNCHANGED <<gat, sigq>>
      BY <1>1, <2>2 DEF Report, Quiet
    <3>2. gprog = "rts" => Cardinality(Announced(sigq)) <= Len(backlog')
      <4>1. sigq \in Seq(TrgSignal)
        BY DEF TrgInv, TrgTypes
      <4>2. Cardinality(Announced(sigq)) \in Nat
        BY <4>1, AnnouncedFinite
      <4> QED BY <1>2, <4>2 DEF TrgInv, Announcements
    <3> QED BY <1>1, <3>1, <3>2 DEF TrgInv, TrgTypes, Announcements
  <2> QED BY <1>1, <2>1, <2>2
<1>5. TrgTypes'
  BY <1>1, <1>2, <1>3, <1>4 DEF TrgInv, TrgTypes
<1>6. Lines'
  <2>1. \A f \in Fds : f \in ours' \union newfd' => slot'[f] \in Caller
    BY <1>1 DEF TrgInv, Lines
  <2>2. \A f \in Fds : slot'[f] \in Caller => conn'[slot'[f]] = "open"
    BY <1>1, <1>3 DEF TrgInv, Lines
  <2>3. \A f, g \in Fds : slot'[f] \in Caller /\ slot'[f] = slot'[g] => f = g
    BY <1>1 DEF TrgInv, Lines
  <2>4. \A n \in 1 .. Len(backlog) : conn[backlog[n]] = "backlog" /\ backlog[n] # c
    BY <1>1 DEF TrgInv, Lines
  <2>5. \A n \in 1 .. Len(backlog') : conn'[backlog'[n]] = "backlog"
    BY <1>2, <1>3, <2>4
  <2>6. \A m, n \in 1 .. Len(backlog') : backlog'[m] = backlog'[n] => m = n
    BY <1>2, <2>4 DEF TrgInv, Lines
  <2> QED BY <2>1, <2>2, <2>3, <2>5, <2>6 DEF Lines
<1>7. ClosedAtEnd'
  BY <1>1, <1>3 DEF TrgInv, TriggersKept, ClosedAtEnd
<1>8. RecvHasInput'
  BY <1>1 DEF TrgInv, TriggersKept, RecvHasInput, HasInput
<1>9. ReturnsOnlyFull'
  BY <1>1, <1>4 DEF ReturnsOnlyFull, Serving
<1> QED BY <1>4, <1>5, <1>6, <1>7, <1>8, <1>9 DEF TrgInv, TriggersKept

\* A connection is closed at its end and not before, the epoll programs receive only where
\* there is input, and io_rts returns only when it has no descriptor left, for any number of
\* callers, descriptors, octets and queued signals.
THEOREM TriggersCorrect == TrgSpec => []TriggersKept
<1>1. TrgInv /\ [TrgNext]_trgvars => TrgInv'
  <2> SUFFICES ASSUME TrgInv, [TrgNext]_trgvars PROVE TrgInv'
    OBVIOUS
  <2>1. CASE UNCHANGED trgvars
    BY <2>1 DEF trgvars, TrgInv, TrgTypes, Lines, Announcements, TriggersKept, ClosedAtEnd,
                RecvHasInput, ReturnsOnlyFull, HasInput, FreeFds
  <2>2. CASE Server
    <3>1. \/ AddListener \/ EpollWait \/ ScanListener \/ AcceptEnds \/ ScanEnds \/ AcceptNext
          \/ (\E f \in Fds : ScanRecv(f)) \/ SigListen \/ add_rts_socket \/ SigNorm
      BY <2>2 DEF Server
    <3> QED BY <3>1, TrgStepScan, TrgStepAccept, TrgStepRecv, TrgStepListen, TrgStepRegister,
               TrgStepNorm
  <2>3. CASE \E c \in Caller : Dial(c) \/ Talk(c) \/ HangUp(c) \/ Abort(c)
    <3>1. PICK c \in Caller : Dial(c) \/ Talk(c) \/ HangUp(c) \/ Abort(c)
      BY <2>3
    <3>2. CASE Dial(c)
      BY <3>2, TrgStepDial
    <3>3. CASE Talk(c) \/ HangUp(c) \/ Abort(c)
      BY <3>3, TrgStepArrive
    <3> QED BY <3>1, <3>2, <3>3
  <2>4. CASE EpollCtlFails
    BY <2>4 DEF EpollCtlFails, TrgInv, TrgTypes, Lines, Announcements, TriggersKept, ClosedAtEnd,
                RecvHasInput, ReturnsOnlyFull, HasInput, FreeFds
  <2> QED BY <2>1, <2>2, <2>3, <2>4 DEF TrgNext
<1>2. TrgInv => TriggersKept
  BY DEF TrgInv
<1> QED BY TrgInitInv, <1>1, <1>2, PTL DEF TrgSpec

(***************************************************************************)
(* List copies: what the control blocks and the buffers stand for.         *)
(***************************************************************************)

\* Blocks that a list takes before it is handed over.
ListLen  == NUM_AIOCB_ARRAY - 1
Entry(k) == [write |-> TRUE, nbytes |-> Width, offset |-> Width * k]
CtlBlock == [write : BOOLEAN, nbytes : {0, Width}, offset : Nat]

\* The block that entry i is to describe, and the first block of the list.
Here  == IF cat \in {"got", "listed"} /\ ret # 0 THEN pos - 1 ELSE pos
First == Here - ix
Under == cat \in {"read", "reading", "got", "listed"}

CopyTypes ==
  /\ cmode \in {"wait", "nowait"} /\ blocks \in Nat /\ oldblocks \in Nat
  /\ pos \in 0 .. blocks /\ ret \in {0, Width} /\ ix \in Ctl /\ tot_len \in Nat
  /\ rbuf \in [Ctl -> SUBSET (Nat \union {Nothing})] /\ aio_blk \in [Ctl -> CtlBlock]
  /\ asked \in [Ctl -> Nat] /\ seen \in [Ctl -> SUBSET CtlBlock]
  /\ held \in [Ctl -> SUBSET (Nat \X (0 .. Width - 1))] /\ DOMAIN out \subseteq Nat
  /\ cat \in {"read", "reading", "got", "listed", "sleep", "end"}

\* The list describes the blocks read since it was last handed over, a whole number of lists
\* ago, and their buffers hold them, but the first one keeps block 0.
Listing ==
  /\ Under =>
       /\ First \in Nat /\ First % ListLen = 0 /\ (ix = 0 => Here = 0) /\ tot_len = Width * Here
       /\ \A b \in Ctl : aio_blk[b] = IF b < ix THEN Entry(First + b) ELSE Zeroed
       /\ \A b \in Ctl : b < ix => rbuf[b] = {IF b = 0 THEN 0 ELSE First + b}
  /\ cat = "reading" => pos < blocks
  /\ cat \in {"got", "listed"} => IF ret = 0 THEN pos = blocks ELSE pos > 0 /\ rbuf[ix] = {pos - 1}
  /\ cat = "listed" => TimeToWrite

\* All but the last buffer hold blocks of their number only, the first one block 0.
OwnBlock(j, b, n) == j \in 0 .. n - 1 /\ (IF b = 0 THEN j = 0 ELSE j % ListLen = b)
Buffers == \A b \in Ctl : b # ListLen => \A j \in rbuf[b] : j = Nothing \/ OwnBlock(j, b, blocks)

\* What the library may find in control block b, whole or torn, when p of n blocks were read
\* and the buffer holds B: each field for itself is 0 or right, but for the offset of the last
\* block 0.
Place(o, b, p, B, n) ==
  \/ o = 0
  \/ b = 0 /\ o = Width * n
  \/ \E k \in 0 .. p - 1 : o = Width * k /\ k % ListLen = b /\ (b # 0 => \A j \in B : j >= k)
Full(b, B) == b # ListLen /\ Nothing \notin B
Fits(c, b, p, B, n) == Place(c.offset, b, p, B, n) /\ (c.nbytes > 0 => Full(b, B))
Covers(w, b, p, B, n) == Full(b, B) /\ \E o \in Nat : Place(o, b, p, B, n) /\ w[1] = o + w[2]

Requests ==
  \A b \in Ctl :
    /\ Fits(aio_blk[b], b, pos, rbuf[b], blocks)
    /\ \A c \in seen[b] : Fits(c, b, pos, rbuf[b], blocks)
    /\ \A w \in held[b] : Covers(w, b, pos, rbuf[b], blocks)

\* When lio_listio waits nothing is under way but the list that was handed over, of which an
\* octet is right or still to be written; all before it are right.
Right(o) ==
  o \in DOMAIN out /\ out[o] = <<IF (o \div Width) % ListLen = 0 THEN 0 ELSE o \div Width, o % Width>>
OctetAt(b, i) == Width * (First + b) + i
Awaited(b, i) == asked[b] > 0 \/ seen[b] # {} \/ <<OctetAt(b, i), i>> \in held[b]
Idle == \A b \in Ctl : asked[b] = 0 /\ seen[b] = {} /\ held[b] = {}
Expected ==
  /\ \A b \in Ctl : seen[b] \subseteq {aio_blk[b]}
  /\ \A b \in Ctl : \A w \in held[b] : b < ix /\ w[1] = OctetAt(b, w[2])
  /\ \A b \in Ctl, i \in 0 .. Width - 1 : b < ix => Right(OctetAt(b, i)) \/ Awaited(b, i)
Written ==
  /\ \A o \in DOMAIN out : (o < Width * blocks /\ Right(o)) \/ OldOctet(o)
  /\ 0 .. Width * oldblocks - 1 \subseteq DOMAIN out
Done == IF Under THEN First ELSE blocks
Waits ==
  cmode = "wait" =>
    /\ Written /\ (\A o \in 0 .. Width * Done - 1 : Right(o))
    /\ IF cat = "listed" THEN Expected ELSE Idle

AioInv == CopyTypes /\ Listing /\ Buffers /\ Requests /\ Waits /\ NeverOlder

LEMMA ListNumbers ==
  ListLen \in Nat \ {0} /\ ListLen \in Ctl /\ 0 \in Ctl /\ Ctl \subseteq Nat /\ Width = 2
    /\ Ctl = 0 .. ListLen /\ NUM_AIOCB_ARRAY - 1 = ListLen /\ Nothing \in Int /\ Nothing < 0
BY CopyAssumption DEF ListLen, Ctl, Width, Nothing

LEMMA WithinList ==
  ASSUME NEW n \in Nat \ {0}, NEW b \in Nat, b % n = 0, NEW j \in 0 .. n - 1
  PROVE  (b + j) % n = j
OBVIOUS

LEMMA NextList ==
  ASSUME NEW n \in Nat \ {0}, NEW b \in Nat, b % n = 0
  PROVE  (b + n) % n = 0
<1>1. PICK q \in Int : q = b \div n
  OBVIOUS
<1>2. b = n * q
  BY <1>1
<1>3. b + n = n * (q + 1)
  BY <1>2
<1>4. (n * (q + 1)) % n = 0
  OBVIOUS
<1> QED BY <1>3, <1>4

LEMMA BlockOfOctet ==
  ASSUME NEW k \in Nat, NEW c \in 0 .. 1
  PROVE  (2 * k + c) \div 2 = k /\ (2 * k + c) % 2 = c
OBVIOUS

LEMMA HalfOf ==
  ASSUME NEW o \in Nat
  PROVE  \E d \in Nat : \E m \in 0 .. 1 : d = o \div 2 /\ m = o % 2 /\ o = 2 * d + m
<1>1. PICK d \in Int, m \in Int : d = o \div 2 /\ m = o % 2
  OBVIOUS
<1>2. o = 2 * d + m /\ m \in 0 .. 1
  BY <1>1
<1>3. d \in Nat
  BY <1>2
<1> QED BY <1>1, <1>2, <1>3

LEMMA ZeroedFits ==
  ASSUME NEW b, NEW p, NEW B, NEW n
  PROVE  Zeroed \in CtlBlock /\ Fits(Zeroed, b, p, B, n)
BY DEF Zeroed, CtlBlock, Fits, Place

\* More is read, into a buffer that may be another one.
LEMMA PlaceStays ==
  ASSUME NEW o, NEW b, NEW p \in Nat, NEW q \in Nat, q >= p, NEW B, NEW C, C \subseteq B \union {p},
         NEW n, Place(o, b, p, B, n)
  PROVE  Place(o, b, q, C, n)
<1>1. CASE o = 0 \/ (b = 0 /\ o = Width * n)
  BY <1>1 DEF Place
<1>2. CASE \E k \in 0 .. p - 1 : o = Width * k /\ k % ListLen = b /\ (b # 0 => \A j \in B : j >= k)
  <2>1. PICK k \in 0 .. p - 1 : o = Width * k /\ k % ListLen = b /\ (b # 0 => \A j \in B : j >= k)
    BY <1>2
  <2>2. k \in 0 .. q - 1 /\ p >= k
    OBVIOUS
  <2>3. b # 0 => \A j \in C : j >= k
    BY <2>1, <2>2
  <2> QED BY <2>1, <2>2, <2>3 DEF Place
<1> QED BY <1>1, <1>2 DEF Place

LEMMA RequestsStay ==
  ASSUME CopyTypes, Requests, NEW q \in Nat, q >= pos, NEW bufs,
         \A b \in Ctl : bufs[b] \subseteq rbuf[b] \union {pos}
  PROVE  \A b \in Ctl :
           /\ Fits(aio_blk[b], b, q, bufs[b], blocks)
           /\ \A c \in seen[b] : Fits(c, b, q, bufs[b], blocks)
           /\ \A w \in held[b] : Covers(w, b, q, bufs[b], blocks)
<1> SUFFICES ASSUME NEW b \in Ctl
             PROVE  /\ Fits(aio_blk[b], b, q, bufs[b], blocks)
                    /\ \A c \in seen[b] : Fits(c, b, q, bufs[b], blocks)
                    /\ \A w \in held[b] : Covers(w, b, q, bufs[b], blocks)
  OBVIOUS
<1>1. pos \in Nat /\ bufs[b] \subseteq rbuf[b] \union {pos}
  BY DEF CopyTypes
<1>2. \A o : Place(o, b, pos, rbuf[b], blocks) => Place(o, b, q, bufs[b], blocks)
  BY <1>1, PlaceStays
<1>3. Full(b, rbuf[b]) => Full(b, bufs[b])
  BY <1>1, ListNumbers DEF Full
<1> QED BY <1>2, <1>3 DEF Requests, Fits, Covers

LEMMA OutSame ==
  ASSUME UNCHANGED <<blocks, oldblocks, out>>
  PROVE  (\A o : Right(o)' <=> Right(o)) /\ (Written => Written') /\ (NeverOlder => NeverOlder')
<1>1. \A o : (Right(o)' <=> Right(o)) /\ (OldOctet(o)' <=> OldOctet(o))
  BY DEF Right, OldOctet
<1>2. Written => Written'
  BY <1>1 DEF Written
<1>3. NeverOlder => NeverOlder'
  BY <1>1 DEF NeverOlder
<1> QED BY <1>1, <1>2, <1>3

LEMMA AioStart == AioInit => AioInv
<1> SUFFICES ASSUME AioInit PROVE AioInv
  OBVIOUS
<1>1. PICK k \in {"wait", "nowait"}, n \in Lengths, old \in OldLengths : AioAt(k, n, old, "read")
  BY DEF AioInit
<1>2. n \in Nat /\ old \in Nat
  BY CopyAssumption
<1>3. /\ cmode = k /\ blocks = n /\ oldblocks = old /\ pos = 0 /\ ret = 0
      /\ rbuf = [b \in Ctl |-> {Nothing}] /\ aio_blk = [b \in Ctl |-> Zeroed]
      /\ ix = 0 /\ tot_len = 0
      /\ asked = [b \in Ctl |-> 0] /\ seen = [b \in Ctl |-> {}] /\ held = [b \in Ctl |-> {}]
      /\ out = [o \in 0 .. Width * old - 1 |-> <<Nothing, o % Width>>] /\ cat = "read"
  BY <1>1 DEF AioAt
<1>4. CopyTypes
  <2>1. aio_blk \in [Ctl -> CtlBlock]
    BY <1>3, ZeroedFits
  <2>2. held \in [Ctl -> SUBSET (Nat \X (0 .. Width - 1))] /\ seen \in [Ctl -> SUBSET CtlBlock]
    BY <1>3
  <2>3. DOMAIN out \subseteq Nat
    BY <1>2, <1>3, ListNumbers
  <2>4. rbuf \in [Ctl -> SUBSET (Nat \union {Nothing})] /\ asked \in [Ctl -> Nat]
    BY <1>3
  <2>5. pos \in 0 .. blocks /\ ret \in {0, Width} /\ ix \in Ctl /\ tot_len \in Nat
    BY <1>2, <1>3, ListNumbers
  <2> QED BY <1>2, <1>3, <2>1, <2>2, <2>3, <2>4, <2>5 DEF CopyTypes
<1>5. Here = 0 /\ First = 0 /\ Under
  BY <1>3 DEF Here, First, Under
<1>6. Listing
  <2>1. \A b \in Ctl : ~(b < 0)
    BY ListNumbers
  <2>2. 0 % ListLen = 0 /\ Width * 0 = 0
    BY ListNumbers
  <2> QED BY <1>3, <1>5, <2>1, <2>2 DEF Listing
<1>7. Buffers /\ Requests
  BY <1>3, ZeroedFits DEF Buffers, Requests
<1>8. \A o \in DOMAIN out : OldOctet(o)
  BY <1>2, <1>3, ListNumbers DEF OldOctet
<1>9. Waits
  <2>1. Written
    BY <1>3, <1>8 DEF Written
  <2>2. 0 .. Width * Done - 1 = {}
    BY <1>5, ListNumbers DEF Done
  <2>3. Idle /\ cat # "listed"
    BY <1>3 DEF Idle
  <2> QED BY <2>1, <2>2, <2>3 DEF Waits
<1>10. NeverOlder
  BY <1>8 DEF NeverOlder
<1> QED BY <1>4, <1>6, <1>7, <1>9, <1>10 DEF AioInv

\* The block that is read next has the number of its buffer, but for the last one.
LEMMA NextBlock ==
  ASSUME AioInv, cat \in {"read", "reading"}, pos < blocks
  PROVE  /\ Here = pos /\ First = pos - ix /\ First \in Nat /\ pos \in Nat /\ ix \in Nat /\ ix <= ListLen
         /\ ix # ListLen => OwnBlock(pos, ix, blocks)
<1>1. /\ Here = pos /\ First = pos - ix /\ First \in Nat /\ First % ListLen = 0 /\ (ix = 0 => pos = 0)
      /\ pos \in Nat /\ ix \in 0 .. ListLen /\ blocks \in Nat /\ ListLen \in Nat \ {0}
  BY ListNumbers DEF AioInv, CopyTypes, Listing, Under, Here, First
<1>2. ASSUME ix # ListLen, ix # 0 PROVE pos % ListLen = ix
  <2>1. ix \in 0 .. ListLen - 1 /\ pos = First + ix
    BY <1>1, <1>2
  <2>2. (First + ix) % ListLen = ix
    BY <1>1, <2>1, WithinList
  <2> QED BY <2>1, <2>2
<1> QED BY <1>1, <1>2 DEF OwnBlock

LEMMA AioReads ==
  ASSUME AioInv, ReadStarts \/ ReadBlock \/ ReadEnd
  PROVE  AioInv'
<1> USE DEF AioInv
<1>0. /\ UNCHANGED <<cmode, blocks, oldblocks, aio_blk, ix, tot_len, asked, seen, held, out>>
      /\ cat \in {"read", "reading"} /\ cat' \in {"reading", "got"}
  BY DEF ReadStarts, ReadBlock, ReadEnd
<1>1. /\ rbuf' \in [Ctl -> SUBSET (Nat \union {Nothing})] /\ pos' \in 0 .. blocks /\ ret' \in {0, Width}
      /\ pos' \in Nat /\ pos' >= pos
      /\ \A b \in Ctl : rbuf'[b] \subseteq rbuf[b] \union {pos}
      /\ \A b \in Ctl : b # ix => rbuf'[b] = rbuf[b]
      /\ Here' = Here /\ First' = First /\ Under /\ Under'
      /\ pos \in rbuf'[ix] => pos < blocks \/ rbuf' = rbuf
  <2>1. pos \in Nat /\ blocks \in Nat /\ ix \in Ctl /\ Width \in Nat /\ Width # 0
    BY ListNumbers DEF CopyTypes
  <2>2. CASE ReadStarts
    <3>1. /\ rbuf' = [rbuf EXCEPT ![ix] = @ \union {pos}] /\ pos' = pos /\ ret' = ret
          /\ cat = "read" /\ cat' = "reading" /\ pos < blocks
      BY <2>2 DEF ReadStarts
    <3> QED BY <1>0, <2>1, <3>1 DEF CopyTypes, Here, First, Under
  <2>3. CASE ReadBlock
    <3>1. /\ rbuf' = [rbuf EXCEPT ![ix] = {pos}] /\ pos' = pos + 1 /\ ret' = Width
          /\ cat = "reading" /\ cat' = "got" /\ pos < blocks
      BY <2>3 DEF ReadBlock, Listing
    <3>2. Here = pos /\ Here' = pos
      BY <2>1, <3>1 DEF Here
    <3> QED BY <1>0, <2>1, <3>1, <3>2 DEF CopyTypes, First, Under
  <2>4. CASE ReadEnd
    <3>1. UNCHANGED <<rbuf, pos>> /\ ret' = 0 /\ cat = "read" /\ cat' = "got"
      BY <2>4 DEF ReadEnd
    <3>2. Here = pos /\ Here' = pos
      BY <2>1, <3>1 DEF Here
    <3> QED BY <1>0, <2>1, <3>1, <3>2 DEF CopyTypes, First, Under
  <2> QED BY <2>2, <2>3, <2>4
<1>2. CopyTypes'
  BY <1>0, <1>1 DEF CopyTypes
<1>3. Listing'
  <2>1. /\ First' \in Nat /\ First' % ListLen = 0 /\ (ix' = 0 => Here' = 0) /\ tot_len' = Width * Here'
        /\ \A b \in Ctl : aio_blk'[b] = IF b < ix' THEN Entry(First' + b) ELSE Zeroed
    BY <1>0, <1>1 DEF Listing
  <2>2. ASSUME NEW b \in Ctl, b < ix' PROVE rbuf'[b] = {IF b = 0 THEN 0 ELSE First' + b}
    <3>1. b # ix
      BY <1>0, <2>2, ListNumbers
    <3> QED BY <1>0, <1>1, <2>2, <3>1 DEF Listing
  <2>3. cat' = "reading" => pos' < blocks'
    BY <1>0 DEF ReadStarts, ReadBlock, ReadEnd
  <2>4. cat' = "got" => IF ret' = 0 THEN pos' = blocks' ELSE pos' > 0 /\ rbuf'[ix'] = {pos' - 1}
    <3>1. CASE ReadBlock
      <4>1. /\ rbuf' = [rbuf EXCEPT ![ix] = {pos}] /\ pos' = pos + 1 /\ ret' = Width /\ ix' = ix
        BY <3>1 DEF ReadBlock
      <4>2. pos \in Nat /\ ix \in Ctl /\ rbuf'[ix] = {pos}
        BY <4>1 DEF CopyTypes
      <4> QED BY <4>1, <4>2, ListNumbers
    <3>2. CASE ~ReadBlock
      BY <1>0, <3>2 DEF ReadStarts, ReadEnd
    <3> QED BY <3>1, <3>2
  <2> QED BY <1>0, <2>1, <2>2, <2>3, <2>4 DEF Listing
<1>4. Buffers'
  <2> SUFFICES ASSUME NEW b \in Ctl, b # ListLen, NEW j \in rbuf'[b]
               PROVE  j = Nothing \/ OwnBlock(j, b, blocks)
    BY <1>0 DEF Buffers
  <2>1. CASE j \in rbuf[b]
    BY <2>1 DEF Buffers
  <2>2. CASE j \notin rbuf[b]
    <3>1. j = pos /\ b = ix /\ pos < blocks
      BY <1>1, <2>2
    <3> QED BY <1>0, <3>1, NextBlock
  <2> QED BY <2>1, <2>2
<1>5. Requests'
  <2>1. \A b \in Ctl :
           /\ Fits(aio_blk[b], b, pos', rbuf'[b], blocks)
           /\ \A c \in seen[b] : Fits(c, b, pos', rbuf'[b], blocks)
           /\ \A w \in held[b] : Covers(w, b, pos', rbuf'[b], blocks)
    BY <1>1, RequestsStay
  <2> QED BY <1>0, <2>1 DEF Requests
<1>6. Waits' /\ NeverOlder'
  <2>1. Idle' <=> Idle
    BY <1>0 DEF Idle
  <2>2. Done' = Done
    BY <1>1 DEF Done
  <2> QED BY <1>0, <2>1, <2>2, OutSame DEF Waits
<1> QED BY <1>2, <1>3, <1>4, <1>5, <1>6

LEMMA AioHands ==
  ASSUME AioInv, HandOver
  PROVE  AioInv'
<1> USE DEF AioInv
<1>0. /\ UNCHANGED <<cmode, blocks, oldblocks, pos, ret, rbuf, aio_blk, ix, tot_len, seen, held, out>>
      /\ cat = "got" /\ cat' = "listed" /\ TimeToWrite
      /\ asked' = [b \in Ctl |-> IF b <= ix THEN asked[b] + 1 ELSE asked[b]]
  BY DEF HandOver
<1>1. CopyTypes'
  <2>1. asked' \in [Ctl -> Nat]
    BY <1>0 DEF CopyTypes
  <2> QED BY <1>0, <2>1 DEF CopyTypes
<1>2. Here' = Here /\ First' = First /\ Under /\ Under'
  BY <1>0 DEF Here, First, Under
<1>3. Listing'
  BY <1>0, <1>2 DEF Listing, TimeToWrite
<1>4. Buffers' /\ Requests'
  BY <1>0 DEF Buffers, Requests
<1>5. ASSUME cmode = "wait" PROVE Expected'
  <2>1. Idle
    BY <1>0, <1>5 DEF Waits
  <2>2. \A b \in Ctl : seen'[b] = {} /\ held'[b] = {}
    BY <1>0, <2>1 DEF Idle
  <2>3. ASSUME NEW b \in Ctl, b < ix PROVE asked'[b] > 0
    <3>1. b <= ix
      BY <2>3, ListNumbers DEF CopyTypes
    <3> QED BY <1>0, <2>1, <3>1 DEF Idle
  <2> QED BY <1>0, <2>2, <2>3 DEF Expected, Awaited
<1>6. Waits' /\ NeverOlder'
  <2>1. Done' = Done
    BY <1>2 DEF Done
  <2> QED BY <1>0, <1>5, <2>1, OutSame DEF Waits
<1> QED BY <1>1, <1>3, <1>4, <1>6

\* Storing into the control blocks keeps what the library may find in them, when the new entry
\* is right.
LEMMA StoreKeeps ==
  ASSUME AioInv, NEW fresh \in BOOLEAN, NEW n \in Ctl, n # ListLen, Store(fresh, n), cat # "end",
         Filled \in CtlBlock, Fits(Filled, n, pos, rbuf[n], blocks), tot_len + ret \in Nat
  PROVE  CopyTypes' /\ Buffers' /\ Requests' /\ NeverOlder' /\ (Idle => Idle')
<1> USE DEF AioInv
<1>0. /\ aio_blk' = [b \in Ctl |-> IF b = n THEN Filled ELSE IF fresh THEN Zeroed ELSE aio_blk[b]]
      /\ seen' = [b \in Ctl |-> IF seen[b] = {} THEN {}
                    ELSE seen[b] \union {aio_blk'[b]} \union IF fresh THEN {Zeroed} ELSE {}]
      /\ ix' = n + 1 /\ tot_len' = tot_len + ret /\ cat' = IF ret = 0 THEN "sleep" ELSE "read"
      /\ UNCHANGED <<cmode, blocks, oldblocks, pos, ret, rbuf, asked, held, out>>
  BY DEF Store
<1>1. ASSUME NEW b \in Ctl
      PROVE  aio_blk'[b] \in CtlBlock /\ Fits(aio_blk'[b], b, pos, rbuf[b], blocks)
  BY <1>0, ZeroedFits DEF CopyTypes, Requests
<1>2. ASSUME NEW b \in Ctl, NEW c \in seen'[b]
      PROVE  c \in CtlBlock /\ Fits(c, b, pos, rbuf[b], blocks)
  <2>1. c \in seen[b] \/ c = aio_blk'[b] \/ c = Zeroed
    BY <1>0, <1>2
  <2>2. CASE c \in seen[b]
    BY <2>2 DEF CopyTypes, Requests
  <2> QED BY <1>1, <2>1, <2>2, ZeroedFits
<1>3. CopyTypes'
  <2>1. aio_blk' \in [Ctl -> CtlBlock]
    BY <1>0, <1>1
  <2>2. seen' \in [Ctl -> SUBSET CtlBlock]
    BY <1>0, <1>2
  <2>3. ix' \in Ctl
    BY <1>0, ListNumbers
  <2> QED BY <1>0, <2>1, <2>2, <2>3 DEF CopyTypes
<1>4. Buffers'
  BY <1>0 DEF Buffers
<1>5. Requests'
  <2>1. \A b \in Ctl : \A w \in held[b] : Covers(w, b, pos, rbuf[b], blocks)
    BY DEF Requests
  <2> QED BY <1>0, <1>1, <1>2, <2>1 DEF Requests
<1>6. NeverOlder'
  BY <1>0, OutSame
<1>7. Idle => Idle'
  BY <1>0 DEF Idle
<1> QED BY <1>3, <1>4, <1>5, <1>6, <1>7

LEMMA AioGoesOn ==
  ASSUME AioInv, GoOn
  PROVE  AioInv'
<1> USE DEF AioInv
<1>0. /\ cat = "got" /\ ix # ListLen /\ ret = Width /\ ret # 0 /\ Store(FALSE, ix)
      /\ blocks \in Nat /\ pos \in Nat /\ pos > 0 /\ pos <= blocks /\ ix \in Nat /\ ix < ListLen
      /\ ix \in Ctl
  <2>1. cat = "got" /\ ix # ListLen /\ ret # 0 /\ Store(FALSE, ix)
    BY ListNumbers DEF GoOn, TimeToWrite
  <2>2. ret = Width /\ blocks \in Nat /\ pos \in Nat /\ pos <= blocks /\ ix \in Ctl
    BY <2>1 DEF CopyTypes
  <2>3. ix \in Nat /\ ix < ListLen
    BY <2>1, <2>2, ListNumbers
  <2>4. pos > 0
    BY <2>1 DEF Listing
  <2> QED BY <2>1, <2>2, <2>3, <2>4
<1>1. Here = pos - 1 /\ First = pos - 1 - ix /\ Under /\ ListLen \in Nat \ {0} /\ Width = 2
  BY <1>0, ListNumbers DEF Here, First, Under
<1>2. /\ First \in Nat /\ First % ListLen = 0 /\ (ix = 0 => Here = 0) /\ tot_len = Width * Here
      /\ rbuf[ix] = {pos - 1}
      /\ \A b \in Ctl : aio_blk[b] = IF b < ix THEN Entry(First + b) ELSE Zeroed
      /\ \A b \in Ctl : b < ix => rbuf[b] = {IF b = 0 THEN 0 ELSE First + b}
  BY <1>0, <1>1 DEF Listing
<1>3. /\ aio_blk' = [b \in Ctl |-> IF b = ix THEN Filled ELSE aio_blk[b]]
      /\ ix' = ix + 1 /\ tot_len' = tot_len + ret /\ cat' = "read"
      /\ UNCHANGED <<cmode, blocks, oldblocks, pos, ret, rbuf, asked, held, out>>
  BY <1>0 DEF Store
<1>4. Filled = Entry(First + ix) /\ Entry(First + ix) \in CtlBlock
  <2>1. First + ix = pos - 1 /\ tot_len = Width * (pos - 1) /\ Width * (pos - 1) \in Nat
    BY <1>0, <1>1, <1>2
  <2> QED BY <1>0, <2>1 DEF Filled, Entry, CtlBlock
<1>5. Fits(Filled, ix, pos, rbuf[ix], blocks)
  <2>1. (pos - 1) % ListLen = ix
    <3>1. ix \in 0 .. ListLen - 1 /\ pos - 1 = First + ix
      BY <1>0, <1>1, <1>2
    <3>2. (First + ix) % ListLen = ix
      BY <1>1, <1>2, <3>1, WithinList
    <3> QED BY <3>1, <3>2
  <2>2. Filled.offset = Width * (pos - 1)
    BY <1>1, <1>2 DEF Filled
  <2>3. Place(Filled.offset, ix, pos, rbuf[ix], blocks)
    <3>1. pos - 1 \in 0 .. pos - 1 /\ \A j \in rbuf[ix] : j >= pos - 1
      BY <1>0, <1>2
    <3> QED BY <2>1, <2>2, <3>1 DEF Place
  <2>4. Full(ix, rbuf[ix])
    BY <1>0, <1>2, ListNumbers DEF Full
  <2> QED BY <2>3, <2>4 DEF Fits
<1>6. tot_len + ret \in Nat /\ tot_len' = Width * pos
  BY <1>0, <1>1, <1>2, <1>3
<1>7. CopyTypes' /\ Buffers' /\ Requests' /\ NeverOlder' /\ (Idle => Idle')
  BY <1>0, <1>4, <1>5, <1>6, StoreKeeps
<1>8. Here' = pos /\ First' = First /\ Under'
  BY <1>0, <1>1, <1>3 DEF Here, First, Under
<1>9. Listing'
  <2>1. ix' # 0 /\ tot_len' = Width * Here'
    BY <1>0, <1>3, <1>6, <1>8
  <2>2. ASSUME NEW b \in Ctl
        PROVE  aio_blk'[b] = IF b < ix' THEN Entry(First' + b) ELSE Zeroed
    <3>1. b \in Nat /\ (b < ix' <=> b < ix \/ b = ix)
      BY <1>0, <1>3, ListNumbers
    <3> QED BY <1>2, <1>3, <1>4, <1>8, <3>1
  <2>3. ASSUME NEW b \in Ctl, b < ix'
        PROVE  rbuf'[b] = {IF b = 0 THEN 0 ELSE First' + b}
    <3>1. b < ix \/ b = ix
      BY <1>0, <1>3, <2>3, ListNumbers
    <3>2. CASE b = ix
      BY <1>0, <1>1, <1>2, <1>3, <1>8, <3>2
    <3> QED BY <1>2, <1>3, <1>8, <3>1, <3>2
  <2> QED BY <1>2, <1>3, <1>8, <2>1, <2>2, <2>3 DEF Listing
<1>10. Waits'
  <2>1. Done' = Done /\ cat' # "listed" /\ cat # "listed"
    BY <1>0, <1>1, <1>3, <1>8 DEF Done
  <2> QED BY <1>3, <1>7, <2>1, OutSame DEF Waits
<1> QED BY <1>7, <1>9, <1>10

\* A list that lio_listio has waited for is written.
LEMMA ListDone ==
  ASSUME AioInv, cat = "listed", cmode = "wait", ListReturns
  PROVE  \A o \in 0 .. Width * Here - 1 : Right(o)
<1> USE DEF AioInv
<1>1. /\ Here \in Nat /\ First \in Nat /\ ix \in Nat /\ Here = First + ix /\ Done = First /\ Width = 2
      /\ Expected /\ (\A o \in 0 .. Width * First - 1 : Right(o)) /\ ix \in Ctl /\ Ctl = 0 .. ListLen
  <2>1. Under /\ pos \in Nat /\ ix \in Nat /\ ix \in Ctl /\ (ret # 0 => pos > 0)
    BY ListNumbers DEF CopyTypes, Under, Listing
  <2>2. Here \in Nat
    BY <2>1 DEF Here
  <2>3. First \in Nat
    BY <2>1 DEF Listing
  <2>4. Here = First + ix
    BY <2>1, <2>2 DEF First
  <2> QED BY <2>1, <2>2, <2>3, <2>4, ListNumbers DEF Done, Waits
<1> SUFFICES ASSUME NEW o \in 0 .. Width * Here - 1 PROVE Right(o)
  OBVIOUS
<1>2. CASE o < Width * First
  BY <1>1, <1>2
<1>3. CASE ~(o < Width * First)
  <2>1. PICK k \in Nat, i \in 0 .. 1 : o = 2 * k + i
    <3>1. o \in Nat
      OBVIOUS
    <3> QED BY <3>1, HalfOf
  <2>2. k >= First /\ k < First + ix
    BY <1>1, <1>3, <2>1
  <2>3. PICK b \in Ctl : b = k - First /\ b < ix
    BY <1>1, <2>2, ListNumbers
  <2>4. o = OctetAt(b, i) /\ i \in 0 .. Width - 1
    <3>1. First + b = k
      BY <1>1, <2>3
    <3> QED BY <1>1, <2>1, <3>1 DEF OctetAt
  <2>5. Right(OctetAt(b, i)) \/ Awaited(b, i)
    BY <1>1, <2>3, <2>4 DEF Expected
  <2>6. ~Awaited(b, i)
    BY DEF ListReturns, Awaited
  <2> QED BY <2>4, <2>5, <2>6
<1> QED BY <1>2, <1>3

LEMMA AioClears ==
  ASSUME AioInv, ClearList
  PROVE  AioInv'
<1> USE DEF AioInv
<1>0. /\ cat = "listed" /\ ListReturns /\ Store(TRUE, 0) /\ TimeToWrite
      /\ blocks \in Nat /\ pos \in Nat /\ pos <= blocks /\ ix \in Ctl /\ ix \in Nat /\ ret \in {0, Width}
      /\ Width = 2 /\ 0 \in Ctl /\ ListLen \in Nat \ {0} /\ 0 # ListLen /\ Under
  <2>1. cat = "listed" /\ ListReturns /\ Store(TRUE, 0)
    BY DEF ClearList
  <2>2. blocks \in Nat /\ pos \in Nat /\ pos <= blocks /\ ix \in Ctl /\ ret \in {0, Width}
    BY DEF CopyTypes
  <2>3. TimeToWrite /\ Under
    BY <2>1 DEF Listing, Under
  <2>4. ix \in Nat
    BY <2>2, ListNumbers
  <2> QED BY <2>1, <2>2, <2>3, <2>4, ListNumbers
<1>1. /\ aio_blk' = [b \in Ctl |-> IF b = 0 THEN Filled ELSE Zeroed]
      /\ ix' = 1 /\ tot_len' = tot_len + ret /\ cat' = IF ret = 0 THEN "sleep" ELSE "read"
      /\ UNCHANGED <<cmode, blocks, oldblocks, pos, ret, rbuf, asked, held, out>>
  BY <1>0 DEF Store
<1>2. /\ First \in Nat /\ First % ListLen = 0 /\ tot_len = Width * Here /\ First = Here - ix
      /\ \A b \in Ctl : b < ix => rbuf[b] = {IF b = 0 THEN 0 ELSE First + b}
  BY <1>0 DEF Listing, First
<1>3. Here \in Nat /\ (ret = 0 => Here = pos /\ pos = blocks) /\ (ret # 0 => Here = pos - 1)
  BY <1>0 DEF Here, Listing
<1>4. ret # 0 => ix = ListLen /\ Here = First + ListLen /\ rbuf[0] = {0} /\ Here % ListLen = 0
  <2> SUFFICES ASSUME ret # 0
               PROVE  ix = ListLen /\ Here = First + ListLen /\ rbuf[0] = {0} /\ Here % ListLen = 0
    OBVIOUS
  <2>1. ix = ListLen
    BY <1>0, ListNumbers DEF TimeToWrite
  <2>2. Here = First + ListLen /\ 0 < ix
    BY <1>0, <1>2, <1>3, <2>1
  <2>3. (First + ListLen) % ListLen = 0
    BY <1>0, <1>2, NextList
  <2> QED BY <1>0, <1>2, <2>1, <2>2, <2>3
<1>5. Filled \in CtlBlock /\ Filled.offset = Width * Here /\ Filled.nbytes = ret
  <2>1. tot_len \in Nat
    BY DEF CopyTypes
  <2> QED BY <1>0, <1>2, <2>1 DEF Filled, CtlBlock
<1>6. Fits(Filled, 0, pos, rbuf[0], blocks)
  <2>1. CASE ret = 0
    BY <1>3, <1>5, <2>1 DEF Fits, Place
  <2>2. CASE ret # 0
    <3>1. Here \in 0 .. pos - 1
      BY <1>0, <1>3, <2>2
    <3>2. Place(Filled.offset, 0, pos, rbuf[0], blocks)
      BY <1>4, <1>5, <2>2, <3>1 DEF Place
    <3>3. Full(0, rbuf[0])
      BY <1>0, <1>4, <2>2, ListNumbers DEF Full
    <3> QED BY <3>2, <3>3 DEF Fits
  <2> QED BY <2>1, <2>2
<1>7. tot_len + ret \in Nat
  BY <1>0 DEF CopyTypes
<1>8. CopyTypes' /\ Buffers' /\ Requests' /\ NeverOlder' /\ (Idle => Idle')
  BY <1>0, <1>5, <1>6, <1>7, StoreKeeps
<1>9. CASE ret = 0
  <2>1. ~Under' /\ cat' = "sleep"
    BY <1>1, <1>9 DEF Under
  <2>2. Listing'
    BY <2>1 DEF Listing
  <2>3. cmode = "wait" => Idle /\ \A o \in 0 .. Width * blocks - 1 : Right(o)
    BY <1>0, <1>3, <1>9, ListDone DEF ListReturns, Idle
  <2>4. Done' = blocks
    BY <1>1, <2>1 DEF Done
  <2>5. Waits'
    BY <1>1, <1>8, <2>1, <2>3, <2>4, OutSame DEF Waits
  <2> QED BY <1>8, <2>2, <2>5
<1>10. CASE ret # 0
  <2>1. Under' /\ cat' = "read" /\ Here' = pos /\ First' = Here
    BY <1>0, <1>1, <1>3, <1>10 DEF Under, Here, First
  <2>2. Listing'
    <3>1. tot_len' = Width * Here'
      BY <1>0, <1>1, <1>2, <1>3, <1>10, <2>1
    <3>2. Filled = Entry(Here)
      BY <1>0, <1>2, <1>10 DEF Filled, Entry
    <3>3. ASSUME NEW b \in Ctl
          PROVE  b < ix' <=> b = 0
      BY <1>1, ListNumbers
    <3>4. Here + 0 = Here
      BY <1>3
    <3>5. \A b \in Ctl : aio_blk'[b] = IF b < ix' THEN Entry(First' + b) ELSE Zeroed
      BY <1>1, <2>1, <3>2, <3>3, <3>4
    <3>6. \A b \in Ctl : b < ix' => rbuf'[b] = {IF b = 0 THEN 0 ELSE First' + b}
      BY <1>1, <1>4, <1>10, <3>3
    <3> QED BY <1>1, <1>3, <1>4, <1>10, <2>1, <3>1, <3>5, <3>6 DEF Listing
  <2>3. cmode = "wait" => Idle /\ \A o \in 0 .. Width * Here - 1 : Right(o)
    BY <1>0, ListDone DEF ListReturns, Idle
  <2>4. Done' = Here
    BY <2>1 DEF Done
  <2>5. Waits'
    BY <1>1, <1>8, <2>1, <2>3, <2>4, OutSame DEF Waits
  <2> QED BY <1>8, <2>2, <2>5
<1> QED BY <1>9, <1>10

\* The library works on a list that is handed over, when lio_listio waits.
LEMMA AtList ==
  ASSUME AioInv, cmode = "wait", NEW b \in Ctl, asked[b] # 0 \/ seen[b] # {} \/ held[b] # {}
  PROVE  cat = "listed" /\ Expected
BY DEF AioInv, Waits, Idle

LEMMA AioStartsFetch ==
  ASSUME AioInv, NEW b \in Ctl, FetchStarts(b)
  PROVE  AioInv'
<1> USE DEF AioInv
<1>0. /\ UNCHANGED <<cmode, blocks, oldblocks, pos, ret, rbuf, aio_blk, ix, tot_len, held, out, cat>>
      /\ asked[b] > 0 /\ asked' = [asked EXCEPT ![b] = @ - 1] /\ seen' = [seen EXCEPT ![b] = {aio_blk[b]}]
  BY DEF FetchStarts
<1>1. CopyTypes'
  <2>1. asked' \in [Ctl -> Nat]
    BY <1>0 DEF CopyTypes
  <2>2. seen' \in [Ctl -> SUBSET CtlBlock]
    BY <1>0 DEF CopyTypes
  <2> QED BY <1>0, <2>1, <2>2 DEF CopyTypes
<1>2. Here' = Here /\ First' = First /\ (Under' <=> Under) /\ Done' = Done
  BY <1>0 DEF Here, First, Under, Done
<1>3. Listing' /\ Buffers'
  BY <1>0, <1>2 DEF Listing, Buffers, TimeToWrite
<1>4. \A a \in Ctl : seen'[a] = IF a = b THEN {aio_blk[b]} ELSE seen[a]
  BY <1>0 DEF CopyTypes
<1>5. Requests'
  BY <1>0, <1>4 DEF Requests
<1>6. ASSUME cmode = "wait" PROVE cat = "listed" /\ Expected'
  <2>1. asked[b] # 0
    BY <1>0 DEF CopyTypes
  <2>2. cat = "listed" /\ Expected
    BY <1>6, <2>1, AtList
  <2>3. \A a \in Ctl : seen'[a] \subseteq {aio_blk'[a]}
    BY <1>0, <1>4, <2>2 DEF Expected
  <2>4. \A a \in Ctl, i \in 0 .. Width - 1 :
           OctetAt(a, i)' = OctetAt(a, i) /\ (Right(OctetAt(a, i)) => Right(OctetAt(a, i))')
    BY <1>0, <1>2 DEF OctetAt, Right
  <2>5. \A a \in Ctl, i \in 0 .. Width - 1 : Awaited(a, i) => Awaited(a, i)'
    <3> SUFFICES ASSUME NEW a \in Ctl, NEW i \in 0 .. Width - 1, Awaited(a, i) PROVE Awaited(a, i)'
      OBVIOUS
    <3>1. CASE a = b
      BY <1>4, <3>1 DEF Awaited
    <3>2. CASE a # b
      BY <1>0, <1>4, <2>4, <3>2 DEF Awaited, CopyTypes
    <3> QED BY <3>1, <3>2
  <2>6. \A a \in Ctl : \A w \in held'[a] : a < ix' /\ w[1] = OctetAt(a, w[2])'
    BY <1>0, <1>2, <2>2 DEF Expected, OctetAt
  <2>7. \A a \in Ctl, i \in 0 .. Width - 1 : a < ix' => Right(OctetAt(a, i))' \/ Awaited(a, i)'
    BY <1>0, <2>2, <2>4, <2>5 DEF Expected
  <2> QED BY <2>2, <2>3, <2>6, <2>7 DEF Expected
<1>7. Waits' /\ NeverOlder'
  BY <1>0, <1>2, <1>6, OutSame DEF Waits
<1> QED BY <1>1, <1>3, <1>5, <1>7

\* What is found in a control block that may be torn fits as its versions do.
LEMMA TornFits ==
  ASSUME NEW b \in Ctl, NEW V \in SUBSET CtlBlock, NEW p, NEW B, NEW n,
         \A v \in V : Fits(v, b, p, B, n), NEW c \in Torn(V)
  PROVE  c \in CtlBlock /\ Fits(c, b, p, B, n)
<1>1. PICK x \in V, y \in V, z \in V : c = [write |-> x.write, nbytes |-> y.nbytes, offset |-> z.offset]
  BY DEF Torn
<1>2. c.write = x.write /\ c.nbytes = y.nbytes /\ c.offset = z.offset
  BY <1>1
<1>3. c \in CtlBlock
  BY <1>1 DEF CtlBlock
<1>4. Fits(z, b, p, B, n) /\ Fits(y, b, p, B, n)
  OBVIOUS
<1> QED BY <1>2, <1>3, <1>4 DEF Fits

LEMMA OctetsCovered ==
  ASSUME NEW b \in Ctl, NEW c \in CtlBlock, NEW p, NEW B, NEW n, Fits(c, b, p, B, n),
         NEW w \in OctetsOf(c)
  PROVE  w \in Nat \X (0 .. Width - 1) /\ Covers(w, b, p, B, n)
<1>1. PICK i \in 0 .. c.nbytes - 1 : w = <<c.offset + i, i>>
  BY DEF OctetsOf
<1>2. c.nbytes \in {0, 2} /\ c.offset \in Nat /\ Width = 2
  BY ListNumbers DEF CtlBlock
<1>3. c.nbytes > 0 /\ i \in 0 .. 1
  BY <1>1, <1>2
<1>4. w[1] = c.offset + w[2] /\ w \in Nat \X (0 .. Width - 1)
  BY <1>1, <1>2, <1>3
<1> QED BY <1>2, <1>3, <1>4 DEF Fits, Covers

LEMMA AioFetches ==
  ASSUME AioInv, NEW b \in Ctl, Fetch(b)
  PROVE  AioInv'
<1> USE DEF AioInv
<1>0. /\ UNCHANGED <<cmode, blocks, oldblocks, pos, ret, rbuf, aio_blk, ix, tot_len, asked, out, cat>>
      /\ seen[b] # {} /\ seen' = [seen EXCEPT ![b] = {}]
  BY DEF Fetch
<1>c. PICK c \in Torn(seen[b]) : held' = [held EXCEPT ![b] = OctetsOf(c)]
  BY DEF Fetch
<1>h. \A a \in Ctl : held'[a] = IF a = b THEN OctetsOf(c) ELSE held[a]
  BY <1>c DEF CopyTypes
<1>s. \A a \in Ctl : seen'[a] = IF a = b THEN {} ELSE seen[a]
  BY <1>0 DEF CopyTypes
<1>f. c \in CtlBlock /\ Fits(c, b, pos, rbuf[b], blocks)
  <2>1. seen[b] \in SUBSET CtlBlock /\ \A v \in seen[b] : Fits(v, b, pos, rbuf[b], blocks)
    BY DEF CopyTypes, Requests
  <2> QED BY <2>1, TornFits
<1>o. \A w \in OctetsOf(c) : w \in Nat \X (0 .. Width - 1) /\ Covers(w, b, pos, rbuf[b], blocks)
  BY <1>f, OctetsCovered
<1>1. CopyTypes'
  <2>1. held' \in [Ctl -> SUBSET (Nat \X (0 .. Width - 1))]
    <3>1. OctetsOf(c) \in SUBSET (Nat \X (0 .. Width - 1))
      BY <1>o
    <3> QED BY <1>c, <3>1 DEF CopyTypes
  <2>2. seen' \in [Ctl -> SUBSET CtlBlock]
    BY <1>0 DEF CopyTypes
  <2> QED BY <1>0, <2>1, <2>2 DEF CopyTypes
<1>2. Here' = Here /\ First' = First /\ (Under' <=> Under) /\ Done' = Done
  BY <1>0 DEF Here, First, Under, Done
<1>3. Listing' /\ Buffers'
  BY <1>0, <1>2 DEF Listing, Buffers, TimeToWrite
<1>5. Requests'
  BY <1>0, <1>h, <1>s, <1>o DEF Requests
<1>6. ASSUME cmode = "wait" PROVE cat = "listed" /\ Expected'
  <2>2. cat = "listed" /\ Expected
    BY <1>0, <1>6, AtList
  <2>3. c = aio_blk[b]
    <3>1. PICK x \in seen[b], y \in seen[b], z \in seen[b] :
             c = [write |-> x.write, nbytes |-> y.nbytes, offset |-> z.offset]
      BY DEF Torn
    <3>2. x = aio_blk[b] /\ y = aio_blk[b] /\ z = aio_blk[b]
      BY <2>2 DEF Expected
    <3>3. aio_blk[b] \in CtlBlock
      BY DEF CopyTypes
    <3> QED BY <3>1, <3>2, <3>3 DEF CtlBlock
  <2>4. aio_blk[b] = IF b < ix THEN Entry(First + b) ELSE Zeroed
    BY <2>2 DEF Listing, Under
  <2>5. b < ix => OctetsOf(c) = {<<OctetAt(b, i), i>> : i \in 0 .. Width - 1}
    <3> SUFFICES ASSUME b < ix PROVE OctetsOf(c) = {<<OctetAt(b, i), i>> : i \in 0 .. Width - 1}
      OBVIOUS
    <3>1. c.write /\ c.offset = Width * (First + b) /\ c.nbytes = Width
      BY <2>3, <2>4 DEF Entry
    <3> QED BY <3>1 DEF OctetsOf, OctetAt
  <2>6. ~(b < ix) => OctetsOf(c) = {}
    BY <2>3, <2>4 DEF Zeroed, OctetsOf
  <2>7. \A a \in Ctl, i \in 0 .. Width - 1 :
           OctetAt(a, i)' = OctetAt(a, i) /\ (Right(OctetAt(a, i)) => Right(OctetAt(a, i))')
    BY <1>0, <1>2 DEF OctetAt, Right
  <2>8. \A a \in Ctl : seen'[a] \subseteq {aio_blk'[a]}
    BY <1>0, <1>s, <2>2 DEF Expected
  <2>9. \A a \in Ctl : \A w \in held'[a] : a < ix' /\ w[1] = OctetAt(a, w[2])'
    <3> SUFFICES ASSUME NEW a \in Ctl, NEW w \in held'[a] PROVE a < ix /\ w[1] = OctetAt(a, w[2])
      BY <1>0, <1>2 DEF OctetAt
    <3>1. CASE a = b
      BY <1>h, <2>5, <2>6, <3>1
    <3>2. CASE a # b
      BY <1>h, <2>2, <3>2 DEF Expected
    <3> QED BY <3>1, <3>2
  <2>10. \A a \in Ctl, i \in 0 .. Width - 1 : a < ix' => Right(OctetAt(a, i))' \/ Awaited(a, i)'
    <3> SUFFICES ASSUME NEW a \in Ctl, NEW i \in 0 .. Width - 1, a < ix
                 PROVE  Right(OctetAt(a, i))' \/ Awaited(a, i)'
      BY <1>0
    <3>1. CASE a = b
      <4>1. <<OctetAt(b, i), i>> \in held'[b]
        BY <1>h, <2>5, <3>1
      <4> QED BY <2>7, <3>1, <4>1 DEF Awaited
    <3>2. CASE a # b
      BY <1>0, <1>h, <1>s, <2>2, <2>7, <3>2 DEF Expected, Awaited
    <3> QED BY <3>1, <3>2
  <2> QED BY <2>2, <2>8, <2>9, <2>10 DEF Expected
<1>7. Waits' /\ NeverOlder'
  BY <1>0, <1>2, <1>6, OutSame DEF Waits
<1> QED BY <1>1, <1>3, <1>5, <1>7

LEMMA AioWrites ==
  ASSUME AioInv, NEW b \in Ctl, WriteOctet(b)
  PROVE  AioInv'
<1> USE DEF AioInv
<1>0. UNCHANGED <<cmode, blocks, oldblocks, pos, ret, rbuf, aio_blk, ix, tot_len, asked, seen, cat>>
  BY DEF WriteOctet
<1>w. PICK w \in held[b], j \in rbuf[b] :
        /\ held' = [held EXCEPT ![b] = @ \ {w}]
        /\ out' = [o \in DOMAIN out \union {w[1]} |-> IF o = w[1] THEN <<j, w[2]>> ELSE out[o]]
  BY DEF WriteOctet
<1>h. \A a \in Ctl : held'[a] = IF a = b THEN held[b] \ {w} ELSE held[a]
  BY <1>w DEF CopyTypes
<1>t. w[1] \in Nat /\ w[2] \in 0 .. 1 /\ w = <<w[1], w[2]>> /\ blocks \in Nat /\ pos \in Nat /\ pos <= blocks
  BY ListNumbers DEF CopyTypes
<1>d. /\ DOMAIN out' = DOMAIN out \union {w[1]} /\ out'[w[1]] = <<j, w[2]>>
      /\ \A o \in DOMAIN out : o # w[1] => out'[o] = out[o]
  BY <1>w
<1>c. Covers(w, b, pos, rbuf[b], blocks)
  BY DEF Requests
<1>j. b # ListLen /\ j # Nothing /\ OwnBlock(j, b, blocks)
  BY <1>c DEF Covers, Full, Buffers
<1>1. CopyTypes'
  <2>1. held' \in [Ctl -> SUBSET (Nat \X (0 .. Width - 1))]
    BY <1>w DEF CopyTypes
  <2>2. DOMAIN out' \subseteq Nat
    BY <1>d, <1>t DEF CopyTypes
  <2> QED BY <1>0, <2>1, <2>2 DEF CopyTypes
<1>2. Here' = Here /\ First' = First /\ (Under' <=> Under) /\ Done' = Done
  BY <1>0 DEF Here, First, Under, Done
<1>3. Listing' /\ Buffers'
  BY <1>0, <1>2 DEF Listing, Buffers, TimeToWrite
<1>5. Requests'
  BY <1>0, <1>h DEF Requests
<1>6. \A o \in DOMAIN out : o # w[1] => (OldOctet(o) => OldOctet(o)')
  BY <1>0, <1>d DEF OldOctet
<1>7. NeverOlder'
  <2>0. NUM_AIOCB_ARRAY - 1 = ListLen /\ Width = 2 /\ ListLen \in Nat \ {0} /\ b \in Nat
    BY ListNumbers
  <2>1. PICK m \in Nat : /\ w[1] = 2 * m + w[2]
                         /\ \/ m = 0
                            \/ b = 0 /\ m = blocks
                            \/ m \in 0 .. pos - 1 /\ m % ListLen = b /\ (b # 0 => j >= m)
    <3>1. PICK o \in Nat : Place(o, b, pos, rbuf[b], blocks) /\ w[1] = o + w[2]
      BY <1>c DEF Covers
    <3>2. CASE o = 0
      <4>1. 0 \in Nat /\ w[1] = 2 * 0 + w[2]
        BY <1>t, <3>1, <3>2
      <4> QED BY <4>1
    <3>3. CASE b = 0 /\ o = Width * blocks
      BY <1>t, <2>0, <3>1, <3>3
    <3>4. CASE \E k \in 0 .. pos - 1 :
                 o = Width * k /\ k % ListLen = b /\ (b # 0 => \A i \in rbuf[b] : i >= k)
      <4>1. PICK k \in 0 .. pos - 1 :
                 o = Width * k /\ k % ListLen = b /\ (b # 0 => \A i \in rbuf[b] : i >= k)
        BY <3>4
      <4>2. k \in Nat /\ w[1] = 2 * k + w[2]
        BY <1>t, <2>0, <3>1, <4>1
      <4> QED BY <4>1, <4>2
    <3> QED BY <3>1, <3>2, <3>3, <3>4 DEF Place
  <2>2. w[1] \div 2 = m /\ w[1] % 2 = w[2]
    <3>1. (2 * m + w[2]) \div 2 = m /\ (2 * m + w[2]) % 2 = w[2]
      BY <1>t, BlockOfOctet
    <3> QED BY <2>1, <3>1
  <2>3. m <= blocks
    BY <1>t, <2>1
  <2>4. out'[w[1]][2] = w[1] % Width /\ out'[w[1]][1] = j /\ j \in 0 .. blocks - 1 /\ w[1] \div Width = m
    BY <1>d, <1>j, <2>0, <2>2 DEF OwnBlock
  <2>5. \/ m = 0
        \/ m % ListLen = 0 /\ j = 0
        \/ m % ListLen # 0 /\ j >= m /\ j % ListLen = m % ListLen
        \/ m = blocks /\ j = 0
    <3>1. CASE m = 0
      BY <3>1
    <3>2. CASE b = 0 /\ m = blocks
      BY <1>j, <3>2 DEF OwnBlock
    <3>3. CASE m % ListLen = b /\ (b # 0 => j >= m)
      BY <1>j, <3>3 DEF OwnBlock
    <3> QED BY <2>1, <3>1, <3>2, <3>3
  <2>6. ASSUME NEW o \in DOMAIN out, o # w[1]
        PROVE  out'[o] = out[o] /\ (OldOctet(o) => OldOctet(o)')
    BY <1>d, <1>6, <2>6
  <2> QED BY <1>0, <1>d, <2>0, <2>3, <2>4, <2>5, <2>6 DEF NeverOlder
<1>8. Waits'
  <2> SUFFICES ASSUME cmode = "wait" PROVE Waits'
    BY <1>0 DEF Waits
  <2>1. cat = "listed" /\ Expected
    BY AtList
  <2>2. b < ix /\ w[1] = OctetAt(b, w[2]) /\ Under
    BY <2>1 DEF Expected, Under
  <2>3. /\ First \in Nat /\ First % ListLen = 0 /\ rbuf[b] = {IF b = 0 THEN 0 ELSE First + b}
        /\ b \in 0 .. ListLen - 1 /\ ListLen \in Nat \ {0} /\ Width = 2 /\ ix \in Nat
    BY <1>j, <2>2, ListNumbers DEF Listing, CopyTypes
  <2>4. (First + b) % ListLen = b /\ First + b \in Nat
    <3>1. First + b \in Nat
      BY <2>3
    <3>2. (First + b) % ListLen = b
      BY <2>3, WithinList
    <3> QED BY <3>1, <3>2
  <2>5. w[1] \div Width = First + b /\ w[1] % Width = w[2]
    <3>1. (2 * (First + b) + w[2]) \div 2 = First + b /\ (2 * (First + b) + w[2]) % 2 = w[2]
      BY <1>t, <2>4, BlockOfOctet
    <3> QED BY <2>2, <2>3, <3>1 DEF OctetAt
  <2>6. Right(w[1])'
    <3>1. j = IF b = 0 THEN 0 ELSE First + b
      BY <2>3
    <3> QED BY <1>d, <2>4, <2>5, <3>1 DEF Right
  <2>7. \A o : Right(o) => Right(o)'
    <3> SUFFICES ASSUME NEW o, Right(o) PROVE Right(o)'
      OBVIOUS
    <3>1. CASE o = w[1]
      BY <2>6, <3>1
    <3>2. CASE o # w[1]
      BY <1>d, <3>2 DEF Right
    <3> QED BY <3>1, <3>2
  <2>8. w[1] < Width * blocks
    <3>1. Here \in Nat /\ Here <= blocks /\ Here = First + ix
      <4>1. Here \in Int /\ Here <= pos
        BY <1>t DEF Here
      <4> QED BY <1>t, <2>3, <4>1 DEF First
    <3>2. First + b < blocks
      BY <1>t, <2>2, <2>3, <3>1
    <3> QED BY <1>t, <2>2, <2>3, <2>4, <3>2 DEF OctetAt
  <2>9. Written'
    <3>1. ASSUME NEW o \in DOMAIN out' PROVE (o < Width * blocks /\ Right(o)') \/ OldOctet(o)'
      <4>1. CASE o = w[1]
        BY <2>6, <2>8, <4>1
      <4>2. CASE o # w[1]
        <5>1. o \in DOMAIN out
          BY <1>d, <3>1, <4>2
        <5>2. (o < Width * blocks /\ Right(o)) \/ OldOctet(o)
          BY <5>1 DEF Waits, Written
        <5> QED BY <1>6, <2>7, <4>2, <5>1, <5>2
      <4> QED BY <4>1, <4>2
    <3>2. 0 .. Width * oldblocks - 1 \subseteq DOMAIN out'
      BY <1>d DEF Waits, Written
    <3> QED BY <1>0, <3>1, <3>2 DEF Written
  <2>10. \A a \in Ctl, i \in 0 .. Width - 1 : OctetAt(a, i)' = OctetAt(a, i)
    BY <1>2 DEF OctetAt
  <2>11. Expected'
    <3>1. \A a \in Ctl : seen'[a] \subseteq {aio_blk'[a]}
      BY <1>0, <2>1 DEF Expected
    <3>2. \A a \in Ctl : \A v \in held'[a] : a < ix' /\ v[1] = OctetAt(a, v[2])'
      BY <1>0, <1>2, <1>h, <2>1 DEF Expected, OctetAt
    <3>3. ASSUME NEW a \in Ctl, NEW i \in 0 .. Width - 1, a < ix'
          PROVE  Right(OctetAt(a, i))' \/ Awaited(a, i)'
      <4>1. Right(OctetAt(a, i)) \/ Awaited(a, i)
        BY <1>0, <2>1, <3>3 DEF Expected
      <4>2. CASE Right(OctetAt(a, i))
        BY <2>7, <2>10, <4>2
      <4>3. CASE asked[a] > 0 \/ seen[a] # {}
        BY <1>0, <4>3 DEF Awaited
      <4>4. CASE <<OctetAt(a, i), i>> \in held[a]
        <5>1. CASE <<OctetAt(a, i), i>> \in held'[a]
          BY <2>10, <5>1 DEF Awaited
        <5>2. CASE <<OctetAt(a, i), i>> \notin held'[a]
          <6>1. w = <<OctetAt(a, i), i>>
            BY <1>h, <4>4, <5>2
          <6>2. w[1] = OctetAt(a, i)
            BY <6>1
          <6> QED BY <2>6, <2>10, <6>2
        <5> QED BY <5>1, <5>2
      <4> QED BY <4>1, <4>2, <4>3, <4>4 DEF Awaited
    <3> QED BY <3>1, <3>2, <3>3 DEF Expected
  <2> QED BY <1>0, <1>2, <2>1, <2>7, <2>9, <2>11 DEF Waits
<1> QED BY <1>1, <1>3, <1>5, <1>7, <1>8

LEMMA AioStep == AioInv /\ [AioNext]_aiovars => AioInv'
<1> SUFFICES ASSUME AioInv, [AioNext]_aiovars PROVE AioInv'
  OBVIOUS
<1>1. CASE Finish
  <2>1. /\ UNCHANGED <<cmode, blocks, oldblocks, pos, ret, rbuf, aio_blk, ix, tot_len, asked, seen, held, out>>
        /\ cat = "sleep" /\ cat' = "end" /\ ~Under /\ ~Under'
    BY <1>1 DEF Finish, Under
  <2>2. CopyTypes' /\ Buffers' /\ Requests'
    BY <2>1 DEF AioInv, CopyTypes, Buffers, Requests
  <2>3. Listing'
    BY <2>1 DEF Listing
  <2>4. Done' = Done /\ (Idle' <=> Idle)
    BY <2>1 DEF Done, Idle
  <2>5. Waits' /\ NeverOlder'
    BY <2>1, <2>4, OutSame DEF AioInv, Waits
  <2> QED BY <2>2, <2>3, <2>5 DEF AioInv
<1>2. CASE UNCHANGED aiovars
  <2>1. /\ UNCHANGED <<cmode, blocks, oldblocks, pos, ret, rbuf, aio_blk, ix, tot_len, asked, seen, held>>
        /\ UNCHANGED <<out, cat>>
    BY <1>2 DEF aiovars
  <2>2. Here' = Here /\ First' = First /\ (Under' <=> Under) /\ Done' = Done
    BY <2>1 DEF Here, First, Under, Done
  <2>3. CopyTypes' /\ Buffers' /\ Requests' /\ Listing'
    BY <2>1, <2>2 DEF AioInv, CopyTypes, Buffers, Requests, Listing, TimeToWrite
  <2>4. (Idle' <=> Idle) /\ (Expected' <=> Expected)
    BY <2>1, <2>2 DEF Idle, Expected, Awaited, OctetAt, Right
  <2>5. Waits' /\ NeverOlder'
    BY <2>1, <2>2, <2>4, OutSame DEF AioInv, Waits
  <2> QED BY <2>3, <2>5 DEF AioInv
<1> QED BY <1>1, <1>2, AioReads, AioHands, AioGoesOn, AioClears, AioStartsFetch, AioFetches, AioWrites
        DEF AioNext

LEMMA AioSound == AioInv => CopiesKept
<1> SUFFICES ASSUME AioInv PROVE CopiedBlocks
  BY DEF AioInv, CopiesKept
<1> SUFFICES ASSUME cat = "end", cmode = "wait"
             PROVE  /\ DOMAIN out = 0 .. Width * (IF blocks > oldblocks THEN blocks ELSE oldblocks) - 1
                    /\ \A o \in DOMAIN out :
                         IF o \div Width < blocks
                         THEN out[o] = <<IF (o \div Width) % (NUM_AIOCB_ARRAY - 1) = 0 THEN 0
                                         ELSE o \div Width, o % Width>>
                         ELSE OldOctet(o)
  BY DEF CopiedBlocks
<1>1. /\ Written /\ (\A o \in 0 .. Width * blocks - 1 : Right(o)) /\ blocks \in Nat /\ oldblocks \in Nat
      /\ DOMAIN out \subseteq Nat /\ Width = 2 /\ NUM_AIOCB_ARRAY - 1 = ListLen
  BY ListNumbers DEF AioInv, Waits, Done, Under, CopyTypes
<1>2. ASSUME NEW o \in DOMAIN out
      PROVE  /\ o \in 0 .. 2 * blocks - 1 \/ o \in 0 .. 2 * oldblocks - 1
             /\ IF o \div Width < blocks THEN Right(o) ELSE OldOctet(o)
  <2>1. o \in Nat
    BY <1>1
  <2>2. o \div 2 < blocks <=> o < 2 * blocks
    <3>1. PICK d \in Nat : \E m \in 0 .. 1 : d = o \div 2 /\ m = o % 2 /\ o = 2 * d + m
      BY <2>1, HalfOf
    <3>2. d < blocks <=> o < 2 * blocks
      BY <1>1, <3>1
    <3> QED BY <3>1, <3>2
  <2>3. o < 2 * blocks => Right(o)
    BY <1>1, <2>1
  <2>4. ~(o < 2 * blocks) => OldOctet(o)
    BY <1>1 DEF Written
  <2>5. OldOctet(o) => o < 2 * oldblocks
    BY <1>1 DEF OldOctet
  <2>6. o \in 0 .. 2 * blocks - 1 \/ o \in 0 .. 2 * oldblocks - 1
    <3>1. 2 * blocks \in Nat /\ 2 * oldblocks \in Nat
      BY <1>1
    <3>2. CASE o < 2 * blocks
      BY <2>1, <3>1, <3>2
    <3>3. CASE ~(o < 2 * blocks)
      <4>1. o < 2 * oldblocks
        BY <2>4, <2>5, <3>3
      <4> QED BY <2>1, <3>1, <4>1
    <3> QED BY <3>2, <3>3
  <2>7. IF o \div Width < blocks THEN Right(o) ELSE OldOctet(o)
    BY <1>1, <2>2, <2>3, <2>4
  <2> QED BY <2>6, <2>7
<1>3. 0 .. 2 * blocks - 1 \subseteq DOMAIN out /\ 0 .. 2 * oldblocks - 1 \subseteq DOMAIN out
  BY <1>1 DEF Right, Written
<1>4. DOMAIN out = 0 .. Width * (IF blocks > oldblocks THEN blocks ELSE oldblocks) - 1
  <2>1. CASE blocks > oldblocks
    <3>1. 0 .. 2 * oldblocks - 1 \subseteq 0 .. 2 * blocks - 1
      BY <1>1, <2>1
    <3> QED BY <1>1, <1>2, <1>3, <2>1, <3>1
  <2>2. CASE ~(blocks > oldblocks)
    <3>1. 0 .. 2 * blocks - 1 \subseteq 0 .. 2 * oldblocks - 1
      BY <1>1, <2>2
    <3> QED BY <1>1, <1>2, <1>3, <2>2, <3>1
  <2> QED BY <2>1, <2>2
<1>5. ASSUME NEW o \in DOMAIN out
      PROVE  IF o \div Width < blocks
             THEN out[o] = <<IF (o \div Width) % (NUM_AIOCB_ARRAY - 1) = 0 THEN 0
                             ELSE o \div Width, o % Width>>
             ELSE OldOctet(o)
  BY <1>1, <1>2 DEF Right
<1> QED BY <1>4, <1>5

\* Whichever version of a field or a buffer the library finds: a list copy that waits leaves
\* every block right but the first of each list, and over a longer file what was behind them;
\* one that does not wait puts an older block nowhere but at offset 0 and behind the end
\* (aio_listio.c:44-78, aio_listio_sig.c).
THEOREM CopiesCorrect == AioSpec => []CopiesKept
<1>1. AioInit => AioInv
  BY AioStart
<1>2. AioInv /\ [AioNext]_aiovars => AioInv'
  BY AioStep
<1>3. AioInv => CopiesKept
  BY AioSound
<1> QED BY <1>1, <1>2, <1>3, PTL DEF AioSpec
=============================================================================
