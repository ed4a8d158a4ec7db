----------------------------- MODULE Ipc_proofs -----------------------------
(***************************************************************************)
(* Proofs about the interprocess communication samples, and about the job  *)
(* queue that threads share.                                               *)
(***************************************************************************)
EXTENDS ShmSegments, Semaphores, MsgQueues, JobQueue, FiniteSetTheorems, SequenceTheorems,
        WellFoundedInduction, TLAPS

(***************************************************************************)
(* Every process makes at most one object: with one object for each        *)
(* process, a process that has none yet finds a spare one.                 *)
(***************************************************************************)

LEMMA SpareNumber ==
  ASSUME NEW U, IsFiniteSet(U), NEW u \in U, NEW f
  PROVE  \E g \in 1 .. Cardinality(U) : \A v \in U \ {u} : f[v] # g
<1> DEFINE G == 1 .. Cardinality(U)
           holder == [g \in G |-> CHOOSE v \in U \ {u} : f[v] = g]
<1>1. SUFFICES ASSUME \A g \in G : \E v \in U \ {u} : f[v] = g
               PROVE  FALSE
  OBVIOUS
<1>2. \A g \in G : holder[g] \in U \ {u} /\ f[holder[g]] = g
  BY <1>1
<1>3. Cardinality(U) \in Nat /\ IsFiniteSet(G) /\ Cardinality(G) = Cardinality(U)
  BY FS_CardinalityType, FS_Interval
<1>4. IsFiniteSet(U \ {u}) /\ Cardinality(U \ {u}) = Cardinality(U) - 1
  BY FS_RemoveElement
<1>5. holder \in [G -> U \ {u}]
  BY <1>2
<1>6. Cardinality(U \ {u}) < Cardinality(G)
  BY <1>3, <1>4
<1>7. \E x, y \in G : x # y /\ holder[x] = holder[y]
  <2> HIDE DEF holder, G
  <2> QED BY <1>3, <1>4, <1>5, <1>6, FS_PigeonHole
<1> QED BY <1>2, <1>7

-----------------------------------------------------------------------------
(* Shared memory                                                           *)

Text == User \union {"zero", "contents"}

Cells    == [1 .. 2 -> Text]
Segments == [state : {"none", "live", "sized", "removed"}, cells : Cells]

\* Between two steps: where users are, and what the cells can hold.
ShmTypeOK ==
  /\ skind \in {"sysv", "posix", "mmap"} /\ shname \in Segment \union {NoSeg}
  /\ seg \in [Segment -> Segments]
  /\ usr \in [User -> [at : {"start", "got", "loop", "again", "size", "exit", "failed", "trapped", "copy"},
                       on : Segment \union {NoSeg}, mode : {"shared", "private", "once"}]]
  /\ copying \in [User -> [cell : 0 .. 2, len : 0 .. 2]]
  /\ written \in [Segment -> Cells]

\* A segment in use is the segment of somebody who has found it.
SegmentsHeld ==
  /\ \A u \in User : usr[u].at \in {"start", "again"} => usr[u].on = NoSeg
  /\ \A u \in User : usr[u].at \in {"size", "copy"} => usr[u].on # NoSeg
  /\ \A g \in Segment : seg[g].state # "none" => \E u \in User : usr[u].on = g

\* The users whose memcpy writes into segment g.
Writes(u, g) == usr[u].on = g /\ usr[u].at = "copy" /\ ~Private(u)

\* What a memcpy still has to write.
Ahead(u) == copying[u].cell .. copying[u].len

CopyBounds == \A u \in User : usr[u].at = "copy" => /\ 1 \in 1 .. copying[u].len
                                                    /\ copying[u].cell \in 1 .. copying[u].len

\* Without a mixture there is one memcpy at a time, what it still has to write was typed
\* last, and the other cells are up to date.
CellsFollow ==
  \A g \in Segment \ mixed :
    /\ \A u, v \in User : Writes(u, g) /\ Writes(v, g) => u = v
    /\ \A u \in User : Writes(u, g) => \A k \in Ahead(u) : written[g][k] = u
    /\ \A k \in 1 .. 2 : \/ seg[g].cells[k] = written[g][k]
                         \/ \E u \in User : Writes(u, g) /\ k \in Ahead(u)

\* Memory without a size still has its maker, before or after a failing ftruncate.
Unsized == {usr[v].on : v \in {w \in User : usr[w].at \in {"size", "failed"}}}
SizeComes ==
  skind = "posix" =>
    /\ shname # NoSeg => seg[shname].state = "sized" \/ shname \in Unsized
    /\ \A u \in User : usr[u].on # NoSeg => seg[usr[u].on].state = "sized" \/ usr[u].on \in Unsized

ShmInv == ShmTypeOK /\ SegmentsHeld /\ CopyBounds /\ CellsFollow /\ SizeComes

\* Between shmget and shmat a segment can be removed, but only by somebody who had it.
GotHeld ==
  /\ \A u \in User : usr[u].at = "got" => /\ skind = "sysv" /\ usr[u].on \in Segment
                                         /\ seg[usr[u].on].state \in {"live", "removed"}
  /\ \A g \in Segment : seg[g].state = "removed" =>
       \E v \in User : usr[v].on = g /\ usr[v].at = "exit"

LEMMA SegmentOne == ASSUME NEW u \in User PROVE 1 \in Segment
<1>1. Cardinality(User) \in Nat /\ Cardinality(User) # 0
  BY ShmAssumption, FS_CardinalityType, FS_EmptySet
<1> QED BY <1>1 DEF Segment

LEMMA UnusedSegment ==
  ASSUME ShmTypeOK, SegmentsHeld, NEW u \in User, usr[u].at = "start"
  PROVE  Unused \in Segment /\ seg[Unused].state = "none"
<1> DEFINE on == [w \in User |-> usr[w].on]
<1>1. PICK g \in Segment : \A v \in User \ {u} : on[v] # g
  <2> HIDE DEF on
  <2> QED BY ShmAssumption, SpareNumber DEF Segment
<1>2. g # NoSeg
  BY SMT DEF Segment, NoSeg
<1>3. \A v \in User : usr[v].on # g
  BY <1>1, <1>2 DEF SegmentsHeld
<1>4. seg[g].state = "none"
  BY <1>3 DEF SegmentsHeld
<1> QED BY <1>4 DEF Unused

\* A step that starts or ends no memcpy and writes no cell keeps CopyBounds and CellsFollow.
LEMMA CellsStay ==
  ASSUME ShmTypeOK, CopyBounds, CellsFollow, NEW u \in User,
         usr[u].at # "copy", usr'[u].at # "copy",
         \A v \in User \ {u} : usr'[v] = usr[v],
         \A g \in Segment : seg'[g].cells = seg[g].cells,
         UNCHANGED <<copying, mixed, written>>
  PROVE  CopyBounds' /\ CellsFollow'
<1>1. \A v \in User : usr'[v].at = "copy" => usr[v].at = "copy" /\ v # u
  OBVIOUS
<1>2. CopyBounds'
  BY <1>1 DEF CopyBounds
<1>3. \A v \in User, g \in Segment : Writes(v, g)' <=> Writes(v, g)
  BY DEF Writes, Private
<1>4. \A v \in User : Ahead(v)' = Ahead(v)
  BY DEF Ahead
<1>5. CellsFollow'
  BY <1>3, <1>4 DEF CellsFollow
<1> QED BY <1>2, <1>5

LEMMA ShmInit_Inv == ShmInit => ShmInv
<1> SUFFICES ASSUME NEW k \in {"sysv", "posix", "mmap"}, ShmAt(k)
             PROVE  ShmInv
  BY DEF ShmInit
<1> USE DEF ShmAt, NoSeg
<1>1. Zero \in Cells
  BY DEF Zero, Text, Cells
<1>2. ShmTypeOK
  BY <1>1 DEF ShmTypeOK, Segments, Idle
<1>3. SegmentsHeld /\ CopyBounds /\ SizeComes
  BY DEF SegmentsHeld, CopyBounds, SizeComes
<1>4. CellsFollow
  BY DEF CellsFollow, Writes
<1> QED BY <1>2, <1>3, <1>4 DEF ShmInv

LEMMA SysvStep_Inv ==
  ASSUME ShmInv, GotHeld, NEW u \in User, sysv_shmget(u) \/ \E g \in Segment : shmat(u, g)
  PROVE  ShmInv'
<1> USE DEF ShmInv
<1>1. CASE sysv_shmget(u)
  <2>0. Unused \in Segment /\ seg[Unused].state = "none"
    BY <1>1, UnusedSegment DEF sysv_shmget
  <2> HIDE DEF Unused
  <2>a. PICK l \in {"got", "exit"}, to \in {Unused, NoSeg} :
          /\ usr' = [usr EXCEPT ![u] = [at |-> l, on |-> to, mode |-> usr[u].mode]]
          /\ l = "got" => to = Unused
          /\ \/ to = Unused /\ seg' = [seg EXCEPT ![Unused].state = "live"]
             \/ seg' = seg
          /\ skind = "sysv" /\ usr[u].at = "start"
          /\ UNCHANGED <<skind, shname, own, copying, typed, mixed, written>>
    BY <1>1 DEF sysv_shmget, Moves
  <2>b. /\ usr'[u].at = l /\ usr'[u].on = to /\ \A v \in User \ {u} : usr'[v] = usr[v]
        /\ usr[u].on = NoSeg /\ NoSeg \notin Segment
    BY <2>a DEF SegmentsHeld, ShmTypeOK, NoSeg, Segment
  <2>c. /\ \A g \in Segment : seg'[g].cells = seg[g].cells
        /\ \A g \in Segment : seg'[g].state # "none" => seg[g].state # "none" \/ g = to
        /\ seg' \in [Segment -> Segments]
    <3>1. seg \in [Segment -> Segments] /\ seg[Unused] \in Segments /\ seg = [g \in Segment |-> seg[g]]
      BY <2>0 DEF ShmTypeOK
    <3>2. PICK e : e = [seg[Unused] EXCEPT !.state = "live"]
      OBVIOUS
    <3>3. e \in Segments /\ e.cells = seg[Unused].cells
      BY <3>1, <3>2 DEF Segments
    <3>4. seg' = seg \/ (to = Unused /\ seg' = [seg EXCEPT ![Unused] = e])
      <4>1. CASE seg' = [seg EXCEPT ![Unused].state = "live"] /\ to = Unused
        BY <2>0, <3>1, <3>2, <4>1
      <4>2. seg' = seg \/ (to = Unused /\ seg' = [seg EXCEPT ![Unused].state = "live"])
        BY <2>a, Zenon
      <4>3. CASE seg' = seg
        BY <4>3
      <4> QED BY <4>1, <4>2, <4>3, Zenon
    <3> QED BY <2>0, <3>1, <3>3, <3>4
  <2>1. ShmTypeOK'
    BY <2>0, <2>a, <2>c DEF ShmTypeOK
  <2>2. SegmentsHeld'
    BY <2>a, <2>b, <2>c DEF SegmentsHeld
  <2>3. CopyBounds' /\ CellsFollow'
    BY <2>a, <2>b, <2>c, CellsStay
  <2>4. SizeComes'
    BY <2>a DEF SizeComes
  <2> QED BY <2>1, <2>2, <2>3, <2>4
<1>2. CASE \E g \in Segment : shmat(u, g)
  <2>0. PICK g \in Segment : shmat(u, g)
    BY <1>2
  <2> DEFINE to == IF Attachable(g) THEN g ELSE NoSeg
  <2>a. to \in Segment \union {NoSeg}
    OBVIOUS
  <2>b. /\ skind = "sysv" /\ usr[u].at \in {"start", "got"} /\ Moves(u, "loop", to)
        /\ UNCHANGED <<skind, shname, seg, own, copying, typed, mixed, written>>
    BY <2>0 DEF shmat
  <2>c. usr[u].at = "got" => usr[u].on = g
    BY <2>0 DEF shmat
  <2>d. usr[u].at = "got" /\ to # g => seg[g].state = "removed"
    BY <2>c DEF GotHeld, Attachable
  <2> HIDE DEF to
  <2>e. /\ usr'[u].at = "loop" /\ usr'[u].on = to /\ \A v \in User \ {u} : usr'[v] = usr[v]
        /\ NoSeg \notin Segment
    BY <2>b DEF Moves, ShmTypeOK, NoSeg, Segment
  <2>1. ShmTypeOK'
    BY <2>a, <2>b DEF Moves, ShmTypeOK
  <2>2. SegmentsHeld'
    <3>1. ASSUME NEW h \in Segment, seg[h].state # "none" PROVE \E v \in User : usr'[v].on = h
      <4>1. PICK v \in User : usr[v].on = h
        BY <3>1 DEF SegmentsHeld
      <4>2. CASE v # u
        BY <2>e, <4>1, <4>2
      <4>3. CASE v = u
        <5>1. usr[u].at = "got" /\ h = g
          BY <2>b, <2>c, <2>e, <4>1, <4>3 DEF SegmentsHeld
        <5>2. CASE to = g
          BY <2>e, <5>1, <5>2
        <5>3. CASE to # g
          <6>1. PICK w \in User : usr[w].on = g /\ usr[w].at = "exit"
            BY <2>d, <5>1, <5>3 DEF GotHeld
          <6>2. w # u
            BY <5>1, <6>1
          <6> QED BY <2>e, <5>1, <6>1, <6>2
        <5> QED BY <5>2, <5>3
      <4> QED BY <4>2, <4>3
    <3> QED BY <2>b, <2>e, <3>1 DEF SegmentsHeld
  <2>3. CopyBounds' /\ CellsFollow'
    BY <2>b, <2>e, CellsStay
  <2>4. SizeComes'
    BY <2>b DEF SizeComes
  <2> QED BY <2>1, <2>2, <2>3, <2>4
<1> QED BY <1>1, <1>2

LEMMA PosixStep_Inv ==
  ASSUME ShmInv, NEW u \in User, shm_open(u) \/ shm_open_again(u) \/ ftruncate(u)
  PROVE  ShmInv'
<1> USE DEF ShmInv
<1>1. CASE shm_open(u) /\ shname = NoSeg
  <2>0. Unused \in Segment /\ seg[Unused].state = "none"
    BY <1>1, UnusedSegment DEF shm_open
  <2>a. /\ skind = "posix" /\ usr[u].at = "start" /\ usr[u].on = NoSeg
        /\ shname' = Unused /\ seg' = [seg EXCEPT ![Unused].state = "live"]
        /\ usr' = [usr EXCEPT ![u] = [at |-> "size", on |-> Unused, mode |-> usr[u].mode]]
        /\ UNCHANGED <<skind, own, copying, typed, mixed, written>>
    BY <1>1 DEF shm_open, Moves, AfterCreate, SegmentsHeld
  <2> USE <2>0, <2>a
  <2> HIDE DEF Unused
  <2>1. ShmTypeOK'
    BY DEF ShmTypeOK, Segments
  <2>b. usr'[u].on = Unused /\ usr'[u].at = "size" /\ \A v \in User \ {u} : usr'[v] = usr[v]
    BY DEF ShmTypeOK, Segments
  <2>c. seg'[Unused].state = "live" /\ \A g \in Segment \ {Unused} : seg'[g] = seg[g]
    BY DEF ShmTypeOK, Segments
  <2>d. NoSeg \notin Segment
    BY DEF NoSeg, Segment
  <2>2. SegmentsHeld'
    BY <2>b, <2>c, <2>d DEF SegmentsHeld
  <2>3. CopyBounds' /\ CellsFollow'
    <3>1. /\ usr[u].at # "copy" /\ usr'[u].at # "copy"
          /\ \A g \in Segment : seg'[g].cells = seg[g].cells
          /\ UNCHANGED <<copying, mixed, written>>
      BY DEF ShmTypeOK, Segments
    <3> QED BY <2>b, <3>1, CellsStay
  <2>4. SizeComes'
    <3>1. Unused \in Unsized'
      BY <2>b DEF Unsized
    <3>2. \A g \in Segment : g \in Unsized => g \in Unsized'
      BY <2>b, <2>d DEF Unsized
    <3>3. ASSUME NEW v \in User, usr'[v].on # NoSeg
          PROVE  seg'[usr'[v].on].state = "sized" \/ usr'[v].on \in Unsized'
      <4>1. CASE usr'[v].on = Unused
        BY <3>1, <4>1
      <4>2. CASE usr'[v].on # Unused
        <5>1. v # u /\ usr'[v] = usr[v] /\ usr[v].on \in Segment \ {Unused}
          BY <2>b, <3>3, <4>2 DEF ShmTypeOK, Segments
        <5>2. seg[usr[v].on].state = "sized" \/ usr[v].on \in Unsized
          BY <3>3, <5>1 DEF SizeComes
        <5> QED BY <2>c, <3>2, <5>1, <5>2
      <4> QED BY <4>1, <4>2
    <3> QED BY <3>1, <3>3 DEF SizeComes
  <2> QED BY <2>1, <2>2, <2>3, <2>4
<1>2. CASE shm_open(u) /\ shname # NoSeg
  <2>a. /\ skind = "posix" /\ usr[u].at = "start" /\ usr[u].on = NoSeg
        /\ usr' = [usr EXCEPT ![u] = [at |-> "again", on |-> usr[u].on, mode |-> usr[u].mode]]
        /\ UNCHANGED <<skind, shname, seg, own, copying, typed, mixed, written>>
    BY <1>2 DEF shm_open, Moves, SegmentsHeld
  <2>b. /\ usr'[u].on = NoSeg /\ usr'[u].at = "again"
        /\ \A v \in User \ {u} : usr'[v] = usr[v]
    BY <2>a DEF ShmTypeOK, Segments
  <2>1. ShmTypeOK'
    BY <2>a DEF ShmTypeOK, Segments
  <2>2. SegmentsHeld'
    BY <2>a, <2>b DEF SegmentsHeld, NoSeg, Segment
  <2>3. CopyBounds' /\ CellsFollow'
    BY <2>a, <2>b, CellsStay
  <2>4. SizeComes'
    <3>1. \A g \in Segment : g \in Unsized => g \in Unsized'
      BY <2>a, <2>b DEF Unsized
    <3> QED BY <2>a, <2>b, <3>1 DEF SizeComes, ShmTypeOK
  <2> QED BY <2>1, <2>2, <2>3, <2>4
<1>3. CASE shm_open_again(u)
  <2> DEFINE l == IF shname = NoSeg THEN "exit" ELSE "loop"
  <2>a. /\ skind = "posix" /\ usr[u].at = "again" /\ l \in {"exit", "loop"}
        /\ usr' = [usr EXCEPT ![u] = [at |-> l, on |-> shname, mode |-> usr[u].mode]]
        /\ UNCHANGED <<skind, shname, seg, own, copying, typed, mixed, written>>
    BY <1>3 DEF shm_open_again, Moves
  <2> HIDE DEF l
  <2>1. ShmTypeOK'
    BY <2>a DEF ShmTypeOK, Segments
  <2>b. /\ usr'[u].on = shname /\ usr'[u].at \in {"exit", "loop"}
        /\ \A v \in User \ {u} : usr'[v] = usr[v]
    BY <2>a DEF ShmTypeOK, Segments
  <2>2. SegmentsHeld'
    <3>1. \A g \in Segment : seg[g].state # "none" => \E v \in User \ {u} : usr[v].on = g
      BY <2>a DEF SegmentsHeld, NoSeg, Segment
    <3> QED BY <2>a, <2>b, <3>1 DEF SegmentsHeld
  <2>3. CopyBounds' /\ CellsFollow'
    BY <2>a, <2>b, CellsStay
  <2>4. SizeComes'
    <3>1. \A g \in Segment : g \in Unsized => g \in Unsized'
      BY <2>a, <2>b DEF Unsized
    <3> QED BY <2>a, <2>b, <3>1 DEF SizeComes, ShmTypeOK
  <2> QED BY <2>1, <2>2, <2>3, <2>4
<1>4. CASE ftruncate(u)
  <2>a. /\ skind = "posix" /\ usr[u].at = "size" /\ usr[u].on \in Segment
        /\ UNCHANGED <<skind, shname, own, copying, typed, mixed, written>>
    BY <1>4 DEF ftruncate, Moves, SegmentsHeld, ShmTypeOK
  <2>b. /\ \A v \in User \ {u} : usr'[v] = usr[v]
        /\ usr'[u].on = usr[u].on /\ usr'[u].at \in {"loop", "failed"}
        /\ usr'[u].at = "failed" \/ seg'[usr[u].on].state = "sized"
    BY <1>4, <2>a DEF ftruncate, Moves, ShmTypeOK, Segments
  <2>c. /\ \A g \in Segment : seg'[g].cells = seg[g].cells
        /\ \A g \in Segment : seg[g].state = "sized" => seg'[g].state = "sized"
        /\ \A g \in Segment : g # usr[u].on => seg'[g] = seg[g]
    <3>1. seg' = seg \/ seg' = [seg EXCEPT ![usr[u].on].state = "sized"]
      BY <1>4 DEF ftruncate
    <3>2. CASE seg' = seg
      BY <3>2
    <3>3. CASE seg' = [seg EXCEPT ![usr[u].on].state = "sized"]
      <4>1. /\ \A g \in Segment : g # usr[u].on => seg'[g] = seg[g]
            /\ seg'[usr[u].on].cells = seg[usr[u].on].cells
            /\ seg'[usr[u].on].state = "sized"
        BY <2>a, <3>3 DEF ShmTypeOK, Segments
      <4> QED BY <4>1
    <3> QED BY <3>1, <3>2, <3>3
  <2>1. ShmTypeOK'
    <3>1. seg' \in [Segment -> Segments]
      BY <1>4, <2>a DEF ftruncate, ShmTypeOK, Segments
    <3>2. usr' \in [User -> [at : {"start", "got", "loop", "again", "size", "exit", "failed", "trapped",
                                  "copy"},
                            on : Segment \union {NoSeg}, mode : {"shared", "private", "once"}]]
      <4>1. PICK l \in {"loop", "failed"} : Moves(u, l, usr[u].on)
        BY <1>4 DEF ftruncate
      <4> QED BY <2>a, <4>1 DEF Moves, ShmTypeOK, Segments
    <3> QED BY <2>a, <3>1, <3>2 DEF ShmTypeOK, Segments
  <2>2. SegmentsHeld'
    <3>1. \A v \in User : usr'[v].on = usr[v].on
      BY <2>b
    <3>2. \A g \in Segment : seg'[g].state # "none" => \E v \in User : usr'[v].on = g
      <4> SUFFICES ASSUME NEW g \in Segment, seg'[g].state # "none"
                   PROVE  \E v \in User : usr'[v].on = g
        OBVIOUS
      <4>1. CASE g = usr[u].on
        BY <3>1, <4>1
      <4>2. CASE g # usr[u].on
        BY <2>c, <3>1, <4>2 DEF SegmentsHeld
      <4> QED BY <4>1, <4>2
    <3>3. \A v \in User : /\ usr'[v].at \in {"start", "again"} => usr'[v].on = NoSeg
                          /\ usr'[v].at \in {"size", "copy"} => usr'[v].on # NoSeg
      BY <2>b DEF SegmentsHeld
    <3> QED BY <3>2, <3>3 DEF SegmentsHeld
  <2>3. CopyBounds' /\ CellsFollow'
    <3>1. /\ usr[u].at # "copy" /\ usr'[u].at # "copy"
          /\ \A v \in User \ {u} : usr'[v] = usr[v]
          /\ \A g \in Segment : seg'[g].cells = seg[g].cells
          /\ UNCHANGED <<copying, mixed, written>>
      BY <2>a, <2>b, <2>c
    <3> QED BY <3>1, CellsStay
  <2>4. SizeComes'
    <3>1. ASSUME NEW g \in Segment, seg[g].state = "sized" \/ g \in Unsized
          PROVE  seg'[g].state = "sized" \/ g \in Unsized'
      <4>1. CASE g \in Unsized
        <5>1. PICK v \in User : usr[v].on = g /\ usr[v].at \in {"size", "failed"}
          BY <4>1 DEF Unsized
        <5>2. CASE v = u
          BY <2>b, <5>1, <5>2 DEF Unsized
        <5>3. CASE v # u
          BY <2>b, <5>1, <5>3 DEF Unsized
        <5> QED BY <5>2, <5>3
      <4>2. CASE seg[g].state = "sized"
        BY <2>c, <4>2
      <4> QED BY <3>1, <4>1, <4>2
    <3>2. \A v \in User : usr'[v].on = usr[v].on
      BY <2>b
    <3> QED BY <2>a, <3>1, <3>2 DEF SizeComes, ShmTypeOK
  <2> QED BY <2>1, <2>2, <2>3, <2>4
<1> QED BY <1>1, <1>2, <1>3, <1>4

LEMMA Mmap_Inv ==
  ASSUME ShmInv, NEW u \in User, NEW mode \in {"shared", "private", "once"}, mmap(u, mode)
  PROVE  ShmInv'
<1> USE DEF ShmInv
<1> DEFINE fresh == <<"contents", "contents">>
<1>a. /\ skind = "mmap" /\ usr[u].at = "start" /\ usr[u].on = NoSeg /\ 1 \in Segment
      /\ usr' = [usr EXCEPT ![u] = [at |-> "loop", on |-> 1, mode |-> mode]]
      /\ UNCHANGED <<skind, shname, own, copying, typed>>
  BY SegmentOne DEF mmap, SegmentsHeld
<1>b. usr'[u].on = 1 /\ usr'[u].at = "loop" /\ \A v \in User \ {u} : usr'[v] = usr[v]
  BY <1>a DEF ShmTypeOK, Segments
<1>f. fresh \in Cells
  BY DEF Text, Cells
<1>g. \/ mode = "once" /\ UNCHANGED <<seg, written, mixed>>
      \/ /\ seg' = [seg EXCEPT ![1].cells = fresh] /\ written' = [written EXCEPT ![1] = fresh]
         /\ mixed' = IF \E v \in User : usr[v].at = "copy" THEN mixed \cup {1} ELSE mixed
  BY DEF mmap
<1> HIDE DEF fresh
<1>c. \A g \in Segment : seg'[g].state = seg[g].state
  BY <1>a, <1>f, <1>g DEF ShmTypeOK, Segments
<1>1. ShmTypeOK'
  <2>1. seg' \in [Segment -> Segments]
    <3>1. seg' = seg \/ seg' = [seg EXCEPT ![1].cells = fresh]
      BY <1>g
    <3> QED BY <1>a, <1>f, <3>1 DEF ShmTypeOK, Segments
  <2>2. written' \in [Segment -> Cells]
    BY <1>a, <1>f, <1>g DEF ShmTypeOK, Segments
  <2>3. usr' \in [User -> [at : {"start", "got", "loop", "again", "size", "exit", "failed", "trapped",
                                "copy"},
                          on : Segment \union {NoSeg}, mode : {"shared", "private", "once"}]]
    BY <1>a DEF ShmTypeOK, Segments
  <2> QED BY <1>a, <2>1, <2>2, <2>3 DEF ShmTypeOK, Segments
<1>2. SegmentsHeld'
  <2>1. \A g \in Segment : seg[g].state # "none" => \E v \in User \ {u} : usr[v].on = g
    BY <1>a DEF SegmentsHeld, NoSeg, Segment
  <2> QED BY <1>b, <1>c, <2>1 DEF SegmentsHeld, NoSeg
<1>3. CopyBounds' /\ CellsFollow'
  <2>1. CASE mode = "once" /\ UNCHANGED <<seg, written, mixed>>
    BY <1>a, <1>b, <2>1, CellsStay
  <2>2. CASE /\ seg' = [seg EXCEPT ![1].cells = fresh] /\ written' = [written EXCEPT ![1] = fresh]
             /\ mixed' = IF \E v \in User : usr[v].at = "copy" THEN mixed \cup {1} ELSE mixed
    <3>1. CopyBounds'
      BY <1>a, <1>b DEF CopyBounds
    <3>2. /\ seg'[1].cells = fresh /\ written'[1] = fresh
          /\ \A g \in Segment \ {1} : seg'[g] = seg[g] /\ written'[g] = written[g]
      BY <1>a, <1>f, <2>2 DEF ShmTypeOK, Segments
    <3>3. \A v \in User : \A g \in Segment : Writes(v, g)' <=> Writes(v, g)
      BY <1>a, <1>b DEF Writes, Private
    <3>4. \A v \in User : Ahead(v)' = Ahead(v)
      BY <1>a DEF Ahead
    <3>5. 1 \notin mixed' => \A v \in User : ~Writes(v, 1)
      BY <2>2 DEF Writes
    <3>6. mixed \subseteq mixed' /\ mixed' \subseteq mixed \cup {1}
      BY <2>2
    <3>7. CellsFollow'
      BY <3>2, <3>3, <3>4, <3>5, <3>6 DEF CellsFollow
    <3> QED BY <3>1, <3>7
  <2> QED BY <1>g, <2>1, <2>2
<1>4. SizeComes'
  BY <1>a DEF SizeComes
<1> QED BY <1>1, <1>2, <1>3, <1>4

\* A step of u that ends or begins no memcpy, when u has its segment already.
LEMMA PlaceStep_Inv ==
  ASSUME ShmInv, NEW u \in User, Trap(u) \/ \E b \in BOOLEAN : Leave(u, b)
  PROVE  ShmInv'
<1> USE DEF ShmInv
<1>0. PICK l \in {"trapped", "exit"} :
        /\ usr' = [usr EXCEPT ![u] = [at |-> l, on |-> usr[u].on, mode |-> usr[u].mode]]
        /\ usr[u].at = "loop" /\ UNCHANGED <<skind, own, copying, typed, mixed, written>>
  BY DEF Trap, Leave, Moves
<1>1. shname' \in {shname, NoSeg}
  BY DEF Trap, Leave
<1>2. \/ seg' = seg
      \/ skind = "sysv" /\ usr[u].on # NoSeg /\ seg' = [seg EXCEPT ![usr[u].on].state = "removed"]
  BY DEF Trap, Leave
<1>3. ShmTypeOK'
  <2>1. usr[u].on # NoSeg => usr[u].on \in Segment
    BY DEF ShmTypeOK, Segments
  <2>2. seg' \in [Segment -> Segments]
    BY <1>2, <2>1 DEF ShmTypeOK, Segments
  <2> QED BY <1>0, <1>1, <2>2 DEF ShmTypeOK
<1>4. /\ usr'[u].on = usr[u].on /\ usr'[u].at \in {"trapped", "exit"}
      /\ \A v \in User \ {u} : usr'[v] = usr[v]
  BY <1>0 DEF ShmTypeOK
<1>5. \A v \in User : usr'[v].on = usr[v].on
  BY <1>4
<1>6. \A g \in Segment : /\ seg'[g].cells = seg[g].cells
                         /\ seg'[g].state # "none" => \E v \in User : usr[v].on = g
  <2>1. CASE seg' = seg
    BY <2>1 DEF SegmentsHeld
  <2>2. CASE usr[u].on # NoSeg /\ seg' = [seg EXCEPT ![usr[u].on].state = "removed"]
    <3>1. usr[u].on \in Segment
      BY <2>2 DEF ShmTypeOK
    <3> QED BY <2>2, <3>1 DEF SegmentsHeld, ShmTypeOK, Segments
  <2> QED BY <1>2, <2>1, <2>2
<1>7. SegmentsHeld'
  BY <1>4, <1>5, <1>6 DEF SegmentsHeld
<1>8. CopyBounds' /\ CellsFollow'
  BY <1>0, <1>4, <1>6, CellsStay
<1>9. SizeComes'
  <2>1. \A g \in Segment : g \in Unsized => g \in Unsized'
    BY <1>0, <1>4 DEF Unsized
  <2>2. skind = "posix" => seg' = seg
    BY <1>2
  <2> QED BY <1>0, <1>1, <1>5, <2>1, <2>2 DEF SizeComes, ShmTypeOK
<1> QED BY <1>3, <1>7, <1>8, <1>9

LEMMA Type_Inv ==
  ASSUME ShmInv, NEW u \in User, Type(u)
  PROVE  ShmInv'
<1> USE DEF ShmInv
<1>p. PICK g \in Segment : g = usr[u].on
  BY DEF Type, ShmTypeOK
<1> DEFINE busy == \E v \in Mapped(g) : usr[v].at = "copy" /\ ~Private(v)
<1>0. PICK len \in 1 .. 2 :
        /\ copying' = [copying EXCEPT ![u] = [cell |-> 1, len |-> len]]
        /\ mixed' = IF busy /\ ~Private(u) THEN mixed \cup {g} ELSE mixed
        /\ written' = IF Private(u) THEN written
                      ELSE [written EXCEPT ![g] = Overlay(written[g], u, len)]
  BY <1>p DEF Type
<1>a. /\ usr[u].at = "loop" /\ g = usr[u].on /\ UNCHANGED <<skind, shname, seg, own>>
      /\ usr' = [usr EXCEPT ![u] = [at |-> "copy", on |-> usr[u].on, mode |-> usr[u].mode]]
  BY <1>p DEF Type, Moves
<1>b. Overlay(written[g], u, len) \in Cells
  BY <1>a DEF Overlay, Cells, Text, ShmTypeOK
<1>1. ShmTypeOK'
  <2>1. copying' \in [User -> [cell : 0 .. 2, len : 0 .. 2]]
    BY <1>0 DEF ShmTypeOK
  <2>2. written' \in [Segment -> Cells]
    BY <1>0, <1>a, <1>b DEF ShmTypeOK
  <2>3. usr' \in [User -> [at : {"start", "got", "loop", "again", "size", "exit", "failed", "trapped",
                                "copy"},
                           on : Segment \union {NoSeg}, mode : {"shared", "private", "once"}]]
    BY <1>a DEF ShmTypeOK
  <2> QED BY <1>a, <2>1, <2>2, <2>3 DEF ShmTypeOK
<1>c. /\ usr'[u].on = g /\ usr'[u].at = "copy" /\ usr'[u].mode = usr[u].mode
      /\ \A v \in User \ {u} : usr'[v] = usr[v]
  BY <1>a DEF ShmTypeOK
<1>d. \A v \in User : usr'[v].on = usr[v].on
  BY <1>a, <1>c
<1>2. SegmentsHeld'
  <2>1. g # NoSeg
    BY <1>a DEF NoSeg, Segment
  <2> QED BY <1>a, <1>c, <1>d, <2>1 DEF SegmentsHeld
<1>e. copying'[u] = [cell |-> 1, len |-> len] /\ \A v \in User \ {u} : copying'[v] = copying[v]
  BY <1>0 DEF ShmTypeOK
<1>3. CopyBounds'
  BY <1>c, <1>e DEF CopyBounds
<1>4. CellsFollow'
  <2>1. \A v \in User \ {u} : Ahead(v)' = Ahead(v)
    BY <1>e DEF Ahead
  <2>2. Ahead(u)' = 1 .. len
    BY <1>e DEF Ahead
  <2>3. \A v \in User \ {u} : \A h \in Segment : Writes(v, h)' <=> Writes(v, h)
    BY <1>c DEF Writes, Private
  <2>4. \A h \in Segment : /\ ~Writes(u, h)
                           /\ Writes(u, h)' <=> h = g /\ ~Private(u)
    BY <1>a, <1>c DEF Writes, Private
  <2>5. CASE Private(u)
    <3>1. UNCHANGED <<mixed, written, seg>>
      BY <1>0, <1>a, <2>5
    <3>2. \A v \in User : \A h \in Segment : Writes(v, h)' <=> Writes(v, h)
      BY <2>3, <2>4, <2>5
    <3>3. \A v \in User : \A h \in Segment : Writes(v, h) => Ahead(v)' = Ahead(v)
      BY <2>1, <2>4
    <3> QED BY <3>1, <3>2, <3>3 DEF CellsFollow
  <2>6. CASE ~Private(u)
    <3>1. /\ written'[g] = Overlay(written[g], u, len)
          /\ \A h \in Segment \ {g} : written'[h] = written[h]
      BY <1>0, <1>a, <2>6 DEF ShmTypeOK
    <3>2. mixed \subseteq mixed' /\ mixed' \subseteq mixed \cup {g}
      BY <1>0
    <3>3. g \notin mixed' => \A v \in User : ~Writes(v, g)
      BY <1>0, <2>6 DEF Writes, Mapped
    <3>4. ASSUME NEW h \in Segment \ mixed'
          PROVE  /\ \A v, w \in User : Writes(v, h)' /\ Writes(w, h)' => v = w
                 /\ \A v \in User : Writes(v, h)' => \A k \in Ahead(v)' : written'[h][k] = v
                 /\ \A k \in 1 .. 2 : \/ seg'[h].cells[k] = written'[h][k]
                                      \/ \E v \in User : Writes(v, h)' /\ k \in Ahead(v)'
      <4>1. CASE h = g
        <5>1. \A v \in User : Writes(v, g)' <=> v = u
          BY <2>3, <2>4, <2>6, <3>3, <3>4, <4>1
        <5>2. \A k \in 1 .. 2 : seg[g].cells[k] = written[g][k]
          BY <3>2, <3>3, <3>4, <4>1 DEF CellsFollow
        <5>3. \A k \in 1 .. 2 : written'[g][k] = IF k <= len THEN u ELSE written[g][k]
          BY <3>1 DEF Overlay
        <5>4. \A k \in Ahead(u)' : k \in 1 .. 2 /\ k <= len
          BY <2>2
        <5>5. \A k \in 1 .. 2 : k \in Ahead(u)' \/ seg[g].cells[k] = written'[g][k]
          BY <2>2, <5>2, <5>3
        <5> QED BY <1>a, <4>1, <5>1, <5>3, <5>4, <5>5
      <4>2. CASE h # g
        <5>1. \A v \in User : Writes(v, h)' <=> Writes(v, h)
          BY <2>3, <2>4, <4>2
        <5>2. \A v \in User : Writes(v, h) => Ahead(v)' = Ahead(v)
          BY <2>1, <2>4
        <5>3. written'[h] = written[h] /\ seg'[h] = seg[h] /\ h \in Segment \ mixed
          BY <1>a, <3>1, <3>2, <3>4, <4>2
        <5> QED BY <5>1, <5>2, <5>3 DEF CellsFollow
      <4> QED BY <4>1, <4>2
    <3> QED BY <3>4 DEF CellsFollow
  <2> QED BY <2>5, <2>6
<1>5. SizeComes'
  <2>1. \A h \in Segment : h \in Unsized => h \in Unsized'
    BY <1>a, <1>c DEF Unsized
  <2> QED BY <1>a, <1>d, <2>1 DEF SizeComes, ShmTypeOK
<1> QED BY <1>1, <1>2, <1>3, <1>4, <1>5

LEMMA Copy_Inv ==
  ASSUME ShmInv, NEW u \in User, Copy(u)
  PROVE  ShmInv'
<1> USE DEF ShmInv
<1>p. PICK g \in Segment, k \in 1 .. 2, n \in 1 .. 2 :
        g = usr[u].on /\ k = copying[u].cell /\ n = copying[u].len /\ k <= n
  BY DEF Copy, SegmentsHeld, CopyBounds, ShmTypeOK
<1> DEFINE last == k >= n
           l == IF last THEN (IF usr[u].mode = "once" THEN "exit" ELSE "loop") ELSE "copy"
<1>a. /\ usr[u].at = "copy" /\ g = usr[u].on /\ k = copying[u].cell /\ n = copying[u].len
      /\ k <= n /\ UNCHANGED <<skind, shname, typed, mixed, written>>
  BY <1>p DEF Copy
<1>b. /\ l \in {"exit", "loop", "copy"} /\ (l = "copy" <=> k < n)
      /\ usr' = [usr EXCEPT ![u] = [at |-> l, on |-> usr[u].on, mode |-> usr[u].mode]]
  <2>1. CASE k < n
    <3>1. usr' = usr /\ l = "copy"
      BY <1>a, <2>1 DEF Copy
    <3> QED BY <1>a, <2>1, <3>1 DEF ShmTypeOK
  <2>2. CASE ~(k < n)
    BY <1>a, <2>2 DEF Copy, Moves
  <2> QED BY <2>1, <2>2
<1>c. /\ \A v \in User \ {u} : copying'[v] = copying[v]
      /\ copying'[u] = IF k < n THEN [cell |-> k + 1, len |-> n] ELSE Idle
      /\ copying' \in [User -> [cell : 0 .. 2, len : 0 .. 2]]
  <2>1. CASE k < n
    <3>1. copying' = [copying EXCEPT ![u].cell = k + 1]
      BY <1>a, <2>1 DEF Copy
    <3> QED BY <1>a, <2>1, <3>1 DEF ShmTypeOK
  <2>2. CASE ~(k < n)
    <3>1. copying' = [copying EXCEPT ![u] = Idle]
      BY <1>a, <2>2 DEF Copy
    <3> QED BY <1>a, <2>2, <3>1 DEF ShmTypeOK, Idle
  <2> QED BY <2>1, <2>2
<1>d. \/ Private(u) /\ seg' = seg
      \/ ~Private(u) /\ seg' = [seg EXCEPT ![g].cells[k] = u]
  BY <1>a DEF Copy, WritesBack
<1>e. /\ seg' \in [Segment -> Segments]
      /\ \A h \in Segment : seg'[h].state = seg[h].state
      /\ \A h \in Segment \ {g} : seg'[h] = seg[h]
      /\ seg'[g].cells = IF Private(u) THEN seg[g].cells ELSE [seg[g].cells EXCEPT ![k] = u]
  <2>1. CASE seg' = seg /\ Private(u)
    BY <1>a, <2>1 DEF ShmTypeOK
  <2>2. CASE seg' = [seg EXCEPT ![g].cells[k] = u] /\ ~Private(u)
    <3> DEFINE c == [seg[g].cells EXCEPT ![k] = u]
    <3>1. c \in Cells
      BY <1>a DEF ShmTypeOK, Segments, Cells, Text
    <3>2. seg' = [seg EXCEPT ![g].cells = c]
      BY <1>a, <2>2 DEF ShmTypeOK, Segments
    <3>3. seg'[g].cells = c
      BY <3>2 DEF ShmTypeOK, Segments
    <3>4. seg' \in [Segment -> Segments]
      <4> HIDE DEF c
      <4> QED BY <3>1, <3>2 DEF ShmTypeOK, Segments
    <3>5. /\ \A h \in Segment : seg'[h].state = seg[h].state
          /\ \A h \in Segment \ {g} : seg'[h] = seg[h]
      <4> HIDE DEF c
      <4> QED BY <3>2 DEF ShmTypeOK, Segments
    <3> QED BY <2>2, <3>3, <3>4, <3>5
  <2> QED BY <1>d, <2>1, <2>2
<1> HIDE DEF l, last
<1>1. ShmTypeOK'
  BY <1>a, <1>b, <1>c, <1>e DEF ShmTypeOK
<1>f. /\ usr'[u].on = g /\ usr'[u].at = l /\ usr'[u].mode = usr[u].mode
      /\ \A v \in User \ {u} : usr'[v] = usr[v]
  BY <1>a, <1>b DEF ShmTypeOK
<1>g. \A v \in User : usr'[v].on = usr[v].on
  BY <1>a, <1>f
<1>2. SegmentsHeld'
  BY <1>a, <1>b, <1>e, <1>f, <1>g DEF SegmentsHeld
<1>3. CopyBounds'
  BY <1>a, <1>b, <1>c, <1>f DEF CopyBounds
<1>4. CellsFollow'
  <2>1. \A v \in User \ {u} : Ahead(v)' = Ahead(v)
    BY <1>c DEF Ahead
  <2>2. Ahead(u) = k .. n /\ (k < n => Ahead(u)' = (k + 1) .. n)
    BY <1>a, <1>c DEF Ahead
  <2>3. \A v \in User \ {u} : \A h \in Segment : Writes(v, h)' <=> Writes(v, h)
    BY <1>f DEF Writes, Private
  <2>4. \A h \in Segment : /\ Writes(u, h) <=> h = g /\ ~Private(u)
                           /\ Writes(u, h)' <=> h = g /\ ~Private(u) /\ k < n
    BY <1>a, <1>b, <1>f DEF Writes, Private
  <2>5. CASE Private(u)
    <3>1. UNCHANGED <<mixed, written, seg>>
      BY <1>a, <1>d, <2>5
    <3>2. \A v \in User : \A h \in Segment : Writes(v, h)' <=> Writes(v, h)
      BY <2>3, <2>4, <2>5
    <3>3. \A v \in User : \A h \in Segment : Writes(v, h) => Ahead(v)' = Ahead(v)
      BY <2>1, <2>4, <2>5
    <3> QED BY <3>1, <3>2, <3>3 DEF CellsFollow
  <2>6. CASE ~Private(u)
    <3>4. ASSUME NEW h \in Segment \ mixed'
          PROVE  /\ \A v, w \in User : Writes(v, h)' /\ Writes(w, h)' => v = w
                 /\ \A v \in User : Writes(v, h)' => \A j \in Ahead(v)' : written'[h][j] = v
                 /\ \A j \in 1 .. 2 : \/ seg'[h].cells[j] = written'[h][j]
                                      \/ \E v \in User : Writes(v, h)' /\ j \in Ahead(v)'
      <4>1. CASE h = g
        <5>0. g \in Segment \ mixed /\ written' = written /\ Writes(u, g)
          BY <1>a, <2>4, <2>6, <3>4, <4>1
        <5>1. /\ \A v, w \in User : Writes(v, g) /\ Writes(w, g) => v = w
              /\ \A j \in k .. n : written[g][j] = u
              /\ \A j \in 1 .. 2 : \/ seg[g].cells[j] = written[g][j]
                                   \/ \E v \in User : Writes(v, g) /\ j \in Ahead(v)
          BY <2>2, <5>0 DEF CellsFollow
        <5>2. \A v \in User : Writes(v, g)' => v = u /\ k < n
          BY <2>3, <2>4, <5>0, <5>1
        <5>3. \A j \in 1 .. 2 : seg[g].cells[j] = written[g][j] \/ j \in k .. n
          BY <2>2, <5>0, <5>1
        <5>4. \A j \in 1 .. 2 : seg'[g].cells[j] = IF j = k THEN u ELSE seg[g].cells[j]
          BY <1>a, <1>e, <2>6 DEF ShmTypeOK, Segments, Cells
        <5>5. written[g][k] = u
          BY <1>a, <5>1
        <5>6. \A j \in 1 .. 2 : seg'[g].cells[j] = written[g][j] \/ (k < n /\ j \in (k + 1) .. n)
          BY <1>a, <5>3, <5>4, <5>5
        <5>7. k < n => Writes(u, g)' /\ Ahead(u)' = (k + 1) .. n /\ \A j \in (k + 1) .. n : j \in k .. n
          BY <1>a, <2>2, <2>4, <2>6
        <5> QED BY <4>1, <5>0, <5>1, <5>2, <5>6, <5>7
      <4>2. CASE h # g
        <5>1. \A v \in User : Writes(v, h)' <=> Writes(v, h)
          BY <2>3, <2>4, <4>2
        <5>2. \A v \in User : Writes(v, h) => Ahead(v)' = Ahead(v)
          BY <2>1, <2>4, <4>2
        <5>3. written'[h] = written[h] /\ seg'[h] = seg[h] /\ h \in Segment \ mixed
          BY <1>a, <1>e, <3>4, <4>2
        <5> QED BY <5>1, <5>2, <5>3 DEF CellsFollow
      <4> QED BY <4>1, <4>2
    <3> QED BY <3>4 DEF CellsFollow
  <2> QED BY <2>5, <2>6
<1>5. SizeComes'
  <2>1. \A h \in Segment : h \in Unsized => h \in Unsized'
    BY <1>a, <1>f DEF Unsized
  <2> QED BY <1>a, <1>e, <1>g, <2>1 DEF SizeComes, ShmTypeOK
<1> QED BY <1>1, <1>2, <1>3, <1>4, <1>5

\* Every step keeps the invariant.
LEMMA ShmNext_Inv == ShmInv /\ GotHeld /\ [ShmNext]_shmvars => ShmInv'
<1>1. ASSUME ShmInv, UNCHANGED shmvars
      PROVE  ShmInv'
  BY <1>1 DEF ShmInv, ShmTypeOK, SegmentsHeld, CopyBounds, CellsFollow, Writes, Private, Ahead,
              SizeComes, Unsized, shmvars
<1>2. ASSUME ShmInv, GotHeld, NEW u \in User, ShmStep(u)
      PROVE  ShmInv'
  BY <1>2, SysvStep_Inv, PosixStep_Inv, Mmap_Inv, PlaceStep_Inv, Type_Inv, Copy_Inv DEF ShmStep
<1> QED BY <1>1, <1>2 DEF ShmNext

\* Who has got a segment keeps it, and only a user who leaves removes one.
LEMMA ShmNext_Got == ShmInv /\ GotHeld /\ [ShmNext]_shmvars => GotHeld'
<1> SUFFICES ASSUME ShmInv, GotHeld, [ShmNext]_shmvars PROVE GotHeld'
  OBVIOUS
<1>1. CASE UNCHANGED shmvars
  BY <1>1 DEF GotHeld, shmvars
<1>2. ASSUME NEW u \in User, ShmStep(u) PROVE GotHeld'
  <2>a. /\ skind' = skind /\ usr[u].at # "exit" /\ \A v \in User \ {u} : usr'[v] = usr[v]
    BY <1>2 DEF ShmStep, sysv_shmget, shmat, shm_open, shm_open_again, ftruncate, mmap, Trap, Type,
                Copy, Leave, Moves, ShmInv, ShmTypeOK
  <2>b. \A v \in User : usr[v].at = "exit" => v # u /\ usr'[v] = usr[v]
    BY <2>a
  <2>1. ASSUME usr'[u].at # "got",
               \A g \in Segment : seg'[g].state = seg[g].state
        PROVE  GotHeld'
    BY <2>1, <2>a, <2>b DEF GotHeld
  <2>2. CASE sysv_shmget(u)
    <3>0. Unused \in Segment /\ seg[Unused].state = "none"
      BY <2>2, UnusedSegment DEF sysv_shmget, ShmInv
    <3> HIDE DEF Unused
    <3>1. CASE Moves(u, "got", Unused) /\ seg' = [seg EXCEPT ![Unused].state = "live"]
      <4>1. /\ usr'[u].at = "got" /\ usr'[u].on = Unused /\ seg'[Unused].state = "live"
            /\ \A g \in Segment \ {Unused} : seg'[g] = seg[g]
        BY <3>0, <3>1 DEF Moves, ShmInv, ShmTypeOK, Segments
      <4>2. skind = "sysv" /\ \A v \in User : usr[v].at = "got" => usr[v].on # Unused
        BY <2>2, <3>0 DEF sysv_shmget, GotHeld
      <4>3. \A g \in Segment : seg'[g].state = "removed" => seg[g].state = "removed"
        BY <4>1
      <4> QED BY <2>a, <2>b, <3>0, <4>1, <4>2, <4>3 DEF GotHeld
    <3>2. CASE Moves(u, "exit", NoSeg) /\ UNCHANGED seg
      <4>1. usr'[u].at = "exit"
        BY <3>2 DEF Moves, ShmInv, ShmTypeOK
      <4> QED BY <2>1, <3>2, <4>1
    <3> QED BY <2>2, <3>1, <3>2 DEF sysv_shmget
  <2>3. CASE (\E g \in Segment : shmat(u, g)) \/ shm_open_again(u) \/ Trap(u) \/ Type(u)
    <3>1. usr'[u].at # "got" /\ seg' = seg
      BY <2>3 DEF shmat, shm_open_again, Trap, Type, Moves, ShmInv, ShmTypeOK
    <3> QED BY <2>1, <3>1
  <2>4. CASE (\E mode \in {"shared", "private", "once"} : mmap(u, mode)) \/ Copy(u)
    <3>1. usr'[u].at # "got"
      BY <2>4 DEF mmap, Copy, Moves, ShmInv, ShmTypeOK
    <3>2. \A g \in Segment : seg'[g].state = seg[g].state
      <4>1. seg \in [Segment -> Segments]
        BY DEF ShmInv, ShmTypeOK
      <4>2. PICK o, w : seg' = seg \/ seg' = [seg EXCEPT ![o].cells = w]
        BY <2>4 DEF mmap, Copy
      <4> QED BY <4>1, <4>2 DEF Segments
    <3> QED BY <2>1, <3>1, <3>2
  <2>5. CASE shm_open(u) \/ ftruncate(u)
    <3>1. skind = "posix" /\ usr'[u].at # "got"
      BY <2>5 DEF shm_open, ftruncate, Moves, AfterCreate, ShmInv, ShmTypeOK
    <3>2. \A g \in Segment : seg'[g].state = "removed" => seg[g].state = "removed"
      <4>1. CASE shm_open(u)
        <5>1. Unused \in Segment
          BY <4>1, UnusedSegment DEF shm_open, ShmInv
        <5> HIDE DEF Unused
        <5>2. seg' = seg \/ seg' = [seg EXCEPT ![Unused].state = "live"]
          BY <4>1 DEF shm_open
        <5> QED BY <5>1, <5>2 DEF ShmInv, ShmTypeOK, Segments
      <4>2. CASE ftruncate(u)
        <5>1. seg' = seg \/ seg' = [seg EXCEPT ![usr[u].on].state = "sized"]
          BY <4>2 DEF ftruncate
        <5> QED BY <5>1 DEF ShmInv, ShmTypeOK, Segments
      <4> QED BY <2>5, <4>1, <4>2
    <3> QED BY <2>a, <2>b, <3>1, <3>2 DEF GotHeld
  <2>6. CASE \E b \in BOOLEAN : Leave(u, b)
    <3>1. PICK h : h = usr[u].on
      OBVIOUS
    <3>2. /\ usr'[u].at = "exit" /\ usr'[u].on = h
          /\ seg' = seg \/ (h \in Segment /\ seg' = [seg EXCEPT ![h].state = "removed"])
      BY <2>6, <3>1 DEF Leave, Moves, ShmInv, ShmTypeOK
    <3>3. CASE seg' = seg
      BY <2>1, <3>2, <3>3
    <3>4. CASE h \in Segment /\ seg' = [seg EXCEPT ![h].state = "removed"]
      <4>1. seg'[h].state = "removed" /\ \A g \in Segment \ {h} : seg'[g] = seg[g]
        BY <3>4 DEF ShmInv, ShmTypeOK, Segments
      <4> QED BY <2>a, <2>b, <3>2, <3>4, <4>1 DEF GotHeld
    <3> QED BY <3>2, <3>3, <3>4
  <2> QED BY <1>2, <2>2, <2>3, <2>4, <2>5, <2>6 DEF ShmStep
<1> QED BY <1>1, <1>2 DEF ShmNext

LEMMA ShmInv_Text == ShmInv => TextOnText
<1> SUFFICES ASSUME ShmInv, NEW g \in Segment \ mixed, \A u \in Mapped(g) : usr[u].at # "copy"
             PROVE  seg[g].cells = written[g]
  BY DEF TextOnText
<1>1. \A u \in User : ~Writes(u, g)
  BY DEF Mapped, Writes
<1>2. \A k \in 1 .. 2 : seg[g].cells[k] = written[g][k]
  BY <1>1 DEF ShmInv, CellsFollow
<1>3. seg[g].cells \in Cells /\ written[g] \in Cells
  BY DEF ShmInv, ShmTypeOK, Segments
<1> QED BY <1>2, <1>3 DEF Cells

LEMMA ShmNext_Trap == ShmInv /\ ShmNext => TrapHasCause
<1> SUFFICES ASSUME ShmInv, NEW w \in User, ShmStep(w),
                    NEW u \in User, usr'[u].at = "trapped", usr[u].at = "loop", usr[u].on # NoSeg
             PROVE  \E v \in User \ {u} : usr[v].on = usr[u].on /\ usr[v].at \in {"size", "failed"}
  BY DEF ShmNext, TrapHasCause
<1>1. Trap(w) /\ u = w
  BY DEF ShmStep, sysv_shmget, shmat, shm_open, shm_open_again, ftruncate, mmap, Type, Copy, Leave,
         Trap, Moves, AfterCreate, ShmInv, ShmTypeOK
<1>2. ~Sized(usr[u].on)
  BY <1>1 DEF Trap
<1>3. skind = "posix" /\ usr[u].on \in Unsized
  BY <1>2 DEF Sized, ShmInv, SizeComes
<1> QED BY <1>3 DEF Unsized

\* Users of a segment see the texts on top of one another, unless two of them typed at the same
\* time, and a user traps only on an id that leads nowhere or on memory that its maker has not
\* sized (sysv_shm.c, posix_shm.c, mmap_ex1.c, mmap_ex2.c), for any number of users and texts.
THEOREM SegmentsKept_Correct == ShmSpec => SegmentsKept
<1>1. ShmInv /\ GotHeld /\ [ShmNext]_shmvars => [TextOnText' /\ TrapHasCause]_shmvars
  BY ShmNext_Inv, ShmNext_Trap, ShmInv_Text, PTL
<1>2. ShmInit => GotHeld
  BY DEF ShmInit, ShmAt, GotHeld
<1> QED BY <1>1, <1>2, ShmInit_Inv, ShmNext_Inv, ShmNext_Got, PTL DEF ShmSpec, SegmentsKept

-----------------------------------------------------------------------------
(* Semaphores                                                              *)

Places == {"start", "attach", "init", "map", "fork", "reap", "done", "dead", "crashed",
           "wait", "in", "asked"}
Stages == {"none", "wait", "in", "zcall", "zwait", "done", "aborted", "unborn"}

SemTypeOK ==
  /\ kind \in {"sysv", "zero", "nameless", "named"} /\ n_child \in 0 .. MaxChild
  /\ key \in Gen \union {0}
  /\ sem \in [Gen -> [state : {"none", "empty", "live", "gone"}, val : Int]]
  /\ parent \in [Inst -> Places] /\ id \in [Inst -> Gen \union {NoId}]
  /\ child \in [Child -> Stages] /\ undo \in [Child -> [Gen -> Int]]

\* Places of instances that have looked for the semaphore and not let go of it.
Holding == Places \ {"start", "attach", "done"}

\* Everybody who holds a semaphore holds the one that key or name leads to.
OneSemaphore ==
  /\ \A i \in Inst : parent[i] \in Holding => key # 0 /\ id[i] = key
  /\ \A i \in Inst : parent[i] \in {"start", "attach"} => id[i] = NoId
  /\ \A g \in Gen : sem[g].state # "none" => \E i \in Inst : id[i] = g
  /\ key # 0 => sem[key].state \in IF kind = "nameless" THEN {"empty", "live"} ELSE {"live"}
  /\ \A i, j \in Inst : parent[i] = "init" /\ parent[j] = "init" => i = j

\* Children run while their parent is where it can have forked them.
ChildrenHeld ==
  /\ \A c \in Child : child[c] \in {"wait", "in", "zcall", "zwait"}
                        => parent[c[1]] \in {"fork", "reap", "dead"}
  /\ \A c \in Child : child[c] # "none" => c \in Kids(c[1])
  /\ \A c \in Child : child[c] \in {"zcall", "zwait"} => kind = "zero"
  /\ \A i \in Inst : IF kind = "named" THEN parent[i] \notin {"init", "map", "fork", "reap", "dead",
                                                         "crashed"}
                     ELSE parent[i] \notin {"wait", "in", "asked"}
  /\ \A i \in Inst : parent[i] = "map" => kind = "nameless"

\* What the kernel will give back is what the children inside have taken.
UndoKept ==
  \A c \in Child, g \in Gen : undo[c][g] = IF SysV /\ child[c] = "in" /\ g = key THEN 1 ELSE 0

InChildren == {c \in Child : child[c] = "in"}
InParents  == {i \in Inst : parent[i] = "in"}

\* The value and the processes inside add up.
PermitsAddUp ==
  /\ key = 0 => Inside = 0
  /\ key # 0 => sem[key].val \in Nat
  /\ key # 0 /\ SysV =>
       IF \E i \in Inst : parent[i] = "init" THEN sem[key].val = 0 /\ Inside = 0
       ELSE sem[key].val + Inside = Value
  /\ key # 0 /\ kind = "named" => sem[key].val + Inside = 1
  /\ key # 0 /\ kind = "nameless" => sem[key].val + Inside <= 1

SemKept == SemTypeOK /\ OneSemaphore /\ ChildrenHeld /\ UndoKept /\ PermitsAddUp
SemInv  == blame = {} => SemKept

LEMMA InsideCounts ==
  /\ IsFiniteSet(Child) /\ IsFiniteSet(InChildren) /\ IsFiniteSet(InParents)
  /\ Cardinality(InChildren) \in Nat /\ Cardinality(InParents) \in Nat
  /\ Inside = Cardinality(InChildren) + Cardinality(InParents) /\ Inside \in Nat
<1>1. IsFiniteSet(0 .. MaxChild)
  BY SemAssumption, FS_Interval
<1>2. IsFiniteSet(Child)
  BY <1>1, SemAssumption, FS_Product DEF Child
<1>3. IsFiniteSet(InChildren) /\ IsFiniteSet(InParents)
  BY <1>2, SemAssumption, FS_Subset DEF InChildren, InParents
<1>4. Cardinality(InChildren) \in Nat /\ Cardinality(InParents) \in Nat
  BY <1>3, FS_CardinalityType
<1>5. Inside = Cardinality(InChildren) + Cardinality(InParents)
  BY DEF Inside, InChildren, InParents
<1> QED BY <1>2, <1>3, <1>4, <1>5

LEMMA InsideCountsNext == Inside' = Cardinality(InChildren') + Cardinality(InParents')
  BY DEF Inside, InChildren, InParents

\* A parent that is not inside before or after a step does not count.
LEMMA ParentMoves ==
  ASSUME SemTypeOK, NEW i \in Inst, NEW l \in Places \ {"in"}, parent[i] # "in",
         parent' = [parent EXCEPT ![i] = l], child' = child
  PROVE  /\ Inside' = Inside /\ parent' \in [Inst -> Places] /\ parent'[i] = l
         /\ \A j \in Inst \ {i} : parent'[j] = parent[j]
<1>1. /\ parent' \in [Inst -> Places] /\ parent'[i] = l
      /\ \A j \in Inst \ {i} : parent'[j] = parent[j]
  BY DEF SemTypeOK
<1>2. InParents' = InParents
  BY <1>1 DEF InParents
<1>3. InChildren' = InChildren
  BY DEF InChildren
<1> QED BY <1>1, <1>2, <1>3, InsideCounts, InsideCountsNext

LEMMA SemaphoreNumbers ==
  /\ 0 \notin Gen /\ NoId \notin Gen /\ NoId # 0
  /\ \A g \in Gen : g # 0 /\ g # NoId
<1>1. \A g \in Gen : g \in Nat \ {0}
  BY SemAssumption, FS_CardinalityType DEF Gen
<1>2. NoId \notin Nat
  BY DEF NoId
<1> QED BY <1>1, <1>2

LEMMA SameKind ==
  ASSUME UNCHANGED <<kind, n_child>>
  PROVE  /\ Value' = Value /\ (SysV' <=> SysV) /\ Indices' = Indices
         /\ \A i : Kids(i)' = Kids(i)
  BY DEF Value, SysV, Indices, Kids

LEMMA ValueSet ==
  ASSUME SemTypeOK, NEW g \in Gen, NEW v \in Int, sem' = [sem EXCEPT ![g].val = v]
  PROVE  /\ sem' \in [Gen -> [state : {"none", "empty", "live", "gone"}, val : Int]]
         /\ sem'[g].val = v
         /\ \A h \in Gen : sem'[h].state = sem[h].state
         /\ \A h \in Gen \ {g} : sem'[h] = sem[h]
  BY DEF SemTypeOK

LEMMA StateSet ==
  ASSUME SemTypeOK, NEW g \in Gen, NEW t \in {"live", "gone"}, sem' = [sem EXCEPT ![g].state = t]
  PROVE  /\ sem' \in [Gen -> [state : {"none", "empty", "live", "gone"}, val : Int]]
         /\ sem'[g].state = t
         /\ \A h \in Gen : sem'[h].val = sem[h].val
         /\ \A h \in Gen \ {g} : sem'[h] = sem[h]
  BY DEF SemTypeOK

LEMMA FreshSemaphore ==
  ASSUME SemKept, NEW i \in Inst, parent[i] = "start"
  PROVE  Fresh \in Gen /\ sem[Fresh].state = "none"
<1>1. PICK g \in Gen : \A j \in Inst \ {i} : id[j] # g
  BY SemAssumption, SpareNumber DEF Gen
<1>2. \A j \in Inst : id[j] # g
  BY <1>1, SemaphoreNumbers DEF SemKept, OneSemaphore
<1>3. sem[g].state = "none"
  BY <1>2 DEF SemKept, OneSemaphore
<1> QED BY <1>3 DEF Fresh

LEMMA SemInit_Inv == SemInit => SemInv
<1> SUFFICES ASSUME NEW k \in {"sysv", "zero", "nameless", "named"}, NEW n \in 0 .. MaxChild,
                    SemAt(k, n, "start")
             PROVE  SemKept
  BY DEF SemInit, SemInv
<1> USE DEF SemAt
<1>1. SemTypeOK
  BY DEF SemTypeOK, Places, Stages
<1>2. OneSemaphore /\ ChildrenHeld /\ UndoKept
  BY DEF OneSemaphore, ChildrenHeld, UndoKept, Holding
<1>3. InChildren = {} /\ InParents = {}
  BY DEF InChildren, InParents
<1>4. Inside = 0
  BY <1>3, FS_EmptySet, InsideCounts
<1> QED BY <1>1, <1>2, <1>4 DEF SemKept, PermitsAddUp

LEMMA Create_Inv ==
  ASSUME SemKept, NEW i \in Inst, Create(i)
  PROVE  SemKept'
<1> USE DEF SemKept
<1>a. /\ parent[i] = "start" /\ id[i] = NoId
      /\ UNCHANGED <<kind, n_child, child, undo>>
  BY DEF Create, OneSemaphore
<1>b. /\ Value' = Value /\ (SysV' <=> SysV) /\ \A j : Kids(j)' = Kids(j)
  BY <1>a, SameKind
<1>1. CASE key # 0
  <2>a. parent' = [parent EXCEPT ![i] = "attach"] /\ UNCHANGED <<key, sem, id>>
    BY <1>1 DEF Create, Goes
  <2>b. /\ Inside' = Inside /\ parent' \in [Inst -> Places] /\ parent'[i] = "attach"
        /\ \A j \in Inst \ {i} : parent'[j] = parent[j]
    BY <1>a, <2>a, ParentMoves DEF Places
  <2>1. SemTypeOK'
    BY <1>a, <2>a, <2>b DEF SemTypeOK
  <2>2. OneSemaphore'
    BY <1>a, <2>a, <2>b DEF OneSemaphore, Holding
  <2>3. ChildrenHeld'
    BY <1>a, <1>b, <2>a, <2>b DEF ChildrenHeld, Child
  <2>4. UndoKept'
    BY <1>a, <1>b, <2>a DEF UndoKept
  <2>5. PermitsAddUp'
    BY <1>a, <1>b, <2>a, <2>b DEF PermitsAddUp
  <2> QED BY <2>1, <2>2, <2>3, <2>4, <2>5
<1>2. CASE key = 0
  <2>p. PICK g \in Gen : g = Fresh /\ sem[g].state = "none"
    BY <1>a, FreshSemaphore
  <2> DEFINE l == IF kind = "named" THEN "wait" ELSE "init"
             s == [state |-> IF kind = "nameless" THEN "empty" ELSE "live",
                   val   |-> IF kind = "named" THEN 1 ELSE 0]
  <2>a. /\ parent' = [parent EXCEPT ![i] = l] /\ key' = g /\ id' = [id EXCEPT ![i] = g]
        /\ sem' = [sem EXCEPT ![g] = s]
    BY <1>2, <2>p DEF Create, Goes
  <2>b. /\ Inside' = Inside /\ parent' \in [Inst -> Places] /\ parent'[i] = l
        /\ \A j \in Inst \ {i} : parent'[j] = parent[j]
    BY <1>a, <2>a, ParentMoves DEF Places
  <2>c. /\ sem'[g] = s /\ \A h \in Gen \ {g} : sem'[h] = sem[h]
        /\ sem' \in [Gen -> [state : {"none", "empty", "live", "gone"}, val : Int]]
        /\ id'[i] = g /\ \A j \in Inst \ {i} : id'[j] = id[j]
        /\ id' \in [Inst -> Gen \union {NoId}]
    BY <2>a DEF SemTypeOK
  <2>d. \A j \in Inst : parent[j] \in {"start", "attach", "done"}
    BY <1>2 DEF OneSemaphore, Holding, SemTypeOK
  <2>e. /\ sem'[key'].state \in IF kind = "nameless" THEN {"empty", "live"} ELSE {"live"}
        /\ sem'[key'].val = IF kind = "named" THEN 1 ELSE 0
    BY <2>a, <2>c
  <2>f. \A c \in Child : child[c] \notin {"wait", "in", "zcall", "zwait"}
    BY <2>d DEF ChildrenHeld, Child
  <2> HIDE DEF s
  <2>1. SemTypeOK'
    BY <1>a, <2>a, <2>b, <2>c DEF SemTypeOK
  <2>2. OneSemaphore'
    <3>1. \A j \in Inst : parent'[j] \in Holding => j = i
      BY <2>b, <2>d DEF Holding
    <3>2. \A j \in Inst : parent'[j] \in {"start", "attach"} => j # i /\ parent[j] = parent'[j]
      BY <2>b
    <3>3. \A h \in Gen : sem'[h].state # "none" => \E j \in Inst : id'[j] = h
      <4> SUFFICES ASSUME NEW h \in Gen, sem'[h].state # "none", h # g
                   PROVE  \E j \in Inst : id'[j] = h
        BY <2>c
      <4>1. PICK j \in Inst : id[j] = h
        BY <2>c DEF OneSemaphore
      <4> QED BY <1>a, <2>c, <4>1, SemaphoreNumbers
    <3>4. \A j \in Inst : parent'[j] = "init" => j = i
      BY <2>b, <2>d
    <3> QED BY <1>a, <2>a, <2>c, <2>e, <3>1, <3>2, <3>3, <3>4, SemaphoreNumbers DEF OneSemaphore
  <2>3. ChildrenHeld'
    BY <1>a, <1>b, <2>b, <2>d, <2>f DEF ChildrenHeld, Child
  <2>4. UndoKept'
    BY <1>2, <1>a, <1>b, <2>f, SemaphoreNumbers DEF UndoKept
  <2>5. PermitsAddUp'
    <3>1. Inside' = 0
      BY <1>2, <2>b DEF PermitsAddUp
    <3>2. SysV => parent'[i] = "init" /\ sem'[key'].val = 0
      BY <2>b, <2>e DEF SysV
    <3> QED BY <1>a, <1>b, <2>a, <2>e, <3>1, <3>2, SemaphoreNumbers DEF PermitsAddUp
  <2> QED BY <2>1, <2>2, <2>3, <2>4, <2>5
<1> QED BY <1>1, <1>2

LEMMA Attach_Inv ==
  ASSUME SemKept, NEW i \in Inst, Attach(i), blame' = {}
  PROVE  SemKept'
<1> USE DEF SemKept
<1> DEFINE l == IF kind = "nameless" THEN "map" ELSE IF kind = "named" THEN "wait" ELSE "fork"
<1>a. /\ parent[i] = "attach" /\ key # 0 /\ id' = [id EXCEPT ![i] = key]
      /\ parent' = [parent EXCEPT ![i] = l]
      /\ UNCHANGED <<kind, n_child, key, sem, child, undo>>
  BY DEF Attach, Blame, Goes
<1>b. /\ Value' = Value /\ (SysV' <=> SysV) /\ \A j : Kids(j)' = Kids(j)
  BY <1>a, SameKind
<1>c. /\ Inside' = Inside /\ parent' \in [Inst -> Places] /\ parent'[i] = l
      /\ \A j \in Inst \ {i} : parent'[j] = parent[j]
  BY <1>a, ParentMoves DEF Places
<1>d. /\ id'[i] = key /\ \A j \in Inst \ {i} : id'[j] = id[j]
      /\ id' \in [Inst -> Gen \union {NoId}] /\ key \in Gen
  BY <1>a DEF SemTypeOK
<1>1. SemTypeOK'
  BY <1>a, <1>c, <1>d DEF SemTypeOK
<1>2. OneSemaphore'
  <2>1. \A j \in Inst : parent'[j] \in Holding => id'[j] = key
    BY <1>c, <1>d DEF OneSemaphore
  <2>2. \A j \in Inst : parent'[j] \in {"start", "attach"} => id'[j] = NoId
    BY <1>c, <1>d DEF OneSemaphore
  <2>3. \A h \in Gen : sem[h].state # "none" => \E j \in Inst : id'[j] = h
    <3> SUFFICES ASSUME NEW h \in Gen, sem[h].state # "none"
                 PROVE  \E j \in Inst : id'[j] = h
      OBVIOUS
    <3>1. PICK j \in Inst : id[j] = h
      BY DEF OneSemaphore
    <3>2. j # i
      BY <1>a, <3>1, SemaphoreNumbers DEF OneSemaphore
    <3> QED BY <1>d, <3>1, <3>2
  <2>4. \A j, m \in Inst : parent'[j] = "init" /\ parent'[m] = "init" => j = m
    BY <1>c DEF OneSemaphore
  <2> QED BY <1>a, <2>1, <2>2, <2>3, <2>4 DEF OneSemaphore
<1>3. ChildrenHeld'
  BY <1>a, <1>b, <1>c DEF ChildrenHeld, Child
<1>4. UndoKept'
  BY <1>a, <1>b DEF UndoKept
<1>5. PermitsAddUp'
  <2>1. (\E j \in Inst : parent'[j] = "init") <=> (\E j \in Inst : parent[j] = "init")
    BY <1>a, <1>c
  <2> QED BY <1>a, <1>b, <1>c, <2>1 DEF PermitsAddUp
<1> QED BY <1>1, <1>2, <1>3, <1>4, <1>5

\* Steps of an instance that sets the value of its semaphore.
LEMMA SetAll_Inv ==
  ASSUME SemKept, NEW i \in Inst, SetAll(i) \/ SetAllFail(i), blame' = {}
  PROVE  SemKept'
<1> USE DEF SemKept
<1>0. SetAll(i) /\ Live(id[i])
  BY DEF SetAllFail, SetAll, Blame
<1>p. PICK g \in Gen : g = key /\ g = id[i]
  BY <1>0, SemaphoreNumbers DEF SetAll, OneSemaphore, SemTypeOK, Holding, Places
<1>a. /\ SysV /\ parent[i] = "init" /\ parent' = [parent EXCEPT ![i] = "fork"]
      /\ sem' = [sem EXCEPT ![g].val = Value]
      /\ undo' = [c \in Child |-> [undo[c] EXCEPT ![g] = 0]]
      /\ UNCHANGED <<kind, n_child, key, id, child>>
  BY <1>0, <1>p DEF SetAll, Goes
<1>b. /\ Value' = Value /\ (SysV' <=> SysV) /\ \A j : Kids(j)' = Kids(j)
  BY <1>a, SameKind
<1>c. /\ Inside' = Inside /\ parent' \in [Inst -> Places] /\ parent'[i] = "fork"
      /\ \A j \in Inst \ {i} : parent'[j] = parent[j]
  BY <1>a, ParentMoves DEF Places
<1>v. Value \in Nat /\ Value \in Int
  BY DEF Value
<1>d. /\ sem'[g] = [state |-> sem[g].state, val |-> Value]
      /\ \A h \in Gen \ {g} : sem'[h] = sem[h]
      /\ sem' \in [Gen -> [state : {"none", "empty", "live", "gone"}, val : Int]]
  <2> HIDE DEF Value
  <2> QED BY <1>a, <1>v DEF SemTypeOK
<1>e. \A h \in Gen : sem'[h].state = sem[h].state
  BY <1>d
<1>f. undo' \in [Child -> [Gen -> Int]] /\ \A c \in Child, h \in Gen : undo'[c][h] = IF h = g THEN 0 ELSE undo[c][h]
  BY <1>a DEF SemTypeOK
<1>g. key # 0
  BY <1>p, SemaphoreNumbers
<1>1. SemTypeOK'
  BY <1>a, <1>c, <1>d, <1>f DEF SemTypeOK
<1>2. OneSemaphore'
  BY <1>a, <1>c, <1>e, <1>p DEF OneSemaphore, Holding, Places
<1>3. ChildrenHeld'
  BY <1>a, <1>b, <1>c DEF ChildrenHeld, Child, SysV
<1>n. Inside = 0
  BY <1>a, <1>g DEF PermitsAddUp
<1>i. InChildren = {}
  <2>1. Cardinality(InChildren) = 0
    BY <1>n, InsideCounts
  <2> QED BY <2>1, InsideCounts, FS_EmptySet
<1>4. UndoKept'
  BY <1>a, <1>b, <1>f, <1>i, <1>p DEF UndoKept, InChildren
<1>5. PermitsAddUp'
  <2>1. \A j \in Inst : parent'[j] # "init"
    BY <1>a, <1>c DEF OneSemaphore
  <2>2. sem'[key'].val + Inside' = Value' /\ sem'[key'].val \in Nat
    BY <1>a, <1>b, <1>c, <1>d, <1>n, <1>p, <1>v
  <2> QED BY <1>a, <1>b, <1>g, <2>1, <2>2 DEF PermitsAddUp, SysV
<1> QED BY <1>1, <1>2, <1>3, <1>4, <1>5

LEMMA Ftruncate_Inv ==
  ASSUME SemKept, NEW i \in Inst, Ftruncate(i)
  PROVE  SemKept'
<1> USE DEF SemKept
<1>p. PICK g \in Gen : g = key /\ g = id[i]
  BY SemaphoreNumbers DEF Ftruncate, OneSemaphore, SemTypeOK, Holding, Places
<1>0. PICK l \in {"map", "dead"} : parent' = [parent EXCEPT ![i] = l]
  BY DEF Ftruncate, Goes
<1>a. /\ kind = "nameless" /\ parent[i] = "init"
      /\ UNCHANGED <<kind, n_child, key, id, child, undo>>
  BY DEF Ftruncate
<1>s. sem' = sem \/ sem' = [sem EXCEPT ![g].state = "live"]
  BY <1>p DEF Ftruncate
<1>b. /\ Value' = Value /\ (SysV' <=> SysV) /\ \A j : Kids(j)' = Kids(j)
  BY <1>a, SameKind
<1>c. /\ Inside' = Inside /\ parent' \in [Inst -> Places] /\ parent'[i] = l
      /\ \A j \in Inst \ {i} : parent'[j] = parent[j]
  BY <1>0, <1>a, ParentMoves DEF Places
<1>d. /\ sem' \in [Gen -> [state : {"none", "empty", "live", "gone"}, val : Int]]
      /\ \A h \in Gen : sem'[h].val = sem[h].val
      /\ \A h \in Gen \ {g} : sem'[h] = sem[h]
      /\ sem'[g].state \in {sem[g].state, "live"}
  <2>1. CASE sem' = sem
    BY <2>1 DEF SemTypeOK
  <2>2. CASE sem' = [sem EXCEPT ![g].state = "live"]
    BY <2>2, StateSet
  <2> QED BY <1>s, <2>1, <2>2
<1>1. SemTypeOK'
  BY <1>a, <1>c, <1>d DEF SemTypeOK
<1>2. OneSemaphore'
  <2>1. \A h \in Gen : sem'[h].state # "none" => \E j \in Inst : id[j] = h
    BY <1>d, <1>p DEF OneSemaphore
  <2> QED BY <1>a, <1>c, <1>d, <1>p, <2>1 DEF OneSemaphore, Holding, Places
<1>3. ChildrenHeld'
  BY <1>a, <1>b, <1>c DEF ChildrenHeld, Child
<1>4. UndoKept'
  BY <1>a, <1>b DEF UndoKept
<1>5. PermitsAddUp'
  BY <1>a, <1>b, <1>c, <1>d, <1>p DEF PermitsAddUp, SysV
<1> QED BY <1>1, <1>2, <1>3, <1>4, <1>5

LEMMA InitSem_Inv ==
  ASSUME SemKept, NEW i \in Inst, InitSem(i), blame' = {}
  PROVE  SemKept'
<1> USE DEF SemKept
<1>p. PICK g \in Gen : g = key /\ g = id[i]
  BY SemaphoreNumbers DEF InitSem, OneSemaphore, SemTypeOK, Holding, Places
<1>0. PICK l \in {"crashed", "fork"} : parent' = [parent EXCEPT ![i] = l]
  BY DEF InitSem, Goes
<1>a. /\ kind = "nameless" /\ parent[i] = "map"
      /\ UNCHANGED <<kind, n_child, key, id, child, undo>>
  BY DEF InitSem
<1>s. \/ sem' = sem
      \/ /\ sem' = [sem EXCEPT ![g].val = 1]
         /\ \A c \in Child : child[c] \notin {"wait", "in"}
  BY <1>p DEF InitSem, Blame
<1>b. /\ Value' = Value /\ (SysV' <=> SysV) /\ \A j : Kids(j)' = Kids(j)
  BY <1>a, SameKind
<1>c. /\ Inside' = Inside /\ parent' \in [Inst -> Places] /\ parent'[i] = l
      /\ \A j \in Inst \ {i} : parent'[j] = parent[j]
  BY <1>0, <1>a, ParentMoves DEF Places
<1>d. /\ sem' \in [Gen -> [state : {"none", "empty", "live", "gone"}, val : Int]]
      /\ \A h \in Gen : sem'[h].state = sem[h].state
      /\ sem'[g].val \in {sem[g].val, 1}
  <2>1. CASE sem' = sem
    BY <2>1 DEF SemTypeOK
  <2>2. CASE sem' = [sem EXCEPT ![g].val = 1]
    <3>1. PICK v \in Int : v = 1
      OBVIOUS
    <3>2. sem' = [sem EXCEPT ![g].val = v]
      BY <2>2, <3>1
    <3> QED BY <3>1, <3>2, ValueSet
  <2> QED BY <1>s, <2>1, <2>2
<1>1. SemTypeOK'
  BY <1>a, <1>c, <1>d DEF SemTypeOK
<1>2. OneSemaphore'
  BY <1>a, <1>c, <1>d, <1>p DEF OneSemaphore, Holding, Places
<1>3. ChildrenHeld'
  BY <1>a, <1>b, <1>c DEF ChildrenHeld, Child
<1>4. UndoKept'
  BY <1>a, <1>b DEF UndoKept
<1>5. PermitsAddUp'
  <2>1. CASE sem' = sem
    BY <1>a, <1>b, <1>c, <2>1 DEF PermitsAddUp, SysV
  <2>2. CASE sem' # sem
    <3>1. InChildren = {} /\ InParents = {}
      BY <1>a, <1>s, <2>2 DEF InChildren, InParents, ChildrenHeld
    <3>2. Inside = 0
      BY <3>1, FS_EmptySet, InsideCounts
    <3>3. sem'[g].val = 1
      BY <1>s, <2>2 DEF SemTypeOK
    <3> QED BY <1>a, <1>b, <1>c, <1>p, <3>2, <3>3 DEF PermitsAddUp, SysV
  <2> QED BY <2>1, <2>2
<1> QED BY <1>1, <1>2, <1>3, <1>4, <1>5

\* The processes inside after a step of a child, and after a step of a parent of the named kind.
LEMMA ChildMoves ==
  ASSUME SemTypeOK, NEW c \in Child, NEW w \in Stages, child' = [child EXCEPT ![c] = w],
         parent' = parent
  PROVE  /\ child' \in [Child -> Stages] /\ child'[c] = w
         /\ \A d \in Child \ {c} : child'[d] = child[d]
         /\ child[c] # "in" /\ w # "in" => Inside' = Inside
         /\ child[c] # "in" /\ w = "in" => Inside' = Inside + 1
         /\ child[c] = "in" /\ w # "in" => Inside' = Inside - 1 /\ Inside > 0
<1>1. /\ child' \in [Child -> Stages] /\ child'[c] = w
      /\ \A d \in Child \ {c} : child'[d] = child[d]
  BY DEF SemTypeOK
<1>2. InParents' = InParents
  BY DEF InParents
<1>3. ASSUME child[c] # "in", w # "in"
      PROVE  Inside' = Inside
  <2>1. InChildren' = InChildren
    BY <1>1, <1>3 DEF InChildren
  <2> QED BY <1>2, <2>1, InsideCounts, InsideCountsNext
<1>4. ASSUME child[c] # "in", w = "in"
      PROVE  Inside' = Inside + 1
  <2>1. InChildren' = InChildren \cup {c} /\ c \notin InChildren
    BY <1>1, <1>4 DEF InChildren
  <2>2. Cardinality(InChildren') = Cardinality(InChildren) + 1
    BY <2>1, FS_AddElement, InsideCounts
  <2> QED BY <1>2, <2>2, InsideCounts, InsideCountsNext
<1>5. ASSUME child[c] = "in", w # "in"
      PROVE  Inside' = Inside - 1 /\ Inside > 0
  <2>1. InChildren' = InChildren \ {c} /\ c \in InChildren
    BY <1>1, <1>5 DEF InChildren
  <2>2. Cardinality(InChildren') = Cardinality(InChildren) - 1
    BY <2>1, FS_RemoveElement, InsideCounts
  <2>3. Cardinality(InChildren) # 0
    BY <2>1, FS_EmptySet, InsideCounts
  <2> QED BY <1>2, <2>2, <2>3, InsideCounts, InsideCountsNext
<1> QED BY <1>1, <1>3, <1>4, <1>5

LEMMA Fork_Inv ==
  ASSUME SemKept, NEW i \in Inst, Fork(i) \/ ForkZero(i)
  PROVE  SemKept'
<1> USE DEF SemKept
<1>a. parent[i] = "fork" /\ UNCHANGED <<kind, n_child, key, sem, id, undo>>
  BY DEF Fork, ForkZero
<1>b. /\ Value' = Value /\ (SysV' <=> SysV) /\ \A j : Kids(j)' = Kids(j)
  BY <1>a, SameKind
<1>1. CASE parent' = [parent EXCEPT ![i] = "reap"] /\ child' = child
  <2>c. /\ Inside' = Inside /\ parent' \in [Inst -> Places] /\ parent'[i] = "reap"
        /\ \A j \in Inst \ {i} : parent'[j] = parent[j]
    BY <1>1, <1>a, ParentMoves DEF Places
  <2>1. SemTypeOK'
    BY <1>1, <1>a, <2>c DEF SemTypeOK
  <2>2. OneSemaphore'
    BY <1>1, <1>a, <2>c DEF OneSemaphore, Holding, Places
  <2>3. ChildrenHeld'
    BY <1>1, <1>a, <1>b, <2>c DEF ChildrenHeld, Child
  <2>4. UndoKept'
    BY <1>1, <1>a, <1>b DEF UndoKept
  <2>5. PermitsAddUp'
    <3>1. (\E j \in Inst : parent'[j] = "init") <=> (\E j \in Inst : parent[j] = "init")
      BY <1>a, <2>c
    <3> QED BY <1>1, <1>a, <1>b, <2>c, <3>1 DEF PermitsAddUp
  <2> QED BY <2>1, <2>2, <2>3, <2>4, <2>5
<1>2. CASE /\ parent' = parent
           /\ \E c \in Kids(i), w \in {"zcall", "unborn", "wait"} :
                /\ child[c] = "none" /\ (w = "zcall" => c[2] = ZChild)
                /\ child' = [child EXCEPT ![c] = w]
  <2>o. PICK c \in Kids(i), w \in {"zcall", "unborn", "wait"} :
          /\ child[c] = "none" /\ (w = "zcall" => c[2] = ZChild)
          /\ child' = [child EXCEPT ![c] = w]
    BY <1>2
  <2>p. PICK k \in Indices : c = <<i, k>>
    BY DEF Kids
  <2>k. k \in 0 .. MaxChild /\ (k = ZChild => kind = "zero")
    <3>1. n_child \in 0 .. MaxChild /\ MaxChild \in Nat
      BY SemAssumption DEF SemTypeOK
    <3>2. k \in 0 .. n_child - 1 \/ (k = MaxChild /\ kind = "zero")
      BY DEF Indices, ZChild
    <3> QED BY <3>1, <3>2 DEF ZChild
  <2>q. c \in Child /\ c[1] = i /\ c[2] = k
    BY <2>k, <2>p DEF Child
  <2>a. /\ child' = [child EXCEPT ![c] = w] /\ child[c] = "none" /\ c \in Kids(i) /\ c[1] = i
        /\ (w = "zcall" => kind = "zero")
    BY <2>k, <2>o, <2>q
  <2>c. /\ Inside' = Inside /\ child' \in [Child -> Stages] /\ child'[c] = w
        /\ \A d \in Child \ {c} : child'[d] = child[d]
    BY <1>2, <2>a, <2>q, ChildMoves DEF Stages
  <2>1. SemTypeOK'
    BY <1>2, <1>a, <2>c DEF SemTypeOK
  <2>2. OneSemaphore'
    BY <1>2, <1>a DEF OneSemaphore
  <2>3. ChildrenHeld'
    BY <1>2, <1>a, <1>b, <2>a, <2>c, <2>q DEF ChildrenHeld
  <2>4. UndoKept'
    BY <1>a, <1>b, <2>a, <2>c, <2>q DEF UndoKept
  <2>5. PermitsAddUp'
    BY <1>2, <1>a, <1>b, <2>c DEF PermitsAddUp
  <2> QED BY <2>1, <2>2, <2>3, <2>4, <2>5
<1>3. CASE Fork(i)
  <2>1. CASE Goes(i, "reap") /\ UNCHANGED child
    BY <1>1, <2>1 DEF Goes
  <2>2. CASE UNCHANGED parent /\ \E c \in Left(i) : child' = [child EXCEPT ![c] = "wait"]
    <3>1. PICK c \in Left(i) : child' = [child EXCEPT ![c] = "wait"]
      BY <2>2
    <3>2. c \in Kids(i) /\ child[c] = "none"
      BY DEF Left
    <3>3. PICK w \in {"zcall", "unborn", "wait"} : w = "wait"
      OBVIOUS
    <3> QED BY <1>2, <2>2, <3>1, <3>2, <3>3
  <2> QED BY <1>3, <2>1, <2>2 DEF Fork
<1>4. CASE ForkZero(i)
  <2>1. <<i, ZChild>> \in Kids(i) /\ child[<<i, ZChild>>] = "none" /\ parent' = parent
    BY <1>4 DEF ForkZero, ZeroLeft, Left
  <2>2. PICK w \in {"zcall", "unborn"} : child' = [child EXCEPT ![<<i, ZChild>>] = w]
    BY <1>4 DEF ForkZero
  <2>3. PICK c \in Kids(i) : c = <<i, ZChild>> /\ c[2] = ZChild
    BY <2>1
  <2> QED BY <1>2, <2>1, <2>2, <2>3
<1> QED BY <1>3, <1>4

LEMMA ForkFail_Inv ==
  ASSUME SemKept, NEW i \in Inst, ForkFail(i)
  PROVE  SemKept'
<1> USE DEF SemKept
<1>a. /\ parent[i] = "fork" /\ parent' = [parent EXCEPT ![i] = "dead"]
      /\ UNCHANGED <<kind, n_child, key, sem, id, undo, child>>
  BY DEF ForkFail, Goes
<1>b. /\ Value' = Value /\ (SysV' <=> SysV) /\ \A j : Kids(j)' = Kids(j)
  BY <1>a, SameKind
<1>c. /\ Inside' = Inside /\ parent' \in [Inst -> Places] /\ parent'[i] = "dead"
      /\ \A j \in Inst \ {i} : parent'[j] = parent[j]
  BY <1>a, ParentMoves DEF Places
<1>1. SemTypeOK'
  BY <1>a, <1>c DEF SemTypeOK
<1>2. OneSemaphore'
  BY <1>a, <1>c DEF OneSemaphore, Holding, Places
<1>3. ChildrenHeld'
  BY <1>a, <1>b, <1>c DEF ChildrenHeld, Child
<1>4. UndoKept'
  BY <1>a, <1>b DEF UndoKept
<1>5. PermitsAddUp'
  <2>1. (\E j \in Inst : parent'[j] = "init") <=> (\E j \in Inst : parent[j] = "init")
    BY <1>a, <1>c
  <2> QED BY <1>a, <1>b, <1>c, <2>1 DEF PermitsAddUp
<1> QED BY <1>1, <1>2, <1>3, <1>4, <1>5

\* A child that runs works with the semaphore of the key.
LEMMA ChildHolds ==
  ASSUME SemKept, NEW c \in Child, child[c] \in {"wait", "in", "zcall", "zwait"}
  PROVE  /\ key \in Gen /\ key # 0 /\ id[c[1]] = key /\ Live(key) /\ kind # "named"
         /\ (SysV => sem[key].state = "live") /\ c[1] \in Inst
         /\ sem[key].val \in Nat
<1> USE DEF SemKept
<1>1. c[1] \in Inst /\ parent[c[1]] \in {"fork", "reap", "dead"}
  BY DEF ChildrenHeld, Child
<1>2. key # 0 /\ id[c[1]] = key /\ key \in Gen
  BY <1>1 DEF OneSemaphore, Holding, Places, SemTypeOK
<1>3. sem[key].state \in IF kind = "nameless" THEN {"empty", "live"} ELSE {"live"}
  BY <1>2 DEF OneSemaphore
<1>4. Live(key)
  BY <1>2, <1>3, SemaphoreNumbers DEF Live
<1>5. kind # "named"
  BY <1>1 DEF ChildrenHeld
<1>6. SysV => sem[key].state = "live"
  BY <1>3 DEF SysV
<1>7. sem[key].val \in Nat
  BY <1>2 DEF PermitsAddUp
<1> QED BY <1>1, <1>2, <1>4, <1>5, <1>6, <1>7

\* What a child's step leaves alone.
LEMMA ChildStep_Rest ==
  ASSUME SemKept, NEW c \in Child, child[c] \in {"wait", "in", "zcall", "zwait"},
         NEW w \in {"in", "done", "aborted", "zwait"}, child' = [child EXCEPT ![c] = w],
         w = "zwait" => kind = "zero",
         sem' \in [Gen -> [state : {"none", "empty", "live", "gone"}, val : Int]],
         \A h \in Gen : sem'[h].state = sem[h].state, undo' \in [Child -> [Gen -> Int]],
         UNCHANGED <<kind, n_child, key, parent, id>>
  PROVE  SemTypeOK' /\ OneSemaphore' /\ ChildrenHeld'
<1> USE DEF SemKept
<1>b. /\ Value' = Value /\ (SysV' <=> SysV) /\ \A j : Kids(j)' = Kids(j)
  BY SameKind
<1>c. /\ child' \in [Child -> Stages] /\ child'[c] = w
      /\ \A d \in Child \ {c} : child'[d] = child[d]
  BY ChildMoves DEF Stages
<1>1. SemTypeOK'
  BY <1>c DEF SemTypeOK
<1>2. OneSemaphore'
  <2>1. key # 0 => key \in Gen
    BY DEF SemTypeOK
  <2> QED BY <2>1 DEF OneSemaphore
<1>3. ChildrenHeld'
  BY <1>b, <1>c DEF ChildrenHeld
<1> QED BY <1>1, <1>2, <1>3

\* P and V on the semaphore of the key: one permit less and one process more inside, or the
\* other way round, and the adjustment follows.
LEMMA Permit_Inv ==
  ASSUME SemKept, NEW c \in Child, NEW d \in {-1, 1}, NEW w \in {"in", "done"},
         child[c] = (IF d = -1 THEN "wait" ELSE "in"), w = (IF d = -1 THEN "in" ELSE "done"),
         d = -1 => sem[key].val > 0,
         Permit(c, key, d), child' = [child EXCEPT ![c] = w],
         UNCHANGED <<kind, n_child, key, parent, id>>
  PROVE  SemKept'
<1> USE DEF SemKept
<1>h. /\ key \in Gen /\ key # 0 /\ Live(key) /\ kind # "named" /\ sem[key].val \in Nat
  BY ChildHolds
<1>p. PICK g \in Gen, v \in Int : g = key /\ v = sem[g].val + d
  BY <1>h
<1>a. /\ sem' = [sem EXCEPT ![g].val = v]
      /\ undo' = IF SysV THEN [undo EXCEPT ![c][g] = @ - d] ELSE undo
  BY <1>h, <1>p DEF Permit
<1>b. /\ Value' = Value /\ (SysV' <=> SysV) /\ \A j : Kids(j)' = Kids(j)
  BY SameKind
<1>c. /\ child'[c] = w /\ \A e \in Child \ {c} : child'[e] = child[e]
      /\ Inside' = Inside - d /\ Inside \in Nat /\ (d = 1 => Inside > 0)
  <2>1. w \in Stages /\ SemTypeOK /\ Inside \in Nat
    BY InsideCounts DEF Stages
  <2>2. /\ child'[c] = w /\ \A e \in Child \ {c} : child'[e] = child[e]
        /\ child[c] # "in" /\ w = "in" => Inside' = Inside + 1
        /\ child[c] = "in" /\ w # "in" => Inside' = Inside - 1 /\ Inside > 0
    BY <2>1, ChildMoves
  <2>3. CASE d = -1
    BY <2>1, <2>2, <2>3
  <2>4. CASE d = 1
    BY <2>1, <2>2, <2>4
  <2> QED BY <2>3, <2>4
<1>d. /\ sem' \in [Gen -> [state : {"none", "empty", "live", "gone"}, val : Int]]
      /\ sem'[g].val = v /\ \A h \in Gen : sem'[h].state = sem[h].state
  BY <1>a, ValueSet
<1>e. /\ undo' \in [Child -> [Gen -> Int]]
      /\ \A e \in Child, h \in Gen :
           undo'[e][h] = IF SysV /\ e = c /\ h = g THEN undo[e][h] - d ELSE undo[e][h]
  <2>1. CASE ~SysV
    BY <1>a, <2>1 DEF SemTypeOK
  <2>2. CASE SysV
    <3>1. PICK x \in [Gen -> Int] : x = undo[c]
      BY DEF SemTypeOK
    <3>2. PICK z \in [Gen -> Int] : z = [x EXCEPT ![g] = x[g] - d]
      <4>1. x[g] - d \in Int
        BY <3>1
      <4>2. [x EXCEPT ![g] = x[g] - d] \in [Gen -> Int]
        BY <3>1, <4>1
      <4> QED BY <4>2
    <3>3. undo' = [undo EXCEPT ![c] = z]
      BY <1>a, <2>2, <3>1, <3>2
    <3>4. \A h \in Gen : z[h] = IF h = g THEN undo[c][h] - d ELSE undo[c][h]
      BY <3>1, <3>2
    <3> QED BY <2>2, <3>2, <3>3, <3>4 DEF SemTypeOK
  <2> QED BY <2>1, <2>2
<1>1. SemTypeOK' /\ OneSemaphore' /\ ChildrenHeld'
  BY <1>d, <1>e, ChildStep_Rest
<1>4. UndoKept'
  BY <1>b, <1>c, <1>e, <1>p DEF UndoKept
<1>5. PermitsAddUp'
  <2>0. PICK x \in Nat : x = sem[key].val
    BY <1>h
  <2>3. v = x + d /\ sem'[key'].val = v /\ Inside' = Inside - d
    BY <1>c, <1>d, <1>p, <2>0
  <2>4. v \in Nat /\ v + Inside' = x + Inside
    <3>1. d = -1 => x > 0
      BY <2>0
    <3> HIDE DEF SemKept, Inside
    <3>2. CASE d = -1
      BY <1>c, <2>3, <3>1, <3>2
    <3>3. CASE d = 1
      BY <1>c, <2>3, <3>3
    <3> QED BY <3>2, <3>3
  <2>1. v \in Nat /\ v + Inside' = sem[key].val + Inside /\ sem'[key'].val = v
    BY <2>0, <2>3, <2>4
  <2>2. SysV => ~(\E i \in Inst : parent[i] = "init")
    BY <1>c, <1>h DEF PermitsAddUp
  <2> QED BY <1>b, <1>h, <2>1, <2>2 DEF PermitsAddUp
<1> QED BY <1>1, <1>4, <1>5

LEMMA PermitStep_Inv ==
  ASSUME SemKept, NEW c \in Child, sysv_semwait(c) \/ sysv_sempost(c)
  PROVE  SemKept'
<1>1. CASE sysv_semwait(c)
  <2>1. child[c] = "wait"
    BY <1>1 DEF sysv_semwait
  <2>2. id[c[1]] = key /\ Live(key)
    BY <2>1, ChildHolds
  <2>3. PICK d \in {-1, 1}, w \in {"in", "done"} : d = -1 /\ w = "in"
    OBVIOUS
  <2>4. /\ sem[key].val > 0 /\ Permit(c, key, d) /\ child' = [child EXCEPT ![c] = w]
        /\ UNCHANGED <<kind, n_child, key, parent, id>>
    BY <1>1, <2>2, <2>3 DEF sysv_semwait
  <2> QED BY <2>1, <2>3, <2>4, Permit_Inv
<1>2. CASE sysv_sempost(c)
  <2>1. child[c] = "in"
    BY <1>2 DEF sysv_sempost
  <2>2. id[c[1]] = key
    BY <2>1, ChildHolds
  <2>3. PICK d \in {-1, 1}, w \in {"in", "done"} : d = 1 /\ w = "done"
    OBVIOUS
  <2>4. /\ Permit(c, key, d) /\ child' = [child EXCEPT ![c] = w]
        /\ UNCHANGED <<kind, n_child, key, parent, id>>
    BY <1>2, <2>2, <2>3 DEF sysv_sempost
  <2>5. child[c] = (IF d = -1 THEN "wait" ELSE "in") /\ w = (IF d = -1 THEN "in" ELSE "done")
    BY <2>1, <2>3
  <2>6. d # -1
    BY <2>3
  <2> QED BY <2>4, <2>5, <2>6, Permit_Inv
<1> QED BY <1>1, <1>2

LEMMA Abort_Inv ==
  ASSUME SemKept, NEW c \in Child, Abort(c)
  PROVE  SemKept'
<1> USE DEF SemKept
<1>a. /\ child[c] = "in" /\ child' = [child EXCEPT ![c] = "aborted"]
      /\ sem' = Adjusted(c) /\ undo' = [undo EXCEPT ![c] = [g \in Gen |-> 0]]
      /\ UNCHANGED <<kind, n_child, key, parent, id>>
  BY DEF Abort
<1>h. /\ key \in Gen /\ key # 0 /\ kind # "named" /\ sem[key].val \in Nat
      /\ (SysV => sem[key].state = "live")
  BY <1>a, ChildHolds
<1>p. PICK w \in {"in", "done", "aborted", "zwait"} : w = "aborted"
  OBVIOUS
<1>b. /\ Value' = Value /\ (SysV' <=> SysV) /\ \A j : Kids(j)' = Kids(j)
  BY <1>a, SameKind
<1>c. /\ child'[c] = "aborted" /\ \A e \in Child \ {c} : child'[e] = child[e]
      /\ Inside' = Inside - 1 /\ Inside \in Nat /\ Inside > 0
  <2>1. w \in Stages /\ SemTypeOK /\ Inside \in Nat /\ child' = [child EXCEPT ![c] = w]
    BY <1>a, <1>p, InsideCounts DEF Stages
  <2>2. /\ child'[c] = w /\ \A e \in Child \ {c} : child'[e] = child[e]
        /\ child[c] = "in" /\ w # "in" => Inside' = Inside - 1 /\ Inside > 0
    BY <1>a, <2>1, ChildMoves
  <2> QED BY <1>a, <1>p, <2>1, <2>2
<1>u. \A h \in Gen : undo[c][h] = IF SysV /\ h = key THEN 1 ELSE 0
  BY <1>a DEF UndoKept
<1>d. /\ sem' \in [Gen -> [state : {"none", "empty", "live", "gone"}, val : Int]]
      /\ \A h \in Gen : sem'[h].state = sem[h].state
      /\ sem'[key].val = IF SysV THEN sem[key].val + 1 ELSE sem[key].val
  <2>1. ASSUME NEW h \in Gen
        PROVE  /\ sem'[h] \in [state : {"none", "empty", "live", "gone"}, val : Int]
               /\ sem'[h].state = sem[h].state
               /\ sem[h].state = "live" => sem'[h].val = sem[h].val + undo[c][h]
               /\ sem[h].state # "live" => sem'[h].val = sem[h].val
    <3>1. PICK x \in Int : x = undo[c][h]
      BY DEF SemTypeOK
    <3>2. sem'[h] = IF sem[h].state = "live" THEN [sem[h] EXCEPT !.val = @ + x] ELSE sem[h]
      BY <1>a, <3>1 DEF Adjusted
    <3> QED BY <3>1, <3>2 DEF SemTypeOK
  <2>2. sem' \in [Gen -> [state : {"none", "empty", "live", "gone"}, val : Int]]
    <3>1. sem' = [h \in Gen |-> sem'[h]]
      BY <1>a DEF Adjusted
    <3> QED BY <2>1, <3>1
  <2>3. sem'[key].val = IF SysV THEN sem[key].val + 1 ELSE sem[key].val
    <3>1. CASE SysV
      BY <1>h, <1>u, <2>1, <3>1
    <3>2. CASE ~SysV
      BY <1>h, <1>u, <2>1, <3>2
    <3> QED BY <3>1, <3>2
  <2> QED BY <2>1, <2>2, <2>3
<1>e. /\ undo' \in [Child -> [Gen -> Int]]
      /\ \A e \in Child, h \in Gen : undo'[e][h] = IF e = c THEN 0 ELSE undo[e][h]
  <2>1. PICK z \in [Gen -> Int] : z = [g \in Gen |-> 0]
    <3>1. [g \in Gen |-> 0] \in [Gen -> Int]
      OBVIOUS
    <3> QED BY <3>1
  <2>2. undo' = [undo EXCEPT ![c] = z]
    BY <1>a, <2>1
  <2> QED BY <2>1, <2>2 DEF SemTypeOK
<1>1. SemTypeOK' /\ OneSemaphore' /\ ChildrenHeld'
  BY <1>a, <1>d, <1>e, <1>p, ChildStep_Rest
<1>4. UndoKept'
  BY <1>a, <1>b, <1>c, <1>e DEF UndoKept
<1>5. PermitsAddUp'
  <2>1. SysV => ~(\E i \in Inst : parent[i] = "init")
    BY <1>c, <1>h DEF PermitsAddUp
  <2>2. CASE SysV
    <3>1. sem'[key'].val + Inside' = Value' /\ sem'[key'].val \in Nat
      <4>1. sem[key].val + Inside = Value /\ sem[key].val \in Nat
        BY <1>h, <2>1, <2>2 DEF PermitsAddUp
      <4>2. key' = key /\ Value' = Value /\ Inside' = Inside - 1 /\ Inside \in Nat
        BY <1>a, <1>b, <1>c
      <4>3. sem'[key].val = sem[key].val + 1
        BY <1>d, <2>2
      <4> QED BY <4>1, <4>2, <4>3
    <3> QED BY <1>a, <1>b, <1>h, <2>1, <2>2, <3>1 DEF PermitsAddUp, SysV
  <2>3. CASE ~SysV
    <3>1. sem'[key'].val + Inside' <= 1 /\ sem'[key'].val \in Nat
      BY <1>a, <1>c, <1>d, <1>h, <2>3 DEF PermitsAddUp, SysV, SemTypeOK
    <3> QED BY <1>a, <1>b, <1>h, <2>3, <3>1 DEF PermitsAddUp
  <2> QED BY <2>2, <2>3
<1> QED BY <1>1, <1>4, <1>5

LEMMA Zwait_Inv ==
  ASSUME SemKept, NEW c \in Child, sysv_semzwait(c) \/ ZeroReturns(c)
  PROVE  SemKept'
<1> USE DEF SemKept
<1>a. PICK w \in {"in", "done", "aborted", "zwait"} :
        /\ w # "in" /\ child[c] \in {"zcall", "zwait"} /\ child' = [child EXCEPT ![c] = w]
        /\ UNCHANGED <<kind, n_child, key, sem, undo, parent, id>>
  BY DEF sysv_semzwait, ZeroReturns
<1>k. kind = "zero"
  BY <1>a DEF ChildrenHeld
<1>b. /\ Value' = Value /\ (SysV' <=> SysV) /\ \A j : Kids(j)' = Kids(j)
  BY <1>a, SameKind
<1>c. /\ child'[c] = w /\ \A e \in Child \ {c} : child'[e] = child[e]
      /\ Inside' = Inside
  <2>1. w \in Stages
    BY DEF Stages
  <2> QED BY <1>a, <2>1, ChildMoves
<1>1. SemTypeOK' /\ OneSemaphore' /\ ChildrenHeld'
  BY <1>a, <1>k, ChildStep_Rest DEF SemTypeOK
<1>4. UndoKept'
  BY <1>a, <1>b, <1>c DEF UndoKept
<1>5. PermitsAddUp'
  BY <1>a, <1>b, <1>c DEF PermitsAddUp
<1> QED BY <1>1, <1>4, <1>5

\* The last user removes the semaphore: nobody is left inside.
LEMMA Reap_Inv ==
  ASSUME SemKept, NEW i \in Inst, Reap(i), blame' = {}
  PROVE  SemKept'
<1> USE DEF SemKept
<1>a. /\ parent[i] = "reap" /\ parent' = [parent EXCEPT ![i] = "done"]
      /\ \A c \in Kids(i) : Over(c)
      /\ UNCHANGED <<kind, n_child, id, child, undo>>
  BY DEF Reap, Goes
<1>b. /\ Value' = Value /\ (SysV' <=> SysV) /\ \A j : Kids(j)' = Kids(j)
  BY <1>a, SameKind
<1>c. /\ Inside' = Inside /\ parent' \in [Inst -> Places] /\ parent'[i] = "done"
      /\ \A j \in Inst \ {i} : parent'[j] = parent[j]
  BY <1>a, ParentMoves DEF Places
<1>h. key # 0 /\ id[i] = key /\ key \in Gen
  BY <1>a DEF OneSemaphore, Holding, Places, SemTypeOK
<1>k. \A c \in Child : child[c] \in {"wait", "in", "zcall", "zwait"} => c[1] # i
  <2> SUFFICES ASSUME NEW c \in Child, child[c] \in {"wait", "in", "zcall", "zwait"}, c[1] = i
               PROVE  FALSE
    OBVIOUS
  <2>1. c \in Kids(i)
    BY DEF ChildrenHeld
  <2> QED BY <1>a, <2>1 DEF Over
<1>1. ChildrenHeld'
  BY <1>a, <1>b, <1>c, <1>k DEF ChildrenHeld, Child
<1>2. CASE ~SysV
  <2>a. UNCHANGED <<sem, key>>
    BY <1>2 DEF Reap
  <2>1. SemTypeOK'
    BY <1>a, <1>c, <2>a DEF SemTypeOK
  <2>2. OneSemaphore'
    BY <1>a, <1>c, <2>a DEF OneSemaphore, Holding
  <2>3. UndoKept'
    BY <1>a, <1>b, <2>a DEF UndoKept
  <2>4. PermitsAddUp'
    BY <1>2, <1>a, <1>b, <1>c, <2>a DEF PermitsAddUp
  <2> QED BY <1>1, <2>1, <2>2, <2>3, <2>4
<1>3. CASE SysV
  <2>l. Live(id[i])
    BY <1>3, <1>h, SemaphoreNumbers DEF Live, OneSemaphore, SysV
  <2>a. /\ sem' = [sem EXCEPT ![key].state = "gone"] /\ key' = 0
        /\ \A j \in Inst \ {i} : id[j] = key => parent[j] = "done"
    BY <1>3, <1>h, <2>l DEF Reap, Blame
  <2>s. /\ sem' \in [Gen -> [state : {"none", "empty", "live", "gone"}, val : Int]]
        /\ sem'[key].state = "gone" /\ \A h \in Gen \ {key} : sem'[h] = sem[h]
    <3>1. PICK t \in {"live", "gone"} : t = "gone"
      OBVIOUS
    <3>2. sem' = [sem EXCEPT ![key].state = t]
      BY <2>a, <3>1
    <3> QED BY <1>h, <3>1, <3>2, StateSet
  <2>b. \A j \in Inst : parent'[j] \notin Holding
    <3>1. \A j \in Inst \ {i} : parent[j] \notin Holding
      BY <2>a DEF OneSemaphore, Holding
    <3> QED BY <1>c, <3>1 DEF Holding
  <2>c. InChildren = {} /\ InParents = {}
    <3>1. \A c \in Child : child[c] # "in"
      <4> SUFFICES ASSUME NEW c \in Child, child[c] = "in"
                   PROVE  FALSE
        OBVIOUS
      <4>1. id[c[1]] = key /\ c[1] \in Inst
        BY ChildHolds
      <4>2. c[1] # i /\ parent[c[1]] # "done"
        BY <1>k DEF ChildrenHeld
      <4> QED BY <2>a, <4>1, <4>2
    <3>2. \A j \in Inst : parent[j] # "in"
      BY <1>3 DEF ChildrenHeld, SysV
    <3> QED BY <3>1, <3>2 DEF InChildren, InParents
  <2>d. Inside' = 0
    BY <1>c, <2>c, FS_EmptySet, InsideCounts
  <2>1. SemTypeOK'
    BY <1>a, <1>c, <2>a, <2>s DEF SemTypeOK
  <2>2. OneSemaphore'
    <3>1. \A h \in Gen : sem'[h].state # "none" => \E j \in Inst : id[j] = h
      BY <1>h, <2>s DEF OneSemaphore
    <3>2. \A j \in Inst : parent'[j] \in {"start", "attach"} => id[j] = NoId
      BY <1>c DEF OneSemaphore
    <3>3. \A j \in Inst : parent'[j] # "init"
      BY <2>b DEF Holding, Places
    <3> QED BY <1>a, <2>a, <2>b, <3>1, <3>2, <3>3 DEF OneSemaphore
  <2>3. UndoKept'
    <3>1. \A c \in Child : child[c] # "in"
      BY <2>c DEF InChildren
    <3> QED BY <1>a, <1>b, <3>1 DEF UndoKept
  <2>4. PermitsAddUp'
    BY <2>a, <2>d DEF PermitsAddUp
  <2> QED BY <1>1, <2>1, <2>2, <2>3, <2>4
<1> QED BY <1>2, <1>3

\* A parent of the named kind goes in or comes out.
LEMMA NamedMoves ==
  ASSUME SemTypeOK, NEW i \in Inst, NEW l \in Places, parent' = [parent EXCEPT ![i] = l],
         child' = child
  PROVE  /\ parent' \in [Inst -> Places] /\ parent'[i] = l
         /\ \A j \in Inst \ {i} : parent'[j] = parent[j]
         /\ parent[i] # "in" /\ l = "in" => Inside' = Inside + 1
         /\ parent[i] = "in" /\ l # "in" => Inside' = Inside - 1
<1>1. /\ parent' \in [Inst -> Places] /\ parent'[i] = l
      /\ \A j \in Inst \ {i} : parent'[j] = parent[j]
  BY DEF SemTypeOK
<1>2. InChildren' = InChildren
  BY DEF InChildren
<1>3. ASSUME parent[i] # "in", l = "in"
      PROVE  Inside' = Inside + 1
  <2>1. InParents' = InParents \cup {i} /\ i \notin InParents
    BY <1>1, <1>3 DEF InParents
  <2>2. Cardinality(InParents') = Cardinality(InParents) + 1
    BY <2>1, FS_AddElement, InsideCounts
  <2> QED BY <1>2, <2>2, InsideCounts, InsideCountsNext
<1>4. ASSUME parent[i] = "in", l # "in"
      PROVE  Inside' = Inside - 1
  <2>1. InParents' = InParents \ {i} /\ i \in InParents
    BY <1>1, <1>4 DEF InParents
  <2>2. Cardinality(InParents') = Cardinality(InParents) - 1
    BY <2>1, FS_RemoveElement, InsideCounts
  <2> QED BY <1>2, <2>2, InsideCounts, InsideCountsNext
<1> QED BY <1>1, <1>3, <1>4

LEMMA NamedPermit_Inv ==
  ASSUME SemKept, NEW i \in Inst, NamedWait(i) \/ NamedPost(i)
  PROVE  SemKept'
<1> USE DEF SemKept
<1>a. /\ kind = "named" /\ parent[i] \in {"wait", "in"}
      /\ UNCHANGED <<kind, n_child, key, id, child, undo>>
  BY DEF NamedWait, NamedPost
<1>h. key # 0 /\ id[i] = key /\ key \in Gen /\ sem[key].val \in Nat
  BY <1>a DEF OneSemaphore, Holding, Places, SemTypeOK, PermitsAddUp
<1>p. PICK l \in {"in", "wait", "asked"}, v \in Int :
        /\ parent' = [parent EXCEPT ![i] = l] /\ sem' = [sem EXCEPT ![key].val = v]
        /\ IF l = "in" THEN parent[i] = "wait" /\ sem[key].val > 0 /\ v = sem[key].val - 1
           ELSE parent[i] = "in" /\ v = sem[key].val + 1
  <2>1. CASE NamedWait(i)
    <3>1. PICK v \in Int : v = sem[key].val - 1
      BY <1>h
    <3> QED BY <1>h, <2>1, <3>1 DEF NamedWait, Goes
  <2>2. CASE NamedPost(i)
    <3>1. PICK v \in Int : v = sem[key].val + 1
      BY <1>h
    <3>2. PICK l \in {"wait", "asked"} : parent' = [parent EXCEPT ![i] = l]
      BY <2>2 DEF NamedPost, Goes
    <3> QED BY <1>h, <2>2, <3>1, <3>2 DEF NamedPost
  <2> QED BY <2>1, <2>2
<1>b. /\ Value' = Value /\ (SysV' <=> SysV) /\ \A j : Kids(j)' = Kids(j)
  BY <1>a, SameKind
<1>c. /\ parent' \in [Inst -> Places] /\ parent'[i] = l
      /\ \A j \in Inst \ {i} : parent'[j] = parent[j]
      /\ v + Inside' = sem[key].val + Inside /\ v \in Nat
  <2>1. l \in Places /\ Inside \in Nat
    BY InsideCounts DEF Places
  <2>2. /\ parent' \in [Inst -> Places] /\ parent'[i] = l
        /\ \A j \in Inst \ {i} : parent'[j] = parent[j]
        /\ parent[i] # "in" /\ l = "in" => Inside' = Inside + 1
        /\ parent[i] = "in" /\ l # "in" => Inside' = Inside - 1
    BY <1>a, <1>p, <2>1, NamedMoves
  <2>3. CASE l = "in"
    BY <1>h, <1>p, <2>1, <2>2, <2>3
  <2>4. CASE l # "in"
    BY <1>h, <1>p, <2>1, <2>2, <2>4
  <2> QED BY <2>3, <2>4
<1>d. /\ sem' \in [Gen -> [state : {"none", "empty", "live", "gone"}, val : Int]]
      /\ sem'[key].val = v /\ \A h \in Gen : sem'[h].state = sem[h].state
  <2>1. sem' = [sem EXCEPT ![key].val = v] /\ key \in Gen /\ SemTypeOK
    BY <1>h, <1>p
  <2> HIDE DEF SemKept
  <2> QED BY <2>1, ValueSet
<1>1. SemTypeOK'
  BY <1>a, <1>c, <1>d DEF SemTypeOK
<1>2. OneSemaphore'
  BY <1>a, <1>c, <1>d, <1>h DEF OneSemaphore, Holding
<1>3. ChildrenHeld'
  BY <1>a, <1>b, <1>c DEF ChildrenHeld, Child
<1>4. UndoKept'
  BY <1>a, <1>b DEF UndoKept
<1>5. PermitsAddUp'
  BY <1>a, <1>b, <1>c, <1>d, <1>h DEF PermitsAddUp, SysV
<1> QED BY <1>1, <1>2, <1>3, <1>4, <1>5

LEMMA NamedRemove_Inv ==
  ASSUME SemKept, NEW i \in Inst, NamedRemove(i), blame' = {}
  PROVE  SemKept'
<1> USE DEF SemKept
<1>a. /\ kind = "named" /\ parent[i] = "asked" /\ parent' = [parent EXCEPT ![i] = "done"]
      /\ UNCHANGED <<kind, n_child, sem, id, child, undo>>
  BY DEF NamedRemove, Goes
<1>b. /\ Value' = Value /\ (SysV' <=> SysV) /\ \A j : Kids(j)' = Kids(j)
  BY <1>a, SameKind
<1>c. /\ Inside' = Inside /\ parent' \in [Inst -> Places] /\ parent'[i] = "done"
      /\ \A j \in Inst \ {i} : parent'[j] = parent[j]
  BY <1>a, ParentMoves DEF Places
<1>n. \A c \in Child : child[c] \notin {"wait", "in", "zcall", "zwait"}
  BY <1>a, ChildHolds
<1>3. ChildrenHeld'
  BY <1>a, <1>b, <1>c, <1>n DEF ChildrenHeld
<1>k. \/ key' = key
      \/ /\ key' = 0
         /\ \A j \in Inst \ {i} : id[j] = key => parent[j] \notin {"wait", "in", "asked"}
  BY DEF NamedRemove, Blame
<1>1. SemTypeOK'
  BY <1>a, <1>c, <1>k DEF SemTypeOK
<1>4. UndoKept'
  BY <1>a, <1>b, <1>n DEF UndoKept, SysV
<1>5. CASE key' = key
  <2>1. OneSemaphore'
    BY <1>5, <1>a, <1>c DEF OneSemaphore, Holding
  <2>2. PermitsAddUp'
    BY <1>5, <1>a, <1>b, <1>c DEF PermitsAddUp, SysV
  <2> QED BY <1>1, <1>3, <1>4, <2>1, <2>2
<1>6. CASE key' # key
  <2>1. key' = 0 /\ \A j \in Inst \ {i} : id[j] = key => parent[j] \notin {"wait", "in", "asked"}
    BY <1>6, <1>k
  <2>2. \A j \in Inst \ {i} : parent[j] \notin Holding
    BY <1>a, <2>1 DEF OneSemaphore, Holding, ChildrenHeld, Places
  <2>3. \A j \in Inst : parent'[j] \notin Holding
    BY <1>c, <2>2 DEF Holding
  <2>4. OneSemaphore'
    <3>1. \A j \in Inst : parent'[j] # "init"
      BY <2>3 DEF Holding, Places
    <3>2. \A j \in Inst : parent'[j] \in {"start", "attach"} => id[j] = NoId
      BY <1>c DEF OneSemaphore
    <3> QED BY <1>a, <2>1, <2>3, <3>1, <3>2 DEF OneSemaphore
  <2>5. InChildren = {} /\ InParents = {}
    BY <1>a, <1>n, <2>2 DEF InChildren, InParents, Holding, Places
  <2>6. Inside' = 0
    BY <1>c, <2>5, FS_EmptySet, InsideCounts
  <2>7. PermitsAddUp'
    BY <2>1, <2>6 DEF PermitsAddUp
  <2> QED BY <1>1, <1>3, <1>4, <2>4, <2>7
<1> QED BY <1>5, <1>6

\* Nothing is forgotten that the callers did wrong to each other.
LEMMA BlameStays == [SemNext]_semvars /\ blame' = {} => blame = {}
  BY DEF SemNext, semvars, ParentStep, NamedStep, ChildStep, Create, Attach, SetAll, SetAllFail,
         Ftruncate, InitSem, ForkZero, Fork, ForkFail, Reap, sysv_semwait, sysv_sempost, Abort,
         sysv_semzwait, ZeroReturns, NamedWait, NamedPost, NamedEof, NamedRemove, Blame

LEMMA SemNext_Inv == SemInv /\ [SemNext]_semvars => SemInv'
<1> SUFFICES ASSUME SemInv, [SemNext]_semvars, blame' = {}
             PROVE  SemKept'
  BY DEF SemInv
<1>0. SemKept
  BY BlameStays DEF SemInv
<1>1. CASE UNCHANGED semvars
  BY <1>0, <1>1 DEF semvars, SemKept, SemTypeOK, OneSemaphore, ChildrenHeld, UndoKept, PermitsAddUp,
                    Inside, Value, SysV, Kids, Indices
<1>2. ASSUME NEW i \in Inst, ParentStep(i)
      PROVE  SemKept'
  BY <1>0, <1>2, Create_Inv, Attach_Inv, SetAll_Inv, Ftruncate_Inv, InitSem_Inv, Fork_Inv,
     ForkFail_Inv, Reap_Inv DEF ParentStep
<1>3. ASSUME NEW i \in Inst, NamedStep(i)
      PROVE  SemKept'
  <2>1. ~NamedEof(i)
    BY DEF NamedEof, Blame
  <2> QED BY <1>0, <1>3, <2>1, NamedPermit_Inv, NamedRemove_Inv DEF NamedStep
<1>4. ASSUME NEW c \in Child, ChildStep(c)
      PROVE  SemKept'
  BY <1>0, <1>4, PermitStep_Inv, Abort_Inv, Zwait_Inv DEF ChildStep
<1> QED BY <1>1, <1>2, <1>3, <1>4 DEF SemNext

LEMMA SemInv_Exclusion == SemInv => Exclusion
<1> SUFFICES ASSUME SemKept
             PROVE  Inside <= Value
  BY DEF SemInv, Exclusion
<1>1. Value \in Nat /\ Value >= 1 /\ Inside \in Nat
  BY InsideCounts DEF Value
<1>2. key # 0 => sem[key].val \in Nat
  BY DEF SemKept, PermitsAddUp
<1>3. SysV \/ kind = "named" \/ kind = "nameless"
  BY DEF SemKept, SemTypeOK, SysV
<1>4. CASE key = 0
  BY <1>1, <1>4 DEF SemKept, PermitsAddUp
<1>5. CASE key # 0 /\ SysV
  BY <1>1, <1>2, <1>5 DEF SemKept, PermitsAddUp
<1>6. CASE key # 0 /\ ~SysV
  BY <1>1, <1>2, <1>3, <1>6 DEF SemKept, PermitsAddUp
<1> QED BY <1>4, <1>5, <1>6

\* A wait-for-zero child that sleeps and was not let go has not seen the value 0.
ZeroSleep == \A c \in Child : child[c] = "zwait" /\ c \notin zeros /\ key # 0 => sem[key].val # 0

LEMMA SemNext_Sleep ==
  ASSUME SemKept, SemKept', ZeroSleep, SemNext, blame' = {}
  PROVE  ZeroSleep'
<1> SUFFICES ASSUME NEW c \in Child, child'[c] = "zwait", c \notin zeros', key' # 0
             PROVE  sem'[key'].val # 0
  BY DEF ZeroSleep
<1>k. kind' = "zero"
  BY DEF SemKept, ChildrenHeld
<1>s. child[c] = "zwait" => key # 0 /\ key \in Gen /\ id[c[1]] = key /\ Live(key) /\ sem[key].val \in Nat
  BY ChildHolds
<1>0. ASSUME child[c] = "zwait", c \notin zeros, key' = key, sem'[key].val = sem[key].val
      PROVE  sem'[key'].val # 0
  BY <1>0 DEF ZeroSleep
<1>1. ASSUME NEW i \in Inst, ParentStep(i) PROVE sem'[key'].val # 0
  <2>0. zeros' = zeros /\ kind = "zero"
    BY <1>k, <1>1 DEF ParentStep, Create, Attach, SetAll, SetAllFail, Ftruncate, InitSem, ForkZero,
                      Fork, ForkFail, Reap
  <2>1. CASE child' = child
    <3>0. child[c] = "zwait" /\ c \notin zeros /\ key # 0 /\ key \in Gen
      BY <1>s, <2>0, <2>1
    <3>1. CASE Create(i)
      BY <1>0, <3>0, <3>1 DEF Create
    <3>2. CASE Attach(i) \/ ForkZero(i) \/ Fork(i) \/ ForkFail(i) \/ SetAllFail(i)
      BY <1>0, <3>0, <3>2 DEF Attach, ForkZero, Fork, ForkFail, SetAllFail
    <3>3. CASE SetAll(i)
      <4>1. Live(id[i]) /\ id[i] = key /\ key' = key /\ parent[i] = "init"
        BY <3>3, SemaphoreNumbers DEF SetAll, Blame, SemKept, OneSemaphore, Holding, Places
      <4>2. sem' = [sem EXCEPT ![key].val = Value]
        BY <3>3, <4>1 DEF SetAll
      <4>3. Value = 2
        BY <2>0 DEF Value
      <4>4. sem'[key].val = 2
        BY <3>0, <4>2, <4>3 DEF SemKept, SemTypeOK
      <4> QED BY <4>1, <4>4
    <3>4. CASE Ftruncate(i) \/ InitSem(i)
      BY <2>0, <3>4 DEF Ftruncate, InitSem
    <3>5. CASE Reap(i)
      <4>1. id[i] = key
        BY <3>5 DEF Reap, SemKept, OneSemaphore, Holding, Places
      <4>2. UNCHANGED <<sem, key>>
        BY <3>5, <4>1 DEF Reap
      <4> QED BY <1>0, <3>0, <4>2
    <3> QED BY <1>1, <3>1, <3>2, <3>3, <3>4, <3>5 DEF ParentStep
  <2>2. CASE child' # child
    <3>1. /\ child[c] = "zwait" /\ UNCHANGED <<sem, key>>
      BY <1>1, <2>2 DEF ParentStep, Create, Attach, SetAll, SetAllFail, Ftruncate, InitSem, ForkZero,
                        Fork, ForkFail, Reap, SemKept, SemTypeOK
    <3> QED BY <1>0, <2>0, <3>1
  <2> QED BY <2>1, <2>2
<1>2. ASSUME NEW i \in Inst, NamedStep(i) PROVE FALSE
  BY <1>2, <1>k DEF NamedStep, NamedWait, NamedPost, NamedEof, NamedRemove
<1>3. ASSUME NEW d \in Child, sysv_semwait(d) PROVE sem'[key'].val # 0
  <2>1. /\ child[d] = "wait" /\ child[c] = "zwait" /\ c # d /\ key' = key /\ Permit(d, id[d[1]], -1)
        /\ c \notin zeros
    BY <1>3 DEF sysv_semwait, SemKept, SemTypeOK
  <2>2. id[d[1]] = key /\ Live(key) /\ key \in Gen /\ sem[key].val \in Nat /\ id[c[1]] = key
    BY <1>s, <2>1, ChildHolds
  <2>3. sem[key].val # 1
    BY <1>3, <2>1, <2>2 DEF sysv_semwait
  <2>4. PICK v \in Int : v = sem[key].val - 1
    BY <2>2
  <2>5. sem' = [sem EXCEPT ![key].val = v]
    BY <2>1, <2>2, <2>4 DEF Permit
  <2>6. sem'[key].val = v
    BY <2>2, <2>5 DEF SemKept, SemTypeOK
  <2> QED BY <2>1, <2>2, <2>3, <2>4, <2>6
<1>4. ASSUME NEW d \in Child, sysv_sempost(d) PROVE sem'[key'].val # 0
  <2>1. child[d] = "in" /\ child[c] = "zwait" /\ key' = key /\ Permit(d, id[d[1]], 1)
    BY <1>4 DEF sysv_sempost, SemKept, SemTypeOK
  <2>2. id[d[1]] = key /\ Live(key) /\ key \in Gen /\ sem[key].val \in Nat
    BY <2>1, ChildHolds
  <2>4. PICK v \in Int : v = sem[key].val + 1
    BY <2>2
  <2>5. sem' = [sem EXCEPT ![key].val = v]
    BY <2>1, <2>2, <2>4 DEF Permit
  <2>6. sem'[key].val = v
    BY <2>2, <2>5 DEF SemKept, SemTypeOK
  <2> QED BY <2>1, <2>2, <2>4, <2>6
<1>5. ASSUME NEW d \in Child, Abort(d) PROVE sem'[key'].val # 0
  <2>1. /\ child[d] = "in" /\ child[c] = "zwait" /\ key' = key /\ c \notin zeros
        /\ sem' = Adjusted(d)
    BY <1>5 DEF Abort, SemKept, SemTypeOK
  <2>2. key \in Gen /\ sem[key].val \in Nat
    BY <2>1, ChildHolds
  <2>3. PICK x \in Int : x = undo[d][key] /\ x >= 0
    BY <2>2 DEF SemKept, UndoKept
  <2>4. sem[key].val # 0
    BY <1>s, <2>1 DEF ZeroSleep
  <2>5. sem'[key] = IF sem[key].state = "live" THEN [sem[key] EXCEPT !.val = @ + x] ELSE sem[key]
    BY <2>1, <2>2, <2>3 DEF Adjusted
  <2>6. sem'[key].val \in {sem[key].val, sem[key].val + x}
    BY <2>2, <2>5 DEF SemKept, SemTypeOK
  <2> QED BY <2>1, <2>2, <2>3, <2>4, <2>6
<1>6. ASSUME NEW d \in Child, sysv_semzwait(d) PROVE sem'[key'].val # 0
  <2>0. key' = key /\ sem' = sem
    BY <1>6 DEF sysv_semzwait
  <2>1. CASE c = d
    <3>1. child[d] = "zcall"
      BY <1>6 DEF sysv_semzwait
    <3>2. id[d[1]] = key /\ Live(key)
      BY <3>1, ChildHolds
    <3> QED BY <1>6, <2>0, <2>1, <3>2 DEF sysv_semzwait
  <2>2. CASE c # d
    <3>1. child[c] = "zwait" /\ c \notin zeros
      BY <1>6, <2>2 DEF sysv_semzwait, SemKept, SemTypeOK
    <3> QED BY <1>0, <2>0, <3>1
  <2> QED BY <2>1, <2>2
<1>7. ASSUME NEW d \in Child, ZeroReturns(d) PROVE sem'[key'].val # 0
  <2>1. child[c] = "zwait" /\ c \notin zeros /\ key' = key /\ sem' = sem
    BY <1>7 DEF ZeroReturns, SemKept, SemTypeOK
  <2> QED BY <1>0, <2>1
<1> QED BY <1>1, <1>2, <1>3, <1>4, <1>5, <1>6, <1>7 DEF SemNext, ChildStep

\* The value 0 is a full section, once it is set.
LEMMA ZeroIsFull ==
  ASSUME SemKept, kind = "zero", key # 0, \A i \in Inst : parent[i] # "init"
  PROVE  sem[key].val = 0 <=> Inside = Value
<1>1. sem[key].val + Inside = Value /\ sem[key].val \in Nat
  BY DEF SemKept, PermitsAddUp, SysV
<1>2. Inside \in Nat /\ Value \in Nat
  BY InsideCounts DEF Value
<1> QED BY <1>1, <1>2

ZeroHasSet == \A c \in Child : child[c] = "zwait" => kind = "zero" /\ key # 0

LEMMA ZeroWaits == SemKept => ZeroHasSet
BY ChildHolds DEF SemKept, ChildrenHeld, ZeroHasSet

LEMMA SemNext_Zero ==
  ASSUME SemKept, SemKept', ZeroSleep', SemNext, blame' = {}
  PROVE  ZeroMeansFull
<1>v. Value' = Value
  BY DEF Value, SemNext, ParentStep, NamedStep, ChildStep, Create, Attach, SetAll, SetAllFail,
         Ftruncate, InitSem, ForkZero, Fork, ForkFail, Reap, sysv_semwait, sysv_sempost, Abort,
         sysv_semzwait, ZeroReturns, NamedWait, NamedPost, NamedEof, NamedRemove
<1>1. ASSUME Inside' = Value, NEW c \in Child, child'[c] = "zwait" PROVE c \in zeros'
  <2>1. (kind = "zero" /\ key # 0)'
    <3>1. ZeroHasSet'
      BY ZeroWaits, PTL
    <3> QED BY <1>1, <3>1 DEF ZeroHasSet
  <2>2. (Value = 2)'
    BY <2>1 DEF Value
  <2>3. (\A i \in Inst : parent[i] # "init")'
    BY <1>1, <1>v, <2>1, <2>2 DEF SemKept, PermitsAddUp, SysV
  <2>4. (sem[key].val = 0)'
    <3>1. (Inside = Value)'
      BY <1>1, <1>v
    <3>2. (sem[key].val = 0 <=> Inside = Value)'
      <4>1. (kind = "zero")' /\ (key # 0)'
        BY <2>1
      <4> QED BY <2>3, <4>1, ZeroIsFull, PTL
    <3> QED BY <3>1, <3>2
  <2> QED BY <1>1, <2>1, <2>4 DEF ZeroSleep
<1>2. ASSUME zeros' # zeros PROVE Inside' = Value
  <2>1. PICK d \in Child : sysv_semwait(d) \/ sysv_semzwait(d)
    BY <1>2 DEF SemNext, ParentStep, NamedStep, ChildStep, Create, Attach, SetAll, SetAllFail,
         Ftruncate, InitSem, ForkZero, Fork, ForkFail, Reap, sysv_sempost, Abort,
         ZeroReturns, NamedWait, NamedPost, NamedEof, NamedRemove
  <2>2. child[d] \in {"wait", "zcall"}
    BY <2>1 DEF sysv_semwait, sysv_semzwait
  <2>3. /\ key \in Gen /\ key # 0 /\ id[d[1]] = key /\ Live(key) /\ sem[key].val \in Nat
    BY <2>2, ChildHolds
  <2>4. UNCHANGED <<kind, key, parent>>
    BY <2>1 DEF sysv_semwait, sysv_semzwait
  <2>5. CASE sysv_semwait(d)
    <3>1. sem[key].val = 1 /\ \E e \in Child : child[e] = "zwait"
      BY <1>2, <2>3, <2>5 DEF sysv_semwait
    <3>2. kind = "zero"
      BY <3>1 DEF SemKept, ChildrenHeld
    <3>3. \A i \in Inst : parent[i] # "init"
      BY <2>3, <3>1, <3>2 DEF SemKept, PermitsAddUp, SysV
    <3>4. PICK v \in Int : v = sem[key].val - 1
      BY <2>3
    <3>5. sem' = [sem EXCEPT ![key].val = v]
      BY <2>3, <2>5, <3>4 DEF sysv_semwait, Permit
    <3>6. sem'[key].val = 0
      BY <2>3, <3>1, <3>4, <3>5 DEF SemKept, SemTypeOK
    <3>7. (kind = "zero" /\ key # 0 /\ sem[key].val = 0 /\ \A i \in Inst : parent[i] # "init")'
      BY <2>3, <2>4, <3>2, <3>3, <3>6
    <3>8. (Inside = Value)'
      BY <3>7, ZeroIsFull, PTL
    <3> QED BY <1>v, <3>8
  <2>6. CASE sysv_semzwait(d)
    <3>1. sem[key].val = 0 /\ sem' = sem /\ child[d] = "zcall"
          /\ \A i \in Inst : parent[i] = "init" => id[i] # key
      BY <1>2, <2>3, <2>6 DEF sysv_semzwait, Blame
    <3>2. kind = "zero"
      BY <3>1 DEF SemKept, ChildrenHeld
    <3>3. \A i \in Inst : parent[i] # "init"
      BY <3>1 DEF SemKept, OneSemaphore, Holding, Places
    <3>7. (kind = "zero" /\ key # 0 /\ sem[key].val = 0 /\ \A i \in Inst : parent[i] # "init")'
      BY <2>3, <2>4, <3>1, <3>2, <3>3
    <3>8. (Inside = Value)'
      BY <3>7, ZeroIsFull, PTL
    <3> QED BY <1>v, <3>8
  <2> QED BY <2>1, <2>5, <2>6
<1> QED BY <1>1, <1>2 DEF ZeroMeansFull

\* The critical section admits what the value allows and a wait for zero ends only while it is
\* full, unless one instance pulled the semaphore from under another (sysv_sem.c,
\* sysv_sem_waitforzero.c, posix_nameless_sem.c, posix_named_sem.c): for any number of instances
\* and children, with a child that aborts inside.
THEOREM SemaphoreKept_Correct == SemSpec => SemaphoreKept
<1> DEFINE ZeroInv == blame = {} => ZeroSleep
<1>1. SemInit => ZeroInv
  BY DEF SemInit, SemAt, ZeroSleep
<1>2. ASSUME SemInv, ZeroInv, SemNext PROVE ZeroInv' /\ ZeroMeansFull
  <2>1. CASE blame' # {}
    BY <2>1 DEF ZeroMeansFull
  <2>2. CASE blame' = {}
    <3>1. blame = {}
      BY <1>2, <2>2, BlameStays
    <3>2. SemKept /\ SemKept' /\ ZeroSleep
      BY <1>2, <2>2, <3>1, SemNext_Inv DEF SemInv
    <3> QED BY <1>2, <2>2, <3>2, SemNext_Sleep, SemNext_Zero
  <2> QED BY <2>1, <2>2
<1>3. ZeroInv /\ UNCHANGED semvars => ZeroInv'
  BY DEF semvars, ZeroSleep
<1>4. SemInv /\ ZeroInv /\ [SemNext]_semvars => ZeroInv' /\ [Exclusion' /\ ZeroMeansFull]_semvars
  <2> HIDE DEF ZeroInv
  <2> QED BY <1>2, <1>3, SemNext_Inv, SemInv_Exclusion, PTL
<1> HIDE DEF ZeroInv
<1> QED BY <1>1, <1>4, SemInit_Inv, SemNext_Inv, PTL DEF SemSpec, SemaphoreKept

LEMMA LeastExists ==
  ASSUME NEW T \in SUBSET Nat, T # {}
  PROVE  \E x \in T : \A y \in T : x <= y
<1>1. PICK x \in T : \A y \in T : <<y, x>> \notin OpToRel(<, Nat)
  BY NatLessThanWellFounded, WFMin, Zenon
<1>2. \A y \in T : ~(y < x)
  BY <1>1 DEF OpToRel
<1> QED BY <1>2

-----------------------------------------------------------------------------
(* Message queues                                                          *)

Message == [n : Nat, type : Nat]
MsgPlaces == {"start", "again", "send", "finished", "crashed", "attr", "notify", "recv", "asleep",
              "exit"}

MsgTypes ==
  /\ mkind \in {"sysv", "regex", "posix", "sigev"} /\ file \in Files /\ line \in Nat \ {0}
  /\ mkey \in Queue \union {0} /\ mqueue \in [Queue -> [state : {"none", "live", "gone"}, msgs : Seq(Message)]]
  /\ note \in [Queue -> Receiver \union {Nobody}]
  /\ at \in [Proc -> MsgPlaces]
  /\ qid \in [Proc -> Queue \union {0}]

\* Who has a queue, and which: one that exists was made by a process that still knows it.
QueuesKnown ==
  /\ \A p \in Proc : at[p] \in {"start", "again"} => qid[p] = 0
  /\ \A p \in Proc : at[p] \notin {"start", "again", "exit"} => qid[p] \in Queue
  /\ \A r \in Receiver : at[r] \notin {"send", "finished", "crashed"}
  /\ at[Sender] \notin {"attr", "notify", "recv", "asleep"}
  /\ \A q \in Queue : mqueue[q].state # "none" <=> \E p \in Proc : qid[p] = q
  /\ mkey # 0 => mqueue[mkey].state # "none"
  /\ \A q \in Queue : Posix => mqueue[q].state # "gone"

\* The lines behind the sender: each sent, or passed over.
LinesBehind ==
  /\ \A n \in sent : n \in Nat /\ n < line
  /\ \A m \in 1 .. line - 1 : m \in sent \/ Fate(file[m]) = "skip"

\* An empty queue without a registration has a receiver that will look at it again.
SomebodyLooks ==
  mkind = "sigev" => \A q \in Queue :
    /\ mqueue[q].msgs = << >> /\ note[q] = Nobody
    /\ \E r \in Receiver : qid[r] = q /\ at[r] # "exit"
    => \E r \in Receiver : qid[r] = q /\ at[r] \in {"attr", "notify"}

\* Whoever sleeps in mq_receive sleeps on an empty queue.
SleepsOnEmpty ==
  Posix => \A r \in Receiver : at[r] = "asleep" => mqueue[qid[r]].msgs = << >>

MsgInv == MsgTypes /\ QueuesKnown /\ LinesBehind /\ SomebodyLooks /\ SleepsOnEmpty

LEMMA QueueNumbers == Sender \in Proc /\ Receiver \subseteq Proc /\ IsFiniteSet(Proc)
                      /\ Cardinality(Proc) \in Nat /\ Queue \subseteq Nat \ {0} /\ 0 \notin Queue
<1>1. IsFiniteSet(Proc)
  BY MsgAssumption, FS_AddElement, FS_Union, FS_Singleton DEF Proc
<1>2. Cardinality(Proc) \in Nat
  BY <1>1, FS_CardinalityType
<1> QED BY <1>1, <1>2 DEF Proc, Queue

\* There is a queue for each process, so whoever makes one finds one unused.
LEMMA FreshIsUnused ==
  ASSUME MsgTypes, QueuesKnown, NEW p \in Proc, qid[p] = 0
  PROVE  FreshQueue \in Queue /\ mqueue[FreshQueue].state = "none"
<1> DEFINE spare == {q \in Queue : mqueue[q].state = "none"}
<1>1. PICK g \in 1 .. Cardinality(Proc) : \A v \in Proc \ {p} : qid[v] # g
  BY QueueNumbers, SpareNumber
<1>2. g \in Queue /\ \A v \in Proc : qid[v] # g
  BY <1>1, QueueNumbers DEF Queue
<1>3. g \in spare
  BY <1>2 DEF QueuesKnown
<1>4. spare \in SUBSET Nat /\ spare # {}
  BY <1>3, QueueNumbers
<1>5. PICK x \in spare : \A y \in spare : x <= y
  BY <1>4, LeastExists
<1>6. x \in Queue /\ mqueue[x].state = "none" /\ \A r \in Queue : r < x => mqueue[r].state # "none"
  <2>1. x \in Nat /\ \A r \in Queue : r \in Nat /\ (r < x => ~(x <= r))
    BY <1>4, QueueNumbers
  <2> QED BY <1>5, <2>1
<1>7. \E q \in Queue : mqueue[q].state = "none" /\ \A r \in Queue : r < q => mqueue[r].state # "none"
  BY <1>6
<1> QED BY <1>7 DEF FreshQueue

\* Steps that send nothing and let nobody fall asleep.
LEMMA LinesStay ==
  ASSUME LinesBehind, UNCHANGED <<mkind, file, line, sent>>
  PROVE  LinesBehind'
BY DEF LinesBehind, Fate, Posix

LEMMA SleepStays ==
  ASSUME SleepsOnEmpty, UNCHANGED mkind,
         \A r \in Receiver : at'[r] = "asleep" =>
           at[r] = "asleep" /\ qid'[r] = qid[r] /\ mqueue'[qid[r]].msgs = mqueue[qid[r]].msgs
  PROVE  SleepsOnEmpty'
BY DEF SleepsOnEmpty, Posix

\* Steps of a process that keeps its queue and goes on, to look at it if it looked before.
LEMMA LooksStays ==
  ASSUME SomebodyLooks, NEW p \in Proc, UNCHANGED <<mkind, note, qid>>,
         \A q \in Queue : mqueue'[q].msgs = mqueue[q].msgs,
         \A v \in Proc \ {p} : at'[v] = at[v],
         p \in Receiver => \/ at'[p] \in {"attr", "notify"}
                           \/ at'[p] = "exit" /\ at[p] \notin {"attr", "notify"}
                           \/ at'[p] = "asleep" /\ at[p] = "recv"
  PROVE  SomebodyLooks'
<1> SUFFICES ASSUME mkind = "sigev", NEW q \in Queue, mqueue[q].msgs = << >>, note[q] = Nobody,
                    NEW s \in Receiver, qid[s] = q, at'[s] # "exit"
             PROVE  \E r \in Receiver : qid[r] = q /\ at'[r] \in {"attr", "notify"}
  BY DEF SomebodyLooks
<1>1. s \in Proc
  BY QueueNumbers
<1>2. CASE s = p /\ at'[p] \in {"attr", "notify"}
  BY <1>2
<1>3. CASE ~(s = p /\ at'[p] \in {"attr", "notify"})
  <2>1. at[s] # "exit"
    BY <1>1, <1>3
  <2>2. PICK r \in Receiver : qid[r] = q /\ at[r] \in {"attr", "notify"}
    BY <2>1 DEF SomebodyLooks
  <2>3. at'[r] \in {"attr", "notify"}
    BY <2>2, QueueNumbers
  <2> QED BY <2>2, <2>3
<1> QED BY <1>2, <1>3

LEMMA QueuedMessages ==
  ASSUME MsgTypes, NEW q \in Queue
  PROVE  mqueue[q].msgs \in Seq(Message)
BY DEF MsgTypes

LEMMA MsgInitInv == MsgInit => MsgInv
<1> SUFFICES ASSUME MsgInit PROVE MsgInv
  OBVIOUS
<1>1. PICK k \in {"sysv", "regex", "posix", "sigev"}, f \in Files : MsgAt(k, f, "start")
  BY DEF MsgInit
<1>2. MsgTypes
  BY <1>1 DEF MsgAt, MsgTypes, MsgPlaces
<1>3. QueuesKnown
  BY <1>1, QueueNumbers DEF MsgAt, QueuesKnown
<1>4. LinesBehind
  BY <1>1 DEF MsgAt, LinesBehind
<1>5. SomebodyLooks /\ SleepsOnEmpty
  BY <1>1, QueueNumbers DEF MsgAt, SomebodyLooks, SleepsOnEmpty
<1> QED BY <1>2, <1>3, <1>4, <1>5 DEF MsgInv

LEMMA MsgStepOpenNew ==
  ASSUME MsgInv, NEW p \in Proc, OpenNew(p)
  PROVE  MsgInv'
<1> USE DEF MsgInv
<1>1. /\ at[p] = "start" /\ qid[p] = 0
      /\ UNCHANGED <<mkind, file, line, note, sent, taken>>
  BY DEF OpenNew, QueuesKnown
<1>0. LinesBehind'
  BY <1>1, LinesStay
<1>2. CASE mkey # 0
  <2>1. at' = [at EXCEPT ![p] = "again"] /\ UNCHANGED <<mkey, mqueue, qid>>
    BY <1>2 DEF OpenNew, MGoes
  <2>2. MsgTypes'
    BY <1>1, <2>1 DEF MsgTypes, MsgPlaces
  <2>3. QueuesKnown'
    BY <1>1, <2>1, QueueNumbers DEF MsgTypes, QueuesKnown, Posix
  <2>4. SleepsOnEmpty'
    BY <1>1, <2>1, SleepStays, QueueNumbers DEF MsgTypes
  <2>5. SomebodyLooks'
    <3>1. \A r \in Proc : qid[r] \in Queue => at'[r] = at[r]
      BY <1>1, <2>1, QueueNumbers DEF MsgTypes
    <3>2. ASSUME mkind = "sigev", NEW q \in Queue, mqueue[q].msgs = << >>, note[q] = Nobody,
                 NEW r \in Receiver, qid[r] = q, at'[r] # "exit"
          PROVE  \E o \in Receiver : qid[o] = q /\ at'[o] \in {"attr", "notify"}
      <4>1. at[r] # "exit"
        BY <3>1, <3>2, QueueNumbers
      <4>2. PICK o \in Receiver : qid[o] = q /\ at[o] \in {"attr", "notify"}
        BY <3>2, <4>1 DEF SomebodyLooks
      <4> QED BY <3>1, <4>2, QueueNumbers
    <3> HIDE DEF MsgInv
    <3> QED BY <1>1, <2>1, <3>2 DEF SomebodyLooks
  <2> QED BY <1>0, <2>2, <2>3, <2>4, <2>5
<1>3. CASE mkey = 0
  <2> DEFINE g == FreshQueue
             l == AfterOpen(p)
  <2>1. /\ mkey' = g /\ qid' = [qid EXCEPT ![p] = g]
        /\ mqueue' = [mqueue EXCEPT ![g].state = "live"] /\ at' = [at EXCEPT ![p] = l]
    BY <1>3 DEF OpenNew, MGoes
  <2>2. g \in Queue /\ mqueue[g].state = "none"
    BY <1>1, FreshIsUnused
  <2>3. /\ p = Sender => l = "send"
        /\ p \in Receiver => l \in {"attr", "recv"}
        /\ p \in Receiver /\ mkind = "sigev" => l = "attr"
        /\ l \in {"send", "attr", "recv"}
    BY MsgAssumption DEF AfterOpen
  <2> HIDE DEF g, l
  <2>4. /\ mqueue' \in [Queue -> [state : {"none", "live", "gone"}, msgs : Seq(Message)]]
        /\ \A q \in Queue : mqueue'[q].msgs = mqueue[q].msgs
        /\ mqueue'[g].state = "live" /\ \A q \in Queue \ {g} : mqueue'[q].state = mqueue[q].state
    BY <2>1, <2>2 DEF MsgTypes
  <2>5. /\ qid'[p] = g /\ \A v \in Proc \ {p} : qid'[v] = qid[v] /\ at'[v] = at[v]
        /\ at'[p] = l
    BY <2>1 DEF MsgTypes
  <2>6. MsgTypes'
    BY <1>1, <2>1, <2>2, <2>3, <2>4 DEF MsgTypes, MsgPlaces
  <2>7. QueuesKnown'
    <3>1. \A v \in Proc : at'[v] \in {"start", "again"} => qid'[v] = 0
      BY <2>3, <2>5 DEF QueuesKnown
    <3>2. \A v \in Proc : at'[v] \notin {"start", "again", "exit"} => qid'[v] \in Queue
      BY <2>2, <2>5 DEF QueuesKnown
    <3>3. \A r \in Receiver : at'[r] \notin {"send", "finished", "crashed"}
      BY <2>3, <2>5, QueueNumbers DEF QueuesKnown
    <3>4. at'[Sender] \notin {"attr", "notify", "recv", "asleep"}
      BY <2>3, <2>5, QueueNumbers DEF QueuesKnown
    <3>5. \A q \in Queue : mqueue'[q].state # "none" <=> \E v \in Proc : qid'[v] = q
      <4> SUFFICES ASSUME NEW q \in Queue
                   PROVE  mqueue'[q].state # "none" <=> \E v \in Proc : qid'[v] = q
        OBVIOUS
      <4>1. CASE q = g
        BY <2>4, <2>5, <4>1
      <4>2. CASE q # g
        <5>1. mqueue[q].state # "none" <=> \E v \in Proc : qid[v] = q
          BY DEF QueuesKnown
        <5>2. qid[p] # q
          BY <1>1, QueueNumbers
        <5> QED BY <2>4, <2>5, <4>2, <5>1, <5>2
      <4> QED BY <4>1, <4>2
    <3>6. \A q \in Queue : Posix' => mqueue'[q].state # "gone"
      BY <1>1, <2>4 DEF QueuesKnown, Posix
    <3>7. mqueue'[mkey'].state # "none"
      BY <2>1, <2>4
    <3> QED BY <3>1, <3>2, <3>3, <3>4, <3>5, <3>6, <3>7 DEF QueuesKnown
  <2>8. SleepsOnEmpty'
    <3> SUFFICES ASSUME NEW r \in Receiver, at'[r] = "asleep"
                 PROVE  at[r] = "asleep" /\ qid'[r] = qid[r] /\ mqueue'[qid[r]].msgs = mqueue[qid[r]].msgs
      BY <1>1, SleepStays
    <3>1. r \in Proc /\ r # p
      BY <2>3, <2>5, QueueNumbers
    <3>2. qid[r] \in Queue
      BY <2>5, <3>1 DEF QueuesKnown
    <3> QED BY <2>4, <2>5, <3>1, <3>2
  <2>9. SomebodyLooks'
    <3> SUFFICES ASSUME mkind = "sigev", NEW q \in Queue, mqueue[q].msgs = << >>,
                        note[q] = Nobody, NEW s \in Receiver, qid'[s] = q, at'[s] # "exit"
                 PROVE  \E r \in Receiver : qid'[r] = q /\ at'[r] \in {"attr", "notify"}
      BY <1>1, <2>4 DEF SomebodyLooks
    <3>1. CASE s = p
      BY <2>3, <2>5, <3>1
    <3>2. CASE s # p
      <4>1. qid[s] = q /\ at[s] # "exit"
        BY <2>5, <3>2, QueueNumbers
      <4>2. PICK r \in Receiver : qid[r] = q /\ at[r] \in {"attr", "notify"}
        BY <4>1 DEF SomebodyLooks
      <4>3. r # p /\ r \in Proc
        BY <1>1, <4>2, QueueNumbers
      <4> QED BY <2>5, <4>2, <4>3
    <3> QED BY <3>1, <3>2
  <2> QED BY <1>0, <2>6, <2>7, <2>8, <2>9
<1> QED BY <1>2, <1>3

LEMMA MsgStepOpenAgain ==
  ASSUME MsgInv, NEW p \in Proc, OpenAgain(p)
  PROVE  MsgInv'
<1> USE DEF MsgInv
<1> DEFINE l == IF mkey = 0 THEN "exit" ELSE AfterOpen(p)
<1>1. /\ at[p] = "again" /\ qid[p] = 0 /\ qid' = [qid EXCEPT ![p] = mkey]
      /\ at' = [at EXCEPT ![p] = l]
      /\ UNCHANGED <<mkind, file, line, mkey, mqueue, note, sent, taken>>
  BY DEF OpenAgain, MGoes, QueuesKnown
<1>2. /\ mkey = 0 => l = "exit"
      /\ p = Sender => l \in {"send", "exit"}
      /\ p \in Receiver => l \in {"attr", "recv", "exit"}
      /\ p \in Receiver /\ mkind = "sigev" => l \in {"attr", "exit"}
      /\ l \in {"send", "attr", "recv", "exit"}
      /\ l = "exit" => mkey = 0
  BY MsgAssumption DEF AfterOpen
<1> HIDE DEF l
<1>3. /\ qid'[p] = mkey /\ \A v \in Proc \ {p} : qid'[v] = qid[v] /\ at'[v] = at[v]
      /\ at'[p] = l
  BY <1>1 DEF MsgTypes
<1>4. MsgTypes'
  BY <1>1, <1>2 DEF MsgTypes, MsgPlaces
<1>5. QueuesKnown'
  <2>1. \A v \in Proc : at'[v] \in {"start", "again"} => qid'[v] = 0
    BY <1>2, <1>3 DEF QueuesKnown
  <2>2. \A v \in Proc : at'[v] \notin {"start", "again", "exit"} => qid'[v] \in Queue
    BY <1>2, <1>3 DEF QueuesKnown, MsgTypes
  <2>3. \A r \in Receiver : at'[r] \notin {"send", "finished", "crashed"}
    BY <1>2, <1>3, QueueNumbers DEF QueuesKnown
  <2>4. at'[Sender] \notin {"attr", "notify", "recv", "asleep"}
    BY <1>2, <1>3, QueueNumbers DEF QueuesKnown
  <2>5. ASSUME NEW q \in Queue PROVE mqueue'[q].state # "none" <=> \E v \in Proc : qid'[v] = q
    <3>1. mqueue[q].state # "none" <=> \E v \in Proc : qid[v] = q
      BY DEF QueuesKnown
    <3>2. q # 0 /\ qid[p] # q
      BY <1>1, QueueNumbers
    <3>3. CASE q = mkey
      BY <1>1, <1>3, <3>2, <3>3 DEF QueuesKnown
    <3>4. CASE q # mkey
      BY <1>1, <1>3, <3>1, <3>2, <3>4
    <3> QED BY <3>3, <3>4
  <2> QED BY <1>1, <2>1, <2>2, <2>3, <2>4, <2>5 DEF QueuesKnown, Posix
<1>6. LinesBehind'
  BY <1>1, LinesStay
<1>7. SleepsOnEmpty'
  BY <1>1, <1>2, <1>3, SleepStays, QueueNumbers
<1>8. SomebodyLooks'
  <2> SUFFICES ASSUME mkind = "sigev", NEW q \in Queue, mqueue[q].msgs = << >>,
                      note[q] = Nobody, NEW s \in Receiver, qid'[s] = q, at'[s] # "exit"
               PROVE  \E r \in Receiver : qid'[r] = q /\ at'[r] \in {"attr", "notify"}
    BY <1>1 DEF SomebodyLooks
  <2>1. CASE s = p
    BY <1>2, <1>3, <2>1
  <2>2. CASE s # p
    <3>1. qid[s] = q /\ at[s] # "exit"
      BY <1>3, <2>2, QueueNumbers
    <3>2. PICK r \in Receiver : qid[r] = q /\ at[r] \in {"attr", "notify"}
      BY <3>1 DEF SomebodyLooks
    <3>3. r # p /\ r \in Proc
      BY <1>1, <3>2, QueueNumbers
    <3> QED BY <1>3, <3>2, <3>3
  <2> QED BY <2>1, <2>2
<1> QED BY <1>4, <1>5, <1>6, <1>7, <1>8

\* What the sender does without sending, and the key press.
LEMMA MsgStepEnds ==
  ASSUME MsgInv, Skip \/ StopSending \/ Crash \/ PressKey
  PROVE  MsgInv'
<1> USE DEF MsgInv
<1>1. CASE Skip
  <2>1. line \in Nat \ {0} /\ line' = line + 1 /\ Fate(file[line]) = "skip"
        /\ UNCHANGED <<mkind, file, mkey, mqueue, note, at, qid, sent, taken>>
    BY <1>1 DEF Skip, MsgTypes
  <2>2. MsgTypes' /\ QueuesKnown' /\ SomebodyLooks' /\ SleepsOnEmpty'
    BY <2>1 DEF MsgTypes, QueuesKnown, SomebodyLooks, SleepsOnEmpty, Posix
  <2>3. LinesBehind'
    <3>1. \A n \in sent : n \in Nat /\ n < line + 1
      BY <2>1 DEF LinesBehind
    <3>2. ASSUME NEW m \in 1 .. line PROVE m \in sent \/ Fate(file[m]) = "skip"
      <4>1. m = line \/ m \in 1 .. line - 1
        BY <2>1
      <4> QED BY <2>1, <4>1 DEF LinesBehind
    <3>3. line' - 1 = line /\ \A m : Fate(file[m])' = Fate(file[m])
      BY <2>1 DEF Fate, Posix
    <3> QED BY <2>1, <3>1, <3>2, <3>3 DEF LinesBehind
  <2> QED BY <2>2, <2>3
<1>2. CASE StopSending \/ Crash
  <2>1. PICK l \in {"finished", "crashed"} :
          /\ at[Sender] = "send" /\ at' = [at EXCEPT ![Sender] = l]
          /\ UNCHANGED <<mkind, file, line, mkey, mqueue, note, qid, sent, taken>>
    BY <1>2 DEF StopSending, Crash, Sending, MGoes
  <2>2. MsgTypes' /\ at'[Sender] = l /\ \A v \in Proc \ {Sender} : at'[v] = at[v]
    BY <2>1, QueueNumbers DEF MsgTypes, MsgPlaces
  <2>3. QueuesKnown'
    BY <2>1, <2>2, QueueNumbers, MsgAssumption DEF QueuesKnown, Posix
  <2>4. LinesBehind' /\ SleepsOnEmpty'
    BY <2>1, <2>2, LinesStay, SleepStays, QueueNumbers, MsgAssumption
  <2>5. SomebodyLooks'
    BY <2>1, <2>2, LooksStays, QueueNumbers, MsgAssumption
  <2> QED BY <2>2, <2>3, <2>4, <2>5
<1>3. CASE PressKey
  <2>1. /\ at[Sender] = "finished" /\ at' = [at EXCEPT ![Sender] = "exit"]
        /\ UNCHANGED <<mkind, file, line, note, qid, sent, taken>>
    BY <1>3 DEF PressKey, MGoes
  <2>2. at'[Sender] = "exit" /\ \A v \in Proc \ {Sender} : at'[v] = at[v]
    BY <2>1, QueueNumbers DEF MsgTypes
  <2>0. LinesBehind'
    BY <2>1, LinesStay
  <2>3. CASE Posix
    <3>1. UNCHANGED <<mqueue, mkey>>
      BY <1>3, <2>3 DEF PressKey
    <3>2. MsgTypes'
      BY <2>1, <3>1 DEF MsgTypes, MsgPlaces
    <3>3. QueuesKnown'
      BY <2>1, <2>2, <3>1, QueueNumbers, MsgAssumption DEF QueuesKnown, Posix
    <3>4. SleepsOnEmpty'
      BY <2>1, <2>2, <3>1, SleepStays, QueueNumbers, MsgAssumption
    <3>5. SomebodyLooks'
      BY <2>1, <2>2, <3>1, LooksStays, QueueNumbers, MsgAssumption
    <3> QED BY <2>0, <3>2, <3>3, <3>4, <3>5
  <2>4. CASE ~Posix
    <3>1. /\ mqueue' = [mqueue EXCEPT ![Q] = [state |-> "gone", msgs |-> << >>]]
          /\ mkey' = IF mkey = Q THEN 0 ELSE mkey
      BY <1>3, <2>4 DEF PressKey
    <3>2. Q \in Queue /\ Q' = Q
      BY <2>1, QueueNumbers DEF Q, QueuesKnown
    <3>3. /\ mqueue' \in [Queue -> [state : {"none", "live", "gone"}, msgs : Seq(Message)]]
          /\ mqueue'[Q] = [state |-> "gone", msgs |-> << >>]
          /\ \A q \in Queue \ {Q} : mqueue'[q] = mqueue[q]
      BY <3>1, <3>2 DEF MsgTypes
    <3>4. MsgTypes'
      BY <2>1, <3>1, <3>3 DEF MsgTypes, MsgPlaces
    <3>5. QueuesKnown'
      <4>1. \A q \in Queue : mqueue'[q].state # "none" <=> mqueue[q].state # "none"
        BY <2>1, <3>2, <3>3, QueueNumbers DEF QueuesKnown, Q
      <4>2. mkey' # 0 => mkey' \in Queue /\ mkey # 0 /\ mkey' = mkey
        BY <3>1 DEF MsgTypes
      <4>3. ~Posix'
        BY <2>1, <2>4 DEF Posix
      <4> QED BY <2>1, <2>2, <4>1, <4>2, <4>3, QueueNumbers, MsgAssumption DEF QueuesKnown
    <3>6. SomebodyLooks' /\ SleepsOnEmpty'
      BY <2>1, <2>4 DEF SomebodyLooks, SleepsOnEmpty, Posix
    <3> QED BY <2>0, <3>4, <3>5, <3>6
  <2> QED BY <2>3, <2>4
<1> QED BY <1>1, <1>2, <1>3

\* What both ways to send have in common.
LEMMA SentOne ==
  ASSUME MsgInv, SendOne
  PROVE  /\ at[Sender] = "send" /\ Q \in Queue /\ Q' = Q /\ line \in 1 .. Len(file)
         /\ line' = line + 1 /\ line \in Nat \ {0} /\ line' \in Nat \ {0} /\ LinesBehind'
         /\ UNCHANGED <<mkind, file, mkey, qid>>
         /\ file[line].type \in Nat
<1> USE DEF MsgInv
<1>1. /\ at[Sender] = "send" /\ line <= Len(file) /\ line' = line + 1
      /\ sent' = sent \union {line} /\ UNCHANGED <<mkind, file, mkey, qid>>
  BY DEF SendOne, Sending
<1>2. Q \in Queue /\ Q' = Q /\ line \in Nat \ {0}
  BY <1>1, QueueNumbers DEF Q, QueuesKnown, MsgTypes
<1>3. LinesBehind'
  <2>1. \A n \in sent' : n \in Nat /\ n < line + 1
    BY <1>1, <1>2 DEF LinesBehind
  <2>2. ASSUME NEW m \in 1 .. line PROVE m \in sent' \/ Fate(file[m]) = "skip"
    <3>1. m = line \/ m \in 1 .. line - 1
      BY <1>2
    <3> QED BY <1>1, <3>1 DEF LinesBehind
  <2>3. line' - 1 = line /\ \A m : Fate(file[m])' = Fate(file[m])
    BY <1>1, <1>2 DEF Fate, Posix
  <2> QED BY <1>1, <2>1, <2>2, <2>3 DEF LinesBehind
<1>4. file \in Seq([type : Nat, text : {"good", "short", "long"}])
  BY MsgAssumption DEF MsgTypes
<1>5. line \in 1 .. Len(file)
  BY <1>1, <1>2, <1>4
<1>6. file[line] \in [type : Nat, text : {"good", "short", "long"}]
  BY <1>4, <1>5, ElementOfSeq
<1> QED BY <1>1, <1>2, <1>3, <1>5, <1>6

LEMMA MsgStepSend ==
  ASSUME MsgInv, Send
  PROVE  MsgInv'
<1> USE DEF MsgInv
<1> DEFINE m == [n |-> line, type |-> file[line].type]
<1>1. /\ mqueue' = [mqueue EXCEPT ![Q].msgs = Append(@, m)]
      /\ UNCHANGED <<at, taken>>
      /\ \A q \in Queue \ {Q} : note'[q] = note[q]
      /\ note' \in [Queue -> Receiver \union {Nobody}]
  <2>1. note' = note \/ note' = [note EXCEPT ![Q] = Nobody]
    BY DEF Send
  <2>2. /\ \A q \in Queue \ {Q} : note'[q] = note[q]
        /\ note' \in [Queue -> Receiver \union {Nobody}]
    BY <2>1 DEF MsgTypes
  <2> QED BY <2>2 DEF Send
<1>2. /\ Q \in Queue /\ Q' = Q /\ line \in Nat \ {0} /\ line' \in Nat \ {0} /\ LinesBehind'
      /\ UNCHANGED <<mkind, file, mkey, qid>> /\ file[line].type \in Nat
  BY SentOne DEF Send
<1>3. \A r \in Receiver : ~(Posix /\ at[r] = "asleep" /\ qid[r] = Q)
  BY DEF Send, Sleeper, Asleep, Wants
<1> HIDE DEF Q
<1>4. m \in Message
  BY <1>2 DEF Message
<1> HIDE DEF m
<1>5. /\ mqueue' \in [Queue -> [state : {"none", "live", "gone"}, msgs : Seq(Message)]]
      /\ mqueue'[Q].msgs # << >>
      /\ \A q \in Queue : mqueue'[q].state = mqueue[q].state
      /\ \A q \in Queue \ {Q} : mqueue'[q] = mqueue[q]
  <2>1. mqueue[Q].msgs \in Seq(Message)
    BY <1>2, QueuedMessages
  <2>2. PICK s2 \in Seq(Message) : s2 = Append(mqueue[Q].msgs, m) /\ s2 # << >>
    BY <1>4, <2>1, AppendProperties
  <2>3. mqueue' = [mqueue EXCEPT ![Q].msgs = s2]
    BY <1>1, <2>2
  <2> QED BY <1>2, <2>2, <2>3 DEF MsgTypes
<1>6. MsgTypes'
  BY <1>1, <1>2, <1>5 DEF MsgTypes
<1>7. QueuesKnown'
  BY <1>1, <1>2, <1>5 DEF QueuesKnown, Posix
<1>8. SomebodyLooks'
  <2>1. \A q \in Queue : mqueue'[q].msgs = << >> => mqueue[q].msgs = << >> /\ note'[q] = note[q]
    BY <1>1, <1>5
  <2> QED BY <1>1, <1>2, <2>1 DEF SomebodyLooks
<1>9. SleepsOnEmpty'
  <2> SUFFICES ASSUME Posix, NEW r \in Receiver, at[r] = "asleep" PROVE mqueue'[qid[r]].msgs = << >>
    BY <1>1, <1>2 DEF SleepsOnEmpty, Posix
  <2>1. qid[r] # Q /\ qid[r] \in Queue
    BY <1>3, QueueNumbers DEF QueuesKnown
  <2> QED BY <1>5, <2>1 DEF SleepsOnEmpty
<1> QED BY <1>2, <1>6, <1>7, <1>8, <1>9

\* A message handed to a sleeper: it goes back to the top of its loop, to look again.
LEMMA MsgStepSendTo ==
  ASSUME MsgInv, NEW r \in Receiver, SendTo(r)
  PROVE  MsgInv'
<1> USE DEF MsgInv
<1>1. /\ line' \in Nat \ {0} /\ LinesBehind' /\ UNCHANGED <<mkind, file, mkey, qid>>
  BY SentOne DEF SendTo
<1>2. at[r] = "asleep" /\ at' = [at EXCEPT ![r] = AfterReceive(r)] /\ UNCHANGED <<mqueue, note>>
  BY DEF SendTo, Sleeper, Asleep, MGoes
<1>3. AfterReceive(r) \in {"attr", "recv"} /\ (mkind = "sigev" => AfterReceive(r) = "attr")
  BY DEF AfterReceive
<1>4. r \in Proc /\ r # Sender /\ at'[r] = AfterReceive(r) /\ \A v \in Proc \ {r} : at'[v] = at[v]
  BY <1>2, QueueNumbers, MsgAssumption DEF MsgTypes
<1>5. MsgTypes'
  BY <1>1, <1>2, <1>3 DEF MsgTypes, MsgPlaces
<1>6. QueuesKnown'
  BY <1>1, <1>2, <1>3, <1>4, QueueNumbers DEF QueuesKnown, Posix
<1>7. SleepsOnEmpty'
  BY <1>1, <1>2, <1>3, <1>4, SleepStays, QueueNumbers
<1>8. SomebodyLooks'
  <2>1. CASE mkind = "sigev"
    BY <1>1, <1>2, <1>3, <1>4, <2>1, LooksStays
  <2>2. CASE mkind # "sigev"
    BY <1>1, <2>2 DEF SomebodyLooks
  <2> QED BY <2>1, <2>2
<1> QED BY <1>1, <1>5, <1>6, <1>7, <1>8

\* What taking out of a sequence leaves.
LEMMA RemovedIsSeq ==
  ASSUME NEW S, NEW s \in Seq(S), NEW x \in 1 .. Len(s)
  PROVE  RemoveAt(s, x) \in Seq(S)
<1> DEFINE a == SubSeq(s, 1, x - 1)
           b == SubSeq(s, x + 1, Len(s))
<1>1. a \in Seq(S) /\ b \in Seq(S)
  OBVIOUS
<1>2. RemoveAt(s, x) = a \o b
  BY DEF RemoveAt
<1> HIDE DEF a, b
<1> QED BY <1>1, <1>2, ConcatProperties

LEMMA MsgStepReceive ==
  ASSUME MsgInv, NEW r \in Receiver, Receive(r)
  PROVE  MsgInv'
<1> USE DEF MsgInv
<1> DEFINE q0 == qid[r]
           W == Wanted(r, q0)
           x == FirstWanted(W)
           s == mqueue[q0].msgs
           w == RemoveAt(s, x)
<1>1. r \in Proc /\ at[r] = "recv" /\ q0 \in Queue /\ W # {}
  BY QueueNumbers DEF Receive, QueuesKnown
<1>2. /\ mqueue' = [mqueue EXCEPT ![q0].msgs = w]
      /\ at' = [at EXCEPT ![r] = AfterReceive(r)]
      /\ UNCHANGED <<mkind, file, line, mkey, note, qid, sent>>
  BY DEF Receive, MGoes
<1>3. s \in Seq(Message) /\ DOMAIN s = 1 .. Len(s)
  <2>1. s \in Seq(Message)
    BY <1>1, QueuedMessages
  <2> HIDE DEF s
  <2> QED BY <2>1
<1>4. W \in SUBSET (1 .. Len(s))
  BY <1>3 DEF Wanted
<1>5. x \in 1 .. Len(s) /\ s # << >>
  <2>1. W \in SUBSET Nat /\ W # {}
    BY <1>1, <1>4
  <2>2. \E i \in W : \A k \in W : i <= k
    BY <2>1, LeastExists
  <2> HIDE DEF W, s
  <2>3. x \in W
    BY <2>2 DEF FirstWanted
  <2>4. x \in 1 .. Len(s)
    BY <1>4, <2>3
  <2> HIDE DEF x
  <2>5. s # << >>
    BY <1>3, <2>4
  <2> QED BY <2>4, <2>5
<1> HIDE DEF W, x, s
<1>6. w \in Seq(Message)
  BY <1>3, <1>5, RemovedIsSeq
<1> HIDE DEF w, q0
<1>7. /\ mqueue' \in [Queue -> [state : {"none", "live", "gone"}, msgs : Seq(Message)]]
      /\ \A q \in Queue : mqueue'[q].state = mqueue[q].state
      /\ \A q \in Queue \ {q0} : mqueue'[q] = mqueue[q]
  <2>1. mqueue[q0] \in [state : {"none", "live", "gone"}, msgs : Seq(Message)]
        /\ mqueue = [q \in Queue |-> mqueue[q]]
    BY <1>1 DEF MsgTypes
  <2>2. PICK e : e = [mqueue[q0] EXCEPT !.msgs = w]
    OBVIOUS
  <2>3. /\ e \in [state : {"none", "live", "gone"}, msgs : Seq(Message)]
        /\ e.msgs = w /\ e.state = mqueue[q0].state
    BY <1>6, <2>1, <2>2
  <2>4. mqueue' = [mqueue EXCEPT ![q0] = e]
    BY <1>1, <1>2, <2>1, <2>2
  <2> QED BY <1>1, <2>3, <2>4 DEF MsgTypes
<1>8. AfterReceive(r) \in {"attr", "recv"} /\ (mkind = "sigev" => AfterReceive(r) = "attr")
  BY DEF AfterReceive
<1>9. r # Sender /\ at'[r] = AfterReceive(r) /\ \A v \in Proc \ {r} : at'[v] = at[v]
  BY <1>1, <1>2, MsgAssumption DEF MsgTypes
<1>10. MsgTypes'
  BY <1>2, <1>7, <1>8 DEF MsgTypes, MsgPlaces
<1>11. QueuesKnown'
  BY <1>1, <1>2, <1>7, <1>8, <1>9, QueueNumbers DEF QueuesKnown, Posix
<1>12. LinesBehind'
  BY <1>2, LinesStay
<1>13. SleepsOnEmpty'
  <2> SUFFICES ASSUME Posix, NEW v \in Receiver, at'[v] = "asleep" PROVE mqueue'[qid[v]].msgs = << >>
    BY <1>2 DEF SleepsOnEmpty, Posix
  <2>1. at[v] = "asleep" /\ qid[v] \in Queue
    BY <1>8, <1>9, QueueNumbers DEF QueuesKnown
  <2>2. mqueue[qid[v]].msgs = << >>
    BY <2>1 DEF SleepsOnEmpty
  <2>3. qid[v] # q0
    BY <1>5, <2>2 DEF s
  <2> QED BY <1>7, <2>1, <2>2, <2>3
<1>14. SomebodyLooks'
  <2> SUFFICES ASSUME mkind = "sigev", NEW q \in Queue, mqueue'[q].msgs = << >>,
                      note[q] = Nobody, NEW v \in Receiver, qid[v] = q, at'[v] # "exit"
               PROVE  \E u \in Receiver : qid[u] = q /\ at'[u] \in {"attr", "notify"}
    BY <1>2 DEF SomebodyLooks
  <2>1. CASE q = q0
    BY <1>8, <1>9, <2>1 DEF q0
  <2>2. CASE q # q0
    <3>1. mqueue[q].msgs = << >> /\ v # r /\ at[v] # "exit"
      BY <1>7, <1>9, <2>2, QueueNumbers DEF q0
    <3>2. PICK u \in Receiver : qid[u] = q /\ at[u] \in {"attr", "notify"}
      BY <3>1 DEF SomebodyLooks
    <3>3. at'[u] = at[u]
      BY <1>1, <1>9, <3>2, QueueNumbers
    <3> QED BY <3>2, <3>3
  <2> QED BY <2>1, <2>2
<1> QED BY <1>10, <1>11, <1>12, <1>13, <1>14

\* A receiver that finds nothing sleeps, on a POSIX queue because it is empty.
LEMMA MsgStepSleep ==
  ASSUME MsgInv, NEW r \in Receiver, FallAsleep(r)
  PROVE  MsgInv'
<1> USE DEF MsgInv
<1>1. r \in Proc /\ at[r] = "recv" /\ qid[r] \in Queue /\ r # Sender
  BY QueueNumbers, MsgAssumption DEF FallAsleep, QueuesKnown
<1>2. /\ at' = [at EXCEPT ![r] = "asleep"]
      /\ UNCHANGED <<mkind, file, line, mkey, mqueue, note, qid, sent, taken>>
  BY DEF FallAsleep, MGoes
<1>3. at'[r] = "asleep" /\ \A v \in Proc \ {r} : at'[v] = at[v]
  BY <1>1, <1>2 DEF MsgTypes
<1>4. MsgTypes'
  BY <1>2 DEF MsgTypes, MsgPlaces
<1>5. QueuesKnown'
  BY <1>1, <1>2, <1>3, QueueNumbers DEF QueuesKnown, Posix
<1>6. LinesBehind'
  BY <1>2, LinesStay
<1>7. SomebodyLooks'
  BY <1>1, <1>2, <1>3, LooksStays
<1>8. Posix => mqueue[qid[r]].msgs = << >>
  <2>1. PICK s \in Seq(Message) : s = mqueue[qid[r]].msgs
    BY <1>1, QueuedMessages
  <2>2. Posix => DOMAIN s = {}
    BY <2>1 DEF FallAsleep, Wanted, Wants
  <2>3. DOMAIN s = {} => s = << >>
    BY Len(s) \in Nat, DOMAIN s = 1 .. Len(s)
  <2> QED BY <2>1, <2>2, <2>3
<1>9. SleepsOnEmpty'
  BY <1>2, <1>3, <1>8, QueueNumbers DEF SleepsOnEmpty, Posix
<1> QED BY <1>4, <1>5, <1>6, <1>7, <1>9

\* What a receiver does without receiving, and the removal of the name.
LEMMA MsgStepLook ==
  ASSUME MsgInv, NEW r \in Receiver, ReceiveFails(r) \/ GetAttr(r) \/ Notify(r)
  PROVE  MsgInv'
<1> USE DEF MsgInv
<1>1. r \in Proc /\ at[r] \in {"recv", "asleep", "attr", "notify"} /\ qid[r] \in Queue /\ r # Sender
  BY QueueNumbers, MsgAssumption DEF ReceiveFails, GetAttr, Notify, QueuesKnown
<1>2. PICK l \in {"exit", "notify", "recv"} :
        /\ at' = [at EXCEPT ![r] = l]
        /\ UNCHANGED <<mkind, file, line, mkey, mqueue, qid, sent, taken>>
  BY DEF ReceiveFails, GetAttr, Notify, MGoes
<1>3. at'[r] = l /\ \A v \in Proc \ {r} : at'[v] = at[v]
  BY <1>1, <1>2 DEF MsgTypes
<1>4. /\ note' \in [Queue -> Receiver \union {Nobody}]
      /\ \A q \in Queue : note'[q] = Nobody => note[q] = Nobody
      /\ Notify(r) => note'[qid[r]] # Nobody
  <2>1. CASE Notify(r)
    <3>1. note' = [note EXCEPT ![qid[r]] = Registered(@, r)]
      BY <2>1 DEF Notify
    <3>2. /\ Registered(note[qid[r]], r) \in Receiver /\ Registered(note[qid[r]], r) # Nobody
      BY <1>1, MsgAssumption DEF Registered, MsgTypes
    <3> QED BY <1>1, <3>1, <3>2 DEF MsgTypes
  <2>2. CASE ~Notify(r)
    BY <2>2 DEF MsgTypes, ReceiveFails, GetAttr
  <2> QED BY <2>1, <2>2
<1>5. MsgTypes'
  BY <1>2, <1>4 DEF MsgTypes, MsgPlaces
<1>6. QueuesKnown'
  BY <1>1, <1>2, <1>3, QueueNumbers DEF QueuesKnown, Posix
<1>7. LinesBehind' /\ SleepsOnEmpty'
  BY <1>1, <1>2, <1>3, LinesStay, SleepStays, QueueNumbers
<1>8. SomebodyLooks'
  <2> SUFFICES ASSUME mkind = "sigev", NEW q \in Queue, mqueue[q].msgs = << >>,
                      note'[q] = Nobody, NEW v \in Receiver, qid[v] = q, at'[v] # "exit"
               PROVE  \E u \in Receiver : qid[u] = q /\ at'[u] \in {"attr", "notify"}
    BY <1>2 DEF SomebodyLooks
  <2>1. ~ReceiveFails(r)
    BY <1>1 DEF ReceiveFails, QueuesKnown, Posix
  <2>2. at[v] # "exit" /\ note[q] = Nobody
    BY <1>1, <1>3, <1>4, QueueNumbers
  <2>3. PICK u \in Receiver : qid[u] = q /\ at[u] \in {"attr", "notify"}
    BY <2>2 DEF SomebodyLooks
  <2>4. CASE u # r
    BY <1>3, <2>3, <2>4, QueueNumbers
  <2>5. CASE u = r
    <3>1. ~Notify(r)
      BY <1>4, <2>3, <2>5
    <3>2. GetAttr(r)
      BY <2>1, <3>1
    <3>3. at'[r] = "notify"
      BY <1>1, <2>3, <2>5, <3>2 DEF GetAttr, MGoes, MsgTypes
    <3> QED BY <2>3, <2>5, <3>3
  <2> QED BY <2>4, <2>5
<1> QED BY <1>5, <1>6, <1>7, <1>8

LEMMA MsgStepUnlink ==
  ASSUME MsgInv, Unlink \/ UNCHANGED mqvars
  PROVE  MsgInv'
<1>1. (mkey' = 0 \/ mkey' = mkey) /\ UNCHANGED <<mkind, file, line, mqueue, note, at, qid, sent, taken>>
  BY DEF Unlink, mqvars
<1>2. MsgTypes' /\ QueuesKnown' /\ SomebodyLooks' /\ SleepsOnEmpty'
  BY <1>1 DEF MsgInv, MsgTypes, QueuesKnown, SomebodyLooks, SleepsOnEmpty, Posix
<1>3. LinesBehind'
  BY <1>1, LinesStay DEF MsgInv
<1> QED BY <1>2, <1>3 DEF MsgInv

\* The sender leaves no gap in what it sends, and when all receivers of a POSIX queue sleep in
\* mq_receive one of them is registered for the signal and no message waits.  For any number
\* of receivers, any files and any capacity.
THEOREM MessagesCorrect == MsgSpec => []MessagesKept
<1>1. MsgInv /\ [MsgNext]_mqvars => MsgInv'
  <2> SUFFICES ASSUME MsgInv, [MsgNext]_mqvars PROVE MsgInv'
    OBVIOUS
  <2>1. CASE Unlink \/ UNCHANGED mqvars
    BY <2>1, MsgStepUnlink
  <2>2. CASE SenderStep \/ PressKey
    BY <2>2, MsgStepOpenNew, MsgStepOpenAgain, MsgStepSend, MsgStepSendTo, MsgStepEnds, QueueNumbers
    DEF SenderStep
  <2>3. ASSUME NEW r \in Receiver, ReceiverStep(r) PROVE MsgInv'
    BY <2>3, MsgStepOpenNew, MsgStepOpenAgain, MsgStepReceive, MsgStepSleep, MsgStepLook, QueueNumbers
    DEF ReceiverStep
  <2> QED BY <2>1, <2>2, <2>3 DEF MsgNext
<1>2. MsgInv => MessagesKept
  <2> SUFFICES ASSUME MsgInv PROVE NoGaps /\ AsleepIsArmed
    BY DEF MessagesKept
  <2>1. NoGaps
    <3> SUFFICES ASSUME NEW n \in sent, NEW m \in 1 .. n PROVE m \in sent \/ Fate(file[m]) = "skip"
      BY DEF NoGaps
    <3>1. n \in Nat /\ n < line /\ line \in Nat
      BY DEF MsgInv, LinesBehind, MsgTypes
    <3>2. m \in 1 .. line - 1
      BY <3>1
    <3> QED BY <3>2 DEF MsgInv, LinesBehind
  <2>2. AsleepIsArmed
    <3> SUFFICES ASSUME mkind = "sigev", NEW q \in Queue, NEW s \in Receiver, qid[s] = q,
                        at[s] # "exit",
                        \A r \in Receiver : qid[r] = q /\ at[r] # "exit" => r \in Asleep(q)
                 PROVE  note[q] # Nobody /\ mqueue[q].msgs = << >>
      BY DEF AsleepIsArmed
    <3>1. mqueue[q].msgs = << >>
      BY DEF Asleep, MsgInv, SleepsOnEmpty, Posix
    <3>2. ASSUME NEW r \in Receiver, qid[r] = q PROVE at[r] \notin {"attr", "notify"}
      BY <3>2 DEF Asleep
    <3> QED BY <3>1, <3>2 DEF MsgInv, SomebodyLooks
  <2> QED BY <2>1, <2>2
<1> QED BY MsgInitInv, <1>1, <1>2, PTL DEF MsgSpec

(***************************************************************************)
(* The job queue, for any queue size, any set of consumers and any bytes:  *)
(* types, the exact count, no lost wakeup, the reason of every job without  *)
(* an item, and the order of the items until an insertion overwrites one   *)
(* that waits.                                                             *)
(***************************************************************************)

USE QSizeAssumption, BoundAssumption

\* Only a thread inside pthread_cond_wait is in the condition variable's set.
WaitInv == \A b \in waiting : pcB[b] = "wait"

\* A thread whose wait has ended was woken, and at a signal no more can be due than has been
\* inserted.
WokenInv ==
  \A b \in B : /\ pcB[b] = "wait" /\ b \notin waiting => woken[b].by # "nobody"
               /\ woken[b].by = "signal" => woken[b].due <= Len(inserted)

JobInv == PhantomsExplained /\ WokenInv

QInv == TypeOK /\ CountExact /\ WaitInv /\ SleepersSignalled /\ JobInv

\* The insertion loop takes no more items than the buffer has and the queue can hold.
LEMMA RoomType ==
  ASSUME NEW n \in Nat, cnt \in 0 .. MAX_Q_SIZE
  PROVE  /\ Room(n) \in 0 .. n
         /\ cnt + Room(n) \in 0 .. MAX_Q_SIZE
BY DEF Room

\* The empty queue and the running threads satisfy the invariant.
LEMMA InitQ == Init => QInv
<1> SUFFICES ASSUME Init PROVE QInv
  OBVIOUS
<1>1. TypeOK
  <2>1. holds \in [B -> BOOLEAN]
    <3>1. holds = [b \in B |-> FALSE]
      BY DEF Init
    <3> QED
      BY <3>1, Zenon
  <2>2. /\ queue \in [Slot -> Item \union {0}]
        /\ idx \in 0 .. MAX_Q_SIZE /\ cnt \in 0 .. MAX_Q_SIZE
        /\ pcB \in [B -> {"lock", "wait", "job"}]
        /\ reads \in 0 .. MaxRead
    BY DEF Init
  <2>3. inserted \in Seq(Item) /\ pulled \in Seq(Item \union {0})
    BY DEF Init
  <2>4. woken \in [B -> [by : {"nobody", "spurious", "signal"}, due : Nat]]
    BY DEF Init, NotWoken
  <2> QED
    BY <2>1, <2>2, <2>3, <2>4 DEF Init, TypeOK
<1>2. CountExact
  BY DEF Init, CountExact
<1>3. WaitInv /\ SleepersSignalled
  BY DEF Init, WaitInv, SleepersSignalled
<1>4. JobInv
  BY DEF Init, JobInv, PhantomsExplained, WokenInv, NotWoken
<1> QED
  BY <1>1, <1>2, <1>3, <1>4 DEF QInv

\* The insertion loop writes items, and as many as it counts.
LEMMA InsertType ==
  ASSUME TypeOK, NEW buf \in Buf, NEW n \in 0 .. Len(buf), StopsAt(buf, n)
  PROVE  /\ Insert(buf, Room(n)) \in [Slot -> Item \union {0}]
         /\ SubSeq(buf, 1, Room(n)) \in Seq(Item)
         /\ Len(SubSeq(buf, 1, Room(n))) = Room(n)
<1> DEFINE k == Room(n)
<1>1. buf \in Seq(Item \union {NewLine}) /\ Len(buf) \in Nat
  BY BufAssumption
<1>2. k \in 0 .. n
  BY <1>1, RoomType DEF TypeOK
<1>3. \A m \in 1 .. n : buf[m] \in Item
  BY <1>1 DEF StopsAt
<1> HIDE DEF k
<1>4. ASSUME NEW s \in Slot, NEW d \in Nat
      PROVE  (IF d < k THEN buf[d + 1] ELSE queue[s]) \in Item \union {0}
  <2>1. CASE d < k
    <3>1. d + 1 \in 1 .. n
      BY <2>1, <1>1, <1>2
    <3> QED
      BY <3>1, <2>1, <1>3
  <2>2. CASE ~(d < k)
    BY <2>2 DEF TypeOK
  <2> QED
    BY <2>1, <2>2
<1>m. \A s \in Slot : (s - idx) % MAX_Q_SIZE \in Nat
  BY DEF TypeOK, Slot
<1>5. Insert(buf, k) \in [Slot -> Item \union {0}]
  BY <1>4, <1>m DEF Insert
<1>6. SubSeq(buf, 1, k) \in Seq(Item) /\ Len(SubSeq(buf, 1, k)) = k
  <2>1. \A m \in 1 .. k : buf[m] \in Item
    BY <1>2, <1>3
  <2>2. SubSeq(buf, 1, k) = [m \in 1 .. k |-> buf[m]]
    BY <1>1, <1>2
  <2>3. [m \in 1 .. k |-> buf[m]] \in Seq(Item) /\ Len([m \in 1 .. k |-> buf[m]]) = k
    BY <2>1, <1>2
  <2> QED
    BY <2>2, <2>3
<1> QED
  BY <1>5, <1>6 DEF k

\* Pulling one item from a queue that is not empty keeps the invariant.
LEMMA PullQ ==
  ASSUME QInv, NEW b \in B, cnt > 0, b \notin waiting, Pull(b),
         UNCHANGED <<rechecks, pcA, flag_empty, reads, inserted, overlapped>>
  PROVE  QInv'
<1>t. TypeOK /\ CountExact /\ WaitInv /\ SleepersSignalled /\ JobInv
  BY DEF QInv
<1>1. NextIndex \in Slot
  BY <1>t DEF TypeOK, NextIndex, Slot
<1>2. queue[NextIndex] \in Item \union {0}
  BY <1>1, <1>t DEF TypeOK
<1>3. pulled' \in Seq(Item \union {0}) /\ Len(pulled') = Len(pulled) + 1
  BY <1>2, <1>t DEF Pull, TypeOK
<1>w. woken' = [woken EXCEPT ![b] = NotWoken]
      /\ woken' \in [B -> [by : {"nobody", "spurious", "signal"}, due : Nat]]
  BY <1>t DEF Pull, TypeOK, NotWoken
<1>4. TypeOK'
  BY <1>1, <1>3, <1>w, <1>t DEF Pull, TypeOK, Slot
<1>5. CountExact'
  BY <1>3, <1>t DEF Pull, CountExact, TypeOK
<1>6. WaitInv'
  BY <1>t DEF Pull, WaitInv, TypeOK
<1>7. SleepersSignalled'
  BY <1>t DEF Pull, SleepersSignalled
<1>8. JobInv'
  <2>1. Len(pulled) \in Nat /\ inserted' = inserted /\ rechecks' = rechecks
    BY <1>t DEF TypeOK
  <2>2. \A c \in B : c # b => pcB'[c] = pcB[c] /\ holds'[c] = holds[c] /\ woken'[c] = woken[c]
    BY <1>w, <1>t DEF Pull, TypeOK
  <2>3. pcB'[b] = "job" /\ holds'[b] /\ woken'[b].by = "nobody" /\ waiting' = waiting
    BY <1>w, <1>t DEF Pull, TypeOK, NotWoken
  <2>4. PhantomsExplained'
    <3> SUFFICES ASSUME NEW c \in B, pcB'[c] = "job", ~holds'[c]
                 PROVE  /\ ~rechecks'
                        /\ \/ woken'[c].by = "spurious"
                           \/ woken'[c].by = "signal" /\ Len(pulled') >= woken'[c].due
      BY DEF PhantomsExplained
    <3>1. c # b
      BY <2>3
    <3>2. woken[c].due \in Nat
      BY <1>t DEF TypeOK
    <3> QED BY <3>1, <3>2, <2>1, <2>2, <1>3, <1>t DEF JobInv, PhantomsExplained
  <2>5. WokenInv'
    BY <2>1, <2>2, <2>3, <1>t DEF JobInv, WokenInv
  <2> QED BY <2>4, <2>5 DEF JobInv
<1> QED
  BY <1>4, <1>5, <1>6, <1>7, <1>8 DEF QInv

\* Going to sleep on an empty queue keeps the invariant.
LEMMA WaitQ ==
  ASSUME QInv, NEW b \in B, cnt = 0, Wait(b),
         UNCHANGED <<rechecks, pcA, flag_empty, reads, inserted, overlapped>>
  PROVE  QInv'
<1>w. woken' = [woken EXCEPT ![b] = NotWoken]
      /\ woken' \in [B -> [by : {"nobody", "spurious", "signal"}, due : Nat]]
  BY DEF QInv, Wait, TypeOK, NotWoken
<1>1. TypeOK' /\ CountExact' /\ WaitInv' /\ SleepersSignalled'
  BY <1>w DEF QInv, Wait, data, TypeOK, CountExact, WaitInv, SleepersSignalled
<1>2. JobInv'
  BY <1>w DEF QInv, Wait, data, TypeOK, JobInv, PhantomsExplained, WokenInv, NotWoken
<1> QED BY <1>1, <1>2 DEF QInv

\* Every step keeps the invariant.
LEMMA StepQ == QInv /\ [Next]_vars => QInv'
<1> SUFFICES ASSUME QInv, [Next]_vars PROVE QInv'
  OBVIOUS
<1>t. TypeOK /\ CountExact /\ WaitInv /\ SleepersSignalled /\ JobInv
  BY DEF QInv
<1>1. CASE ReadInsert
  <2>0. PICK buf \in Buf : \E n \in 0 .. Len(buf) :
          /\ StopsAt(buf, n)
          /\ queue' = Insert(buf, Room(n))
          /\ cnt' = cnt + Room(n)
          /\ flag_empty' = WasEmpty(Room(n))
          /\ inserted' = inserted \o SubSeq(buf, 1, Room(n))
          /\ overlapped' = (overlapped \/ (cnt > 0 /\ Room(n) > 0))
    BY <1>1 DEF ReadInsert
  <2>1. PICK n \in 0 .. Len(buf) :
          /\ StopsAt(buf, n)
          /\ queue' = Insert(buf, Room(n))
          /\ cnt' = cnt + Room(n)
          /\ flag_empty' = WasEmpty(Room(n))
          /\ inserted' = inserted \o SubSeq(buf, 1, Room(n))
          /\ overlapped' = (overlapped \/ (cnt > 0 /\ Room(n) > 0))
    BY <2>0
  <2>2. /\ queue' \in [Slot -> Item \union {0}]
        /\ SubSeq(buf, 1, Room(n)) \in Seq(Item)
        /\ Len(SubSeq(buf, 1, Room(n))) = Room(n)
    BY <2>1, <1>t, InsertType
  <2>3. Room(n) \in Nat /\ cnt' \in 0 .. MAX_Q_SIZE
    <3>1. n \in Nat
      BY BufAssumption
    <3> QED
      BY <3>1, <2>1, <1>t, RoomType DEF TypeOK
  <2>4. inserted' \in Seq(Item) /\ Len(inserted') = Len(inserted) + Room(n)
    BY <2>1, <2>2, <1>t DEF TypeOK
  <2>5. /\ pcA = "read" /\ pcA' = "signal" /\ reads < MaxRead /\ reads' = reads + 1
        /\ UNCHANGED <<rechecks, idx, waiting, pcB, holds, woken, pulled>>
    BY <1>1 DEF ReadInsert
  <2>6. flag_empty' = (cnt = 0) /\ overlapped' \in BOOLEAN
    BY <2>1 DEF WasEmpty
  <2>7. TypeOK'
    BY <2>2, <2>3, <2>4, <2>5, <2>6, <1>t DEF TypeOK
  <2>8. CountExact'
    <3>1. /\ Len(inserted) \in Nat /\ Len(pulled) \in Nat /\ cnt \in Nat
          /\ cnt = Len(inserted) - Len(pulled)
      BY <1>t DEF TypeOK, CountExact
    <3>2. pulled' = pulled /\ cnt' = cnt + Room(n)
      BY <2>1, <2>5
    <3>3. Len(inserted') = Len(inserted) + Room(n) /\ Room(n) \in Nat /\ Len(pulled') = Len(pulled)
      BY <3>2, <2>3, <2>4
    <3>4. cnt' = Len(inserted') - Len(pulled')
      BY <3>1, <3>2, <3>3
    <3> QED BY <3>4 DEF CountExact
  <2>9. SleepersSignalled'
    <3>1. CASE cnt = 0
      BY <3>1, <2>5, <2>6 DEF SleepersSignalled
    <3>2. CASE cnt > 0
      BY <3>2, <2>5, <1>t DEF SleepersSignalled
    <3> QED
      BY <3>1, <3>2, <1>t DEF TypeOK
  <2>10. WaitInv' /\ PhantomsExplained'
    BY <2>5, <1>t DEF WaitInv, JobInv, PhantomsExplained
  <2>11. WokenInv'
    <3>1. Len(inserted) \in Nat /\ \A b \in B : woken[b].due \in Nat
      BY <1>t DEF TypeOK
    <3>2. \A b \in B : woken[b].due <= Len(inserted) => woken[b].due <= Len(inserted')
      BY <3>1, <2>3, <2>4
    <3> QED BY <3>2, <2>5, <1>t DEF JobInv, WokenInv
  <2> QED
    BY <2>7, <2>8, <2>9, <2>10, <2>11 DEF QInv, JobInv
<1>2. CASE Signal
  <2>1. waiting' \subseteq waiting
    BY <1>2 DEF Signal
  <2>2. flag_empty => waiting' = {}
    BY <1>2, <1>t, SignalAssumption DEF Signal, TypeOK
  <2>3. SleepersSignalled'
    BY <1>2, <2>1, <2>2, <1>t DEF Signal, data, SleepersSignalled
  <2>4. Len(inserted) \in Nat
    BY <1>t DEF TypeOK
  <2>5. /\ woken' \in [B -> [by : {"nobody", "spurious", "signal"}, due : Nat]]
        /\ \A b \in B : woken'[b] = IF b \in waiting \ waiting'
                                   THEN [by |-> "signal", due |-> Len(inserted)] ELSE woken[b]
    BY <1>2, <2>4, <1>t DEF Signal, TypeOK
  <2>6. TypeOK' /\ CountExact' /\ WaitInv'
    BY <1>2, <2>1, <2>5, <1>t DEF Signal, data, TypeOK, CountExact, WaitInv
  <2>7. JobInv'
    <3>1. pcB' = pcB /\ holds' = holds /\ inserted' = inserted /\ pulled' = pulled
          /\ rechecks' = rechecks
      BY <1>2 DEF Signal
    <3>2. PhantomsExplained'
      BY <3>1, <2>5, <1>t DEF WaitInv, JobInv, PhantomsExplained
    <3>3. WokenInv'
      BY <3>1, <2>1, <2>4, <2>5, <1>t DEF WaitInv, JobInv, WokenInv
    <3> QED BY <3>2, <3>3 DEF JobInv
  <2> QED
    BY <2>3, <2>6, <2>7 DEF QInv
<1>3. CASE BrokenPipe
  BY <1>3, <1>t DEF BrokenPipe, data, QInv, TypeOK, CountExact, WaitInv, SleepersSignalled,
                   JobInv, PhantomsExplained, WokenInv
<1>4. ASSUME NEW b \in B, Enter(b) PROVE QInv'
  <2>1. b \notin waiting
    BY <1>4, <1>t DEF Enter, WaitInv
  <2>2. CASE cnt = 0
    BY <2>2, <1>4, WaitQ DEF Enter
  <2>3. CASE cnt # 0
    <3>1. cnt > 0
      BY <2>3, <1>t DEF TypeOK
    <3> QED
      BY <3>1, <2>1, <2>3, <1>4, PullQ DEF Enter
  <2> QED
    BY <2>2, <2>3
<1>5. ASSUME NEW b \in B, Wake(b) PROVE QInv'
  <2>1. CASE cnt > 0
    BY <2>1, <1>5, PullQ DEF Wake
  <2>2. CASE ~(cnt > 0) /\ rechecks
    <3>1. cnt = 0
      BY <2>2, <1>t DEF TypeOK
    <3> QED
      BY <3>1, <2>2, <1>5, WaitQ DEF Wake, NoMoreJob
  <2>3. CASE ~(cnt > 0) /\ ~rechecks
    <3>1. /\ pcB[b] = "wait" /\ b \notin waiting /\ pcB' = [pcB EXCEPT ![b] = "job"]
          /\ UNCHANGED <<rechecks, data, waiting, holds, woken, pulled, inserted, pcA,
                         flag_empty, reads, overlapped>>
      BY <2>3, <1>5 DEF Wake, NoMoreJob, data
    <3>2. TypeOK' /\ CountExact' /\ WaitInv' /\ SleepersSignalled'
      BY <3>1, <1>t DEF data, TypeOK, CountExact, WaitInv, SleepersSignalled
    <3>3. /\ woken[b].by \in {"spurious", "signal"} /\ woken[b].due \in Nat
          /\ woken[b].by = "signal" => woken[b].due <= Len(inserted)
      BY <3>1, <1>t DEF TypeOK, JobInv, WokenInv
    <3>4. Len(pulled) = Len(inserted) /\ Len(inserted) \in Nat
      BY <2>3, <1>t DEF TypeOK, CountExact
    <3>5. PhantomsExplained'
      BY <2>3, <3>1, <3>3, <3>4, <1>t DEF TypeOK, JobInv, PhantomsExplained
    <3>6. WokenInv'
      BY <3>1, <1>t DEF TypeOK, JobInv, WokenInv
    <3> QED BY <3>2, <3>5, <3>6 DEF QInv, JobInv
  <2> QED
    BY <2>1, <2>2, <2>3
<1>6. ASSUME NEW b \in B, ProcessJob(b) PROVE QInv'
  <2>1. woken' \in [B -> [by : {"nobody", "spurious", "signal"}, due : Nat]]
    BY <1>6, <1>t DEF ProcessJob, TypeOK, NotWoken
  <2>2. TypeOK' /\ CountExact' /\ WaitInv' /\ SleepersSignalled'
    BY <1>6, <2>1, <1>t DEF ProcessJob, data, TypeOK, CountExact, WaitInv, SleepersSignalled
  <2>3. JobInv'
    BY <1>6, <1>t DEF ProcessJob, TypeOK, JobInv, PhantomsExplained, WokenInv, NotWoken
  <2> QED BY <2>2, <2>3 DEF QInv
<1>7. ASSUME NEW b \in B, SpuriousWakeup(b) PROVE QInv'
  <2>1. woken' \in [B -> [by : {"nobody", "spurious", "signal"}, due : Nat]]
    BY <1>7, <1>t DEF SpuriousWakeup, TypeOK
  <2>2. TypeOK' /\ CountExact' /\ WaitInv' /\ SleepersSignalled'
    BY <1>7, <2>1, <1>t DEF SpuriousWakeup, data, TypeOK, CountExact, WaitInv, SleepersSignalled
  <2>3. JobInv'
    BY <1>7, <1>t DEF SpuriousWakeup, data, TypeOK, WaitInv, JobInv, PhantomsExplained, WokenInv
  <2> QED BY <2>2, <2>3 DEF QInv
<1>8. CASE UNCHANGED vars
  BY <1>8, <1>t DEF vars, data, QInv, TypeOK, CountExact, WaitInv, SleepersSignalled, JobInv,
                   PhantomsExplained, WokenInv
<1> QED
  BY <1>1, <1>2, <1>3, <1>4, <1>5, <1>6, <1>7, <1>8 DEF Next, Consume

\* The inductive invariant holds in every reachable state.
THEOREM QInvariance == Spec => []QInv
BY InitQ, StepQ, PTL DEF Spec

\* The queue's fields keep their types: cnt never passes MAX_Q_SIZE and idx stays
\* within one past the last slot.
THEOREM TypeCorrect == Spec => []TypeOK
<1>1. QInv => TypeOK
  BY DEF QInv
<1> QED
  BY <1>1, QInvariance, PTL

\* cnt is exactly the number of items inserted and not yet pulled.
THEOREM CountCorrect == Spec => []CountExact
<1>1. QInv => CountExact
  BY DEF QInv
<1> QED
  BY <1>1, QInvariance, PTL

\* No consumer sleeps over items that nobody is going to signal.
THEOREM WakeupNotLost == Spec => []SleepersSignalled
<1>1. QInv => SleepersSignalled
  BY DEF QInv
<1> QED
  BY <1>1, QInvariance, PTL

\* In all three programs a job without an item has one of the named reasons: the program does
\* not test the queue again, and the wakeup was spurious or the others had taken everything.
THEOREM PhantomsCorrect == Spec => []PhantomsExplained
<1>1. QInv => PhantomsExplained
  BY DEF QInv, JobInv
<1> QED
  BY <1>1, QInvariance, PTL
-----------------------------------------------------------------------------
(* The order of the items                                                  *)

\* A position at most one round past the end of the ring.
Ring(x) == IF x >= MAX_Q_SIZE THEN x - MAX_Q_SIZE ELSE x

\* What was pulled is the beginning of what was inserted, and the cnt slots from idx on
\* hold the rest of it.
OrderInv ==
  ~overlapped => /\ \A m \in 1 .. Len(pulled) : pulled[m] = inserted[m]
                 /\ \A j \in 1 .. cnt : queue[Ring(idx + j - 1)] = inserted[Len(pulled) + j]

\* The insertion loop's distance from idx, without the remainder.
LEMMA RingDistance ==
  ASSUME NEW a \in Int, -MAX_Q_SIZE <= a, a < MAX_Q_SIZE
  PROVE  a % MAX_Q_SIZE = IF a < 0 THEN a + MAX_Q_SIZE ELSE a
  OBVIOUS

\* The j-th item of the buffer is in the j-th slot from idx on.
LEMMA InsertPlaces ==
  ASSUME TypeOK, NEW buf, NEW k \in 0 .. MAX_Q_SIZE, NEW j \in 1 .. k
  PROVE  Insert(buf, k)[Ring(idx + j - 1)] = buf[j]
<1>0. Ring(idx + j - 1) \in Slot
  BY DEF TypeOK, Slot, Ring
<1>1. PICK s \in Slot : s = Ring(idx + j - 1)
  BY <1>0
<1>2. s - idx \in Int /\ -MAX_Q_SIZE <= s - idx /\ s - idx < MAX_Q_SIZE
  BY DEF TypeOK, Slot
<1>3. (s - idx) % MAX_Q_SIZE = IF s - idx < 0 THEN s - idx + MAX_Q_SIZE ELSE s - idx
  BY <1>2, RingDistance
<1>4. (s - idx) % MAX_Q_SIZE = j - 1
  BY <1>1, <1>3 DEF TypeOK, Ring
<1> QED BY <1>1, <1>4 DEF Insert

LEMMA InsertNothing == ASSUME TypeOK, NEW buf PROVE Insert(buf, 0) = queue
<1>1. \A s \in Slot : ~((s - idx) % MAX_Q_SIZE < 0)
  BY DEF TypeOK, Slot
<1> QED BY <1>1 DEF Insert, TypeOK

LEMMA InitOrder == Init => OrderInv
  BY DEF Init, OrderInv

LEMMA PullOrder ==
  ASSUME QInv, OrderInv, NEW b \in B, cnt > 0, Pull(b), UNCHANGED <<inserted, overlapped>>
  PROVE  OrderInv'
<1> SUFFICES ASSUME ~overlapped
             PROVE  /\ \A m \in 1 .. Len(pulled') : pulled'[m] = inserted[m]
                    /\ \A j \in 1 .. cnt' : queue'[Ring(idx' + j - 1)] = inserted[Len(pulled') + j]
  BY DEF OrderInv, Ring
<1>t. TypeOK
  BY DEF QInv
<1>a. /\ pulled' = Append(pulled, queue[NextIndex]) /\ idx' = NextIndex + 1 /\ cnt' = cnt - 1
      /\ queue' = queue
  BY DEF Pull
<1>b. NextIndex = Ring(idx + 1 - 1) /\ NextIndex \in Slot
  BY <1>t DEF TypeOK, NextIndex, Ring, Slot
<1>c. queue[NextIndex] = inserted[Len(pulled) + 1]
  <2>1. 1 \in 1 .. cnt
    BY <1>t DEF TypeOK
  <2>2. queue[Ring(idx + 1 - 1)] = inserted[Len(pulled) + 1]
    BY <2>1 DEF OrderInv
  <2> QED BY <1>b, <2>2
<1>d. Len(pulled') = Len(pulled) + 1 /\ Len(pulled) \in Nat
  BY <1>a, <1>t DEF TypeOK
<1>1. \A m \in 1 .. Len(pulled') : pulled'[m] = inserted[m]
  <2> SUFFICES ASSUME NEW m \in 1 .. Len(pulled')
               PROVE  pulled'[m] = inserted[m]
    OBVIOUS
  <2>1. pulled'[m] = IF m = Len(pulled) + 1 THEN queue[NextIndex] ELSE pulled[m]
    BY <1>a, <1>d, <1>t DEF TypeOK
  <2>2. CASE m = Len(pulled) + 1
    BY <1>c, <2>1, <2>2
  <2>3. CASE m # Len(pulled) + 1
    BY <1>d, <2>1, <2>3 DEF OrderInv
  <2> QED BY <2>2, <2>3
<1>2. ASSUME NEW j \in 1 .. cnt'
      PROVE  queue'[Ring(idx' + j - 1)] = inserted[Len(pulled') + j]
  <2>1. j + 1 \in 1 .. cnt /\ Ring(idx' + j - 1) = Ring(idx + (j + 1) - 1)
    BY <1>a, <1>t DEF TypeOK, Ring, NextIndex
  <2>2. queue[Ring(idx + (j + 1) - 1)] = inserted[Len(pulled) + (j + 1)]
    BY <2>1 DEF OrderInv
  <2> QED BY <1>a, <1>d, <2>1, <2>2
<1> QED BY <1>1, <1>2

LEMMA InsertOrder == ASSUME QInv, OrderInv, ReadInsert PROVE OrderInv'
<1> SUFFICES ASSUME ~overlapped'
             PROVE  /\ \A m \in 1 .. Len(pulled') : pulled'[m] = inserted'[m]
                    /\ \A j \in 1 .. cnt' : queue'[Ring(idx' + j - 1)] = inserted'[Len(pulled') + j]
  BY DEF OrderInv, Ring
<1>t. TypeOK /\ CountExact
  BY DEF QInv
<1>0. PICK buf \in Buf : \E n \in 0 .. Len(buf) :
        /\ StopsAt(buf, n) /\ queue' = Insert(buf, Room(n)) /\ cnt' = cnt + Room(n)
        /\ inserted' = inserted \o SubSeq(buf, 1, Room(n))
        /\ overlapped' = (overlapped \/ (cnt > 0 /\ Room(n) > 0))
  BY DEF ReadInsert
<1>1. PICK n \in 0 .. Len(buf) :
        /\ StopsAt(buf, n) /\ queue' = Insert(buf, Room(n)) /\ cnt' = cnt + Room(n)
        /\ inserted' = inserted \o SubSeq(buf, 1, Room(n))
        /\ overlapped' = (overlapped \/ (cnt > 0 /\ Room(n) > 0))
  BY <1>0
<1>2. UNCHANGED <<idx, pulled>>
  BY DEF ReadInsert
<1>b. buf \in Seq(Item \union {NewLine}) /\ Len(buf) \in Nat /\ n \in Nat
  BY BufAssumption
<1>k. PICK k \in 0 .. MAX_Q_SIZE : k = Room(n) /\ k <= n /\ cnt + k <= MAX_Q_SIZE
  <2>1. cnt \in 0 .. MAX_Q_SIZE
    BY <1>t DEF TypeOK
  <2>2. Room(n) \in 0 .. n /\ cnt + Room(n) \in 0 .. MAX_Q_SIZE
    BY <1>b, <2>1, RoomType
  <2>3. Room(n) \in 0 .. MAX_Q_SIZE
    BY <1>b, <2>1, <2>2
  <2> QED BY <1>b, <2>2, <2>3
<1>o. ~overlapped /\ ~(cnt > 0 /\ k > 0)
  BY <1>1, <1>k, Zenon
<1>s. SubSeq(buf, 1, k) \in Seq(Item) /\ Len(SubSeq(buf, 1, k)) = k
  BY <1>1, <1>k, <1>t, InsertType
<1>i. /\ \A m \in 1 .. Len(inserted) : inserted'[m] = inserted[m]
      /\ \A j \in 1 .. k : inserted'[Len(inserted) + j] = buf[j]
  <2>1. \A j \in 1 .. k : SubSeq(buf, 1, k)[j] = buf[j]
    BY <1>b, <1>k
  <2>2. PICK t \in Seq(Item) : t = SubSeq(buf, 1, k)
    BY <1>s
  <2>3. inserted' = inserted \o t /\ inserted \in Seq(Item) /\ Len(t) = k
    BY <1>1, <1>k, <1>s, <1>t, <2>2 DEF TypeOK
  <2>4. \A j \in 1 .. k : (inserted \o t)[Len(inserted) + j] = t[j]
    BY <2>3
  <2>5. \A m \in 1 .. Len(inserted) : (inserted \o t)[m] = inserted[m]
    BY <2>2, <2>3, ConcatProperties
  <2>6. \A j \in 1 .. k : t[j] = buf[j]
    BY <2>1, <2>2
  <2> QED BY <2>3, <2>4, <2>5, <2>6
<1>n. /\ Len(pulled) \in Nat /\ Len(inserted) \in Nat /\ cnt \in Nat
      /\ Len(inserted) = Len(pulled) + cnt
  BY <1>t DEF TypeOK, CountExact
<1>3. \A m \in 1 .. Len(pulled') : pulled'[m] = inserted'[m]
  BY <1>2, <1>i, <1>n, <1>o DEF OrderInv
<1>4. CASE k = 0
  <2>1. queue' = queue /\ cnt' = cnt
    BY <1>1, <1>4, <1>k, <1>n, <1>t, InsertNothing
  <2>2. \A j \in 1 .. cnt : Len(pulled) + j \in 1 .. Len(inserted)
    BY <1>n
  <2> QED BY <1>2, <1>3, <1>i, <1>o, <2>1, <2>2 DEF OrderInv
<1>5. CASE k > 0
  <2>1. cnt = 0 /\ cnt' = k /\ Len(pulled) = Len(inserted)
    BY <1>1, <1>5, <1>k, <1>n, <1>o
  <2>2. \A j \in 1 .. k : queue'[Ring(idx + j - 1)] = buf[j]
    BY <1>1, <1>k, <1>t, InsertPlaces
  <2>3. ASSUME NEW j \in 1 .. cnt'
        PROVE  queue'[Ring(idx' + j - 1)] = inserted'[Len(pulled') + j]
    <3>1. /\ queue'[Ring(idx + j - 1)] = buf[j]
          /\ inserted'[Len(inserted) + j] = buf[j]
      BY <1>i, <2>1, <2>2
    <3>2. Len(pulled') = Len(inserted) /\ idx' = idx
      BY <1>2, <2>1
    <3> QED BY <3>1, <3>2
  <2> QED BY <1>3, <2>3
<1> QED BY <1>4, <1>5

\* Every step keeps the order.
LEMMA StepOrder == QInv /\ OrderInv /\ [Next]_vars => OrderInv'
<1> SUFFICES ASSUME QInv, OrderInv, [Next]_vars PROVE OrderInv'
  OBVIOUS
<1>1. ASSUME UNCHANGED <<data, inserted, pulled, overlapped>> PROVE OrderInv'
  BY <1>1 DEF OrderInv, Ring, data
<1>2. ASSUME NEW b \in B, Enter(b) \/ Wake(b) PROVE OrderInv'
  <2>1. CASE Pull(b) /\ cnt > 0
    BY <1>2, <2>1, PullOrder DEF Enter, Wake
  <2>2. CASE ~(Pull(b) /\ cnt > 0)
    <3>1. cnt = 0 \/ cnt > 0
      BY DEF QInv, TypeOK
    <3> QED BY <1>1, <1>2, <2>2, <3>1 DEF Enter, Wake, Wait, NoMoreJob
  <2> QED BY <2>1, <2>2
<1>3. ASSUME NEW b \in B, ProcessJob(b) \/ SpuriousWakeup(b) PROVE OrderInv'
  BY <1>1, <1>3 DEF ProcessJob, SpuriousWakeup
<1>4. CASE Signal \/ BrokenPipe \/ UNCHANGED vars
  BY <1>1, <1>4 DEF Signal, BrokenPipe, vars, data
<1> QED BY <1>2, <1>3, <1>4, InsertOrder DEF Next, Consume

\* Items come out in the order they went in while each insertion finds the queue drained:
\* for any queue size, across any number of wraps, with any number of consumers.
THEOREM FifoCorrect == Spec => []FifoUnlessOverlapped
<1>1. QInv /\ OrderInv => FifoUnlessOverlapped
  <2> SUFFICES ASSUME QInv, OrderInv, ~overlapped
               PROVE  IsPrefix(pulled, inserted)
    BY DEF FifoUnlessOverlapped
  <2>1. /\ Len(pulled) \in Nat /\ Len(inserted) \in Nat /\ Len(pulled) <= Len(inserted)
        /\ pulled \in Seq(Item \union {0}) /\ inserted \in Seq(Item)
    BY DEF QInv, TypeOK, CountExact
  <2>2. SubSeq(pulled, 1, Len(pulled)) = [m \in 1 .. Len(pulled) |-> pulled[m]]
    BY <2>1
  <2>3. SubSeq(inserted, 1, Len(pulled)) = [m \in 1 .. Len(pulled) |-> inserted[m]]
    BY <2>1
  <2> QED BY <2>1, <2>2, <2>3 DEF IsPrefix, OrderInv
<1> QED
  BY <1>1, InitOrder, InitQ, StepQ, StepOrder, PTL DEF Spec
=============================================================================
