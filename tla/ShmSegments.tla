---------------------------- MODULE ShmSegments ----------------------------
(***************************************************************************)
(* The shared memory samples.  Users run one program at the same time and  *)
(* type text into one segment:                                             *)
(*   "sysv"   sysv_shm: a segment is found by its id, typed in             *)
(*   "posix"  posix_shm: a segment is found by its name                    *)
(*   "mmap"   mmap_ex2, shared or private, and mmap_ex1: a mapped file     *)
(* A segment is two cells, of which a short text fills the first only.     *)
(* Text is known by the user who typed it.                                 *)
(***************************************************************************)
EXTENDS Integers, FiniteSets

CONSTANTS User,
          MaxTyped      \* bound: texts a user types

ASSUME ShmAssumption == IsFiniteSet(User) /\ MaxTyped \in Nat

VARIABLES skind,
          shname,   \* segment the name leads to, 0 for none
          seg,      \* segment -> [state, cells]
          usr,      \* user -> [at, on, mode]: place, segment, "shared" or "private"
          own,      \* user -> the page a private mapping has copied, or NoPage
          copying,  \* user -> [cell, len]: memcpy in progress
          typed,    \* user -> texts typed
          mixed,    \* segments in which two memcpy overlapped
          written   \* segment -> what the texts in their order would make of the cells

shmvars == <<skind, shname, seg, usr, own, copying, typed, mixed, written>>

Segment == 1 .. Cardinality(User)
NoSeg  == 0
NoPage == << >>
Zero   == <<"zero", "zero">>
Idle   == [cell |-> 0, len |-> 0]

ShmAt(k) ==
  /\ skind = k /\ shname = NoSeg
  /\ seg = [g \in Segment |-> [state |-> "none", cells |-> Zero]]
  /\ usr = [u \in User |-> [at |-> "start", on |-> NoSeg, mode |-> "shared"]]
  /\ own = [u \in User |-> NoPage] /\ copying = [u \in User |-> Idle]
  /\ typed = [u \in User |-> 0] /\ mixed = {} /\ written = [g \in Segment |-> Zero]

ShmInit == \E k \in {"sysv", "posix", "mmap"} : ShmAt(k)

Unused == CHOOSE g \in Segment : seg[g].state = "none"
Mapped(g) == {u \in User : usr[u].on = g /\ usr[u].at \in {"loop", "copy"}}
\* An id stays good while a removed segment is attached somewhere.
Attachable(g) == \/ seg[g].state = "live"
                 \/ seg[g].state = "removed" /\ Mapped(g) # {}
Moves(u, l, g) == usr' = [usr EXCEPT ![u] = [at |-> l, on |-> g, mode |-> usr[u].mode]]

----------------------------------------------------------------------------
(* Finding the segment.                                                    *)

\* "c": IPC_PRIVATE makes a new segment each time; without one the user exits.
sysv_shmget(u) ==
  /\ skind = "sysv" /\ usr[u].at = "start"
  /\ \/ Moves(u, "got", Unused) /\ seg' = [seg EXCEPT ![Unused].state = "live"]
     \/ Moves(u, "exit", NoSeg) /\ UNCHANGED seg
  /\ UNCHANGED <<skind, shname, own, copying, typed, mixed, written>>

\* The id of the new segment, which another user may have removed by now, or a number that
\* was typed.  shmat fails with -1, which the test for NULL lets pass.
shmat(u, g) ==
  /\ skind = "sysv"
  /\ usr[u].at = "start" \/ (usr[u].at = "got" /\ g = usr[u].on)
  /\ Moves(u, "loop", IF Attachable(g) THEN g ELSE NoSeg)
  /\ UNCHANGED <<skind, shname, seg, own, copying, typed, mixed, written>>

\* Mutant of AfterCreate: the memory is mapped before it gets its size.
AfterCreateMap == "loop"

AfterCreate == "size"

shm_open(u) ==
  /\ skind = "posix" /\ usr[u].at = "start"
  /\ IF shname = NoSeg
     THEN /\ shname' = Unused /\ seg' = [seg EXCEPT ![Unused].state = "live"]
          /\ Moves(u, AfterCreate, Unused)
     ELSE Moves(u, "again", usr[u].on) /\ UNCHANGED <<shname, seg>>
  /\ UNCHANGED <<skind, own, copying, typed, mixed, written>>

\* The second shm_open, after EEXIST: the name may be gone again.
shm_open_again(u) ==
  /\ skind = "posix" /\ usr[u].at = "again"
  /\ Moves(u, IF shname = NoSeg THEN "exit" ELSE "loop", shname)
  /\ UNCHANGED <<skind, shname, seg, own, copying, typed, mixed, written>>

Sized(g) == skind # "posix" \/ seg[g].state = "sized"

\* When it fails the user exits and leaves the name, and memory without a size.
ftruncate(u) ==
  /\ skind = "posix" /\ usr[u].at = "size"
  /\ \/ /\ Moves(u, "loop", usr[u].on)
        /\ seg' = [seg EXCEPT ![usr[u].on].state = "sized"]
     \/ Moves(u, "failed", usr[u].on) /\ UNCHANGED seg
  /\ UNCHANGED <<skind, shname, own, copying, typed, mixed, written>>

\* open, write and mmap: every start of mmap_ex2 writes the file anew; mmap_ex1 writes
\* behind the mapped part only.
mmap(u, mode) ==
  /\ skind = "mmap" /\ usr[u].at = "start"
  /\ usr' = [usr EXCEPT ![u] = [at |-> "loop", on |-> 1, mode |-> mode]]
  /\ IF mode = "once" THEN UNCHANGED <<seg, written, mixed>>
     ELSE /\ seg' = [seg EXCEPT ![1].cells = <<"contents", "contents">>]
          /\ written' = [written EXCEPT ![1] = <<"contents", "contents">>]
          /\ mixed' = IF \E v \in User : usr[v].at = "copy" THEN mixed \cup {1} ELSE mixed
  /\ UNCHANGED <<skind, shname, own, copying, typed>>

----------------------------------------------------------------------------
(* The input loop.                                                         *)

\* Touching memory that is not there.
Trap(u) ==
  /\ usr[u].at = "loop" /\ (usr[u].on = NoSeg \/ ~Sized(usr[u].on))
  /\ Moves(u, "trapped", usr[u].on)
  /\ UNCHANGED <<skind, shname, seg, own, copying, typed, mixed, written>>

Overlay(cells, u, len) == [k \in 1 .. 2 |-> IF k <= len THEN u ELSE cells[k]]
Private(u) == usr[u].mode = "private"

\* A text is typed: memcpy begins.
Type(u) ==
  /\ usr[u].at = "loop" /\ usr[u].on # NoSeg /\ Sized(usr[u].on) /\ typed[u] < MaxTyped
  /\ typed' = [typed EXCEPT ![u] = @ + 1] /\ Moves(u, "copy", usr[u].on)
  /\ LET g == usr[u].on
         busy == \E v \in Mapped(g) : usr[v].at = "copy" /\ ~Private(v)
     IN \E len \in 1 .. 2 :
          /\ copying' = [copying EXCEPT ![u] = [cell |-> 1, len |-> len]]
          /\ mixed' = IF busy /\ ~Private(u) THEN mixed \cup {g} ELSE mixed
          /\ written' = IF Private(u) THEN written
                        ELSE [written EXCEPT ![g] = Overlay(@, u, len)]
  /\ UNCHANGED <<skind, shname, seg, own>>

WritesBack(u) == ~Private(u)

\* memcpy, one cell at a time; a private mapping copies the page before.  mmap_ex1 ends
\* with its text.
Copy(u) ==
  /\ usr[u].at = "copy"
  /\ LET k == copying[u].cell
         g == usr[u].on
     IN  /\ IF WritesBack(u)
            THEN seg' = [seg EXCEPT ![g].cells[k] = u] /\ UNCHANGED own
            ELSE /\ own' = [own EXCEPT ![u] = [(IF @ = NoPage THEN seg[g].cells ELSE @)
                                                 EXCEPT ![k] = u]]
                 /\ UNCHANGED seg
         /\ IF k < copying[u].len
            THEN copying' = [copying EXCEPT ![u].cell = k + 1] /\ UNCHANGED usr
            ELSE /\ copying' = [copying EXCEPT ![u] = Idle]
                 /\ Moves(u, IF usr[u].mode = "once" THEN "exit" ELSE "loop", usr[u].on)
  /\ UNCHANGED <<skind, shname, typed, mixed, written>>

\* ".": munmap, or the end of the process, and the answer whether to remove the segment.
\* sysv_shmrm only marks it; shm_unlink takes the name, whatever it leads to by now.
Leave(u, remove) ==
  /\ skind # "mmap" /\ usr[u].at = "loop"
  /\ Moves(u, "exit", usr[u].on)
  /\ shname' = IF remove /\ skind = "posix" THEN NoSeg ELSE shname
  /\ seg' = IF remove /\ skind = "sysv" /\ usr[u].on # NoSeg
            THEN [seg EXCEPT ![usr[u].on].state = "removed"] ELSE seg
  /\ UNCHANGED <<skind, own, copying, typed, mixed, written>>

ShmStep(u) ==
  \/ sysv_shmget(u) \/ (\E g \in Segment : shmat(u, g))
  \/ shm_open(u) \/ shm_open_again(u) \/ ftruncate(u)
  \/ (\E mode \in {"shared", "private", "once"} : mmap(u, mode))
  \/ Trap(u) \/ Type(u) \/ Copy(u) \/ (\E b \in BOOLEAN : Leave(u, b))

ShmNext == \E u \in User : ShmStep(u)

ShmSpec == ShmInit /\ [][ShmNext]_shmvars

----------------------------------------------------------------------------
\* What is in a segment is what its texts, each on top of the one before, make of it, with
\* any number of users and private mappings beside; two memcpy at the same time can mix.
TextOnText ==
  \A g \in Segment :
    (\A u \in Mapped(g) : usr[u].at # "copy") /\ g \notin mixed => seg[g].cells = written[g]

\* A user traps only on an id that led to no segment, or on memory that another user has
\* created under the name and has not sized yet, or could not.
TrapHasCause ==
  \A u \in User : usr'[u].at = "trapped" /\ usr[u].at = "loop" =>
    \/ usr[u].on = NoSeg
    \/ \E v \in User \ {u} : usr[v].on = usr[u].on /\ usr[v].at \in {"size", "failed"}

\* Users of a segment see the texts on top of one another and trap only for a cause.
\* Segments begin without text; every step keeps the one and is the other.
SegmentsKept == [][TextOnText' /\ TrapHasCause]_shmvars
=============================================================================
