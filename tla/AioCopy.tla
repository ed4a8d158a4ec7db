------------------------------ MODULE AioCopy ------------------------------
(***************************************************************************)
(* The file copies of 10.realtime by lists of asynchronous writes:         *)
(*   "wait"    aio_listio: lio_listio waits for the list (LIO_WAIT)        *)
(*   "nowait"  aio_listio built with ASYNCHRONIZED_IO, and aio_listio_sig: *)
(*             LIO_NOWAIT, the control blocks and buffers are used again   *)
(*             at once, while the library may be reading them              *)
(* A block is Width octets.  The library looks at a control block field by *)
(* field and at a buffer octet by octet, the program stores them likewise: *)
(* a field may be of any version that the control block has had since the  *)
(* library began, an octet of any block that the buffer then holds a part  *)
(* of.  The copy is opened without O_TRUNC, over whatever was there.       *)
(***************************************************************************)
EXTENDS Integers, Sequences

CONSTANTS NUM_AIOCB_ARRAY,
          Lengths,      \* lengths of the source, in blocks
          OldLengths    \* lengths of the file that is copied over, in blocks

ASSUME CopyAssumption ==
  NUM_AIOCB_ARRAY \in Nat \ {0, 1} /\ Lengths \subseteq Nat /\ OldLengths \subseteq Nat

VARIABLES cmode,
          blocks,     \* blocks of the source file
          oldblocks,  \* blocks of the file that was there
          pos,        \* blocks read so far
          ret,        \* octets that the last read returned
          rbuf,       \* buffer -> the blocks that it may hold octets of
          aio_blk,    \* control block -> [write, nbytes, offset]
          ix,         \* i
          tot_len,
          asked,      \* control block -> requests that the library has not looked at
          seen,       \* control block -> its versions since the library began to read it
          held,       \* control block -> octets <<place, column>> that are being written
          out,        \* octet of the copy -> <<block, octet of it>>
          cat         \* where the program is

aiovars == <<cmode, blocks, oldblocks, pos, ret, rbuf, aio_blk, ix, tot_len, asked, seen,
             held, out, cat>>

Width   == 2
Nothing == -1   \* no block of the source
Ctl     == 0 .. NUM_AIOCB_ARRAY - 1
\* A control block after memset: LIO_READ of no octets from descriptor 0.  "write" stands for
\* the operation, the descriptor and the buffer (always rbuf of the same index), without any of
\* which no octet is written.
Zeroed  == [write |-> FALSE, nbytes |-> 0, offset |-> 0]

AioAt(k, n, old, at) ==
  /\ cmode = k /\ blocks = n /\ oldblocks = old /\ pos = 0 /\ ret = 0
  /\ rbuf = [b \in Ctl |-> {Nothing}] /\ aio_blk = [b \in Ctl |-> Zeroed]
  /\ ix = 0 /\ tot_len = 0
  /\ asked = [b \in Ctl |-> 0] /\ seen = [b \in Ctl |-> {}] /\ held = [b \in Ctl |-> {}]
  /\ out = [o \in 0 .. Width * old - 1 |-> <<Nothing, o % Width>>] /\ cat = at

AioInit == \E k \in {"wait", "nowait"}, n \in Lengths, old \in OldLengths : AioAt(k, n, old, "read")

\* read begins to fill the buffer ...
ReadStarts ==
  /\ cat = "read" /\ pos < blocks
  /\ rbuf' = [rbuf EXCEPT ![ix] = @ \union {pos}] /\ cat' = "reading"
  /\ UNCHANGED <<cmode, blocks, oldblocks, pos, ret, aio_blk, ix, tot_len, asked, seen, held, out>>

\* ... and returns.
ReadBlock ==
  /\ cat = "reading"
  /\ rbuf' = [rbuf EXCEPT ![ix] = {pos}] /\ pos' = pos + 1 /\ ret' = Width /\ cat' = "got"
  /\ UNCHANGED <<cmode, blocks, oldblocks, aio_blk, ix, tot_len, asked, seen, held, out>>

ReadEnd ==
  /\ cat = "read" /\ pos = blocks
  /\ ret' = 0 /\ cat' = "got"
  /\ UNCHANGED <<cmode, blocks, oldblocks, pos, rbuf, aio_blk, ix, tot_len, asked, seen, held, out>>

\* i == NUM_AIOCB_ARRAY-1 || ret == 0
TimeToWrite == ix = NUM_AIOCB_ARRAY - 1 \/ ret = 0

\* lio_listio hands over the control blocks 0 .. i ...
HandOver ==
  /\ cat = "got" /\ TimeToWrite
  /\ asked' = [b \in Ctl |-> IF b <= ix THEN asked[b] + 1 ELSE asked[b]] /\ cat' = "listed"
  /\ UNCHANGED <<cmode, blocks, oldblocks, pos, ret, rbuf, aio_blk, ix, tot_len, seen, held, out>>

\* ... and returns at once, or when all of them are done.
ListReturns ==
  cmode = "wait" => \A b \in Ctl : asked[b] = 0 /\ seen[b] = {} /\ held[b] = {}

\* Mutant of Filled: the offset is the one behind the block.
FilledBehind == [write |-> TRUE, nbytes |-> ret, offset |-> tot_len + ret]
\* What is stored into a control block for the block just read.
Filled       == [write |-> TRUE, nbytes |-> ret, offset |-> tot_len]

\* The control blocks are stored into, and the library may see any of it: the cleared ones
\* if all are, and the one that is filled in.
Store(cleared, n) ==
  /\ aio_blk' = [b \in Ctl |-> IF b = n THEN Filled ELSE IF cleared THEN Zeroed ELSE aio_blk[b]]
  /\ seen' = [b \in Ctl |-> IF seen[b] = {} THEN {}
                            ELSE seen[b] \union {aio_blk'[b]} \union IF cleared THEN {Zeroed} ELSE {}]
  /\ ix' = n + 1 /\ tot_len' = tot_len + ret /\ cat' = IF ret = 0 THEN "sleep" ELSE "read"
  /\ UNCHANGED <<cmode, blocks, oldblocks, pos, ret, rbuf, asked, held, out>>

\* memset, i = 0, and the block is described by entry 0 and so by buffer 0, wherever it was
\* read into.
ClearList == cat = "listed" /\ ListReturns /\ Store(TRUE, 0)
GoOn    == cat = "got" /\ ~ TimeToWrite /\ Store(FALSE, ix)

\* The library begins to look at a control block that it was handed ...
FetchStarts(b) ==
  /\ asked[b] > 0 /\ seen[b] = {} /\ held[b] = {} /\ cat # "end"
  /\ asked' = [asked EXCEPT ![b] = @ - 1] /\ seen' = [seen EXCEPT ![b] = {aio_blk[b]}]
  /\ UNCHANGED <<cmode, blocks, oldblocks, pos, ret, rbuf, aio_blk, ix, tot_len, held, out, cat>>

\* ... each field of which may be of another version ...
Torn(V) == {[write |-> a.write, nbytes |-> n.nbytes, offset |-> p.offset] : a, n, p \in V}
OctetsOf(c) == IF c.write THEN {<<c.offset + i, i>> : i \in 0 .. c.nbytes - 1} ELSE {}

Fetch(b) ==
  /\ seen[b] # {} /\ cat # "end"
  /\ seen' = [seen EXCEPT ![b] = {}]
  /\ \E c \in Torn(seen[b]) : held' = [held EXCEPT ![b] = OctetsOf(c)]
  /\ UNCHANGED <<cmode, blocks, oldblocks, pos, ret, rbuf, aio_blk, ix, tot_len, asked, out, cat>>

\* ... and copies the buffer, as it is by then.
WriteOctet(b) ==
  /\ cat # "end"
  /\ \E w \in held[b], k \in rbuf[b] :
       /\ held' = [held EXCEPT ![b] = @ \ {w}]
       /\ out' = [o \in DOMAIN out \union {w[1]} |-> IF o = w[1] THEN <<k, w[2]>> ELSE out[o]]
  /\ UNCHANGED <<cmode, blocks, oldblocks, pos, ret, rbuf, aio_blk, ix, tot_len, asked, seen, cat>>

\* sleep(10) is over, or was interrupted by the notification, whether the requests were
\* performed or not.
Finish ==
  /\ cat = "sleep" /\ cat' = "end"
  /\ UNCHANGED <<cmode, blocks, oldblocks, pos, ret, rbuf, aio_blk, ix, tot_len, asked, seen,
                 held, out>>

AioNext == \/ ReadStarts \/ ReadBlock \/ ReadEnd \/ HandOver \/ ClearList \/ GoOn \/ Finish
           \/ \E b \in Ctl : FetchStarts(b) \/ Fetch(b) \/ WriteOctet(b)
AioSpec == AioInit /\ [][AioNext]_aiovars
----------------------------------------------------------------------------
\* An octet that nothing was written over.
OldOctet(o) == o < Width * oldblocks /\ out[o] = <<Nothing, o % Width>>

\* When lio_listio waits, the blocks of the copy are right but for one in NUM_AIOCB_ARRAY - 1:
\* the block that finds the list full was read into the last buffer but is written from the
\* first, which still holds block 0 (aio_listio.c:50 and :70).  What was longer in the file
\* that was there stays (aio_listio.c:44).
CopiedBlocks ==
  cat = "end" /\ cmode = "wait" =>
    /\ DOMAIN out = 0 .. Width * (IF blocks > oldblocks THEN blocks ELSE oldblocks) - 1
    /\ \A o \in DOMAIN out :
         LET k == o \div Width
         IN  IF k < blocks
             THEN out[o] = <<IF k % (NUM_AIOCB_ARRAY - 1) = 0 THEN 0 ELSE k, o % Width>>
             ELSE OldOctet(o)

\* Where lio_listio does not wait, octets may be missing, but one that is written is of the
\* right column of a block of the file.  It is of the block that belongs there, or of a later
\* one that has used its buffer since, or of block 0 where the buffer is the first - with two
\* exceptions, of a control block that was being stored into when the library looked at it
\* (aio_listio.c:66-73): at offset 0 there may be any block, and behind the end of the file
\* there may be block 0.
NeverOlder ==
  \A o \in DOMAIN out :
    LET k == o \div Width
        j == out[o][1]
        N == NUM_AIOCB_ARRAY - 1
    IN  \/ OldOctet(o)
        \/ /\ out[o][2] = o % Width /\ j \in 0 .. blocks - 1 /\ k <= blocks
           /\ \/ k = 0
              \/ k % N = 0 /\ j = 0
              \/ k % N # 0 /\ j >= k /\ j % N = k % N
              \/ k = blocks /\ j = 0

\* Which blocks of the copy are right, and what may stand in place of the others.
CopiesKept == CopiedBlocks /\ NeverOlder
=============================================================================
