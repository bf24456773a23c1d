----------------------------- MODULE MctBuffer -----------------------------
(***************************************************************************)
(* The dynamic ring buffer of src/shared/mct_common.c, used by the daemon  *)
(* for messages no client has taken yet (client_ringbuffer) and by the     *)
(* user library for messages the daemon has not taken (startup_buffer).    *)
(*                                                                         *)
(* The memory is modelled cell by cell.  A message m occupies BlockLen[m]  *)
(* consecutive cells (modulo the size): HeadLen cells of MctBufferBlockHead*)
(* and then the payload; its i-th cell holds <<m, i>>.  Sizes leave out    *)
(* the MctBufferHead at the start of the allocation, which holds read,     *)
(* write and count: MinSize = min_size - sizeof(MctBufferHead), and so on. *)
(* Every call runs under the caller's lock, so a call is one step.         *)
(***************************************************************************)
EXTENDS Integers, Sequences

CONSTANTS Msg,        \* the messages that are pushed
          NoMsg,      \* a get that failed
          Mangled,    \* a get whose payload is not the one of its header
          BlockLen,   \* BlockLen[m]: cells of m, header included
          HeadLen,    \* sizeof(MctBufferBlockHead)
          MinSize, MaxSize, StepSize

(* The checks of mct_buffer_init_dynamic; step 0 is the static server.     *)
ASSUME SizeAssumption ==
  /\ MinSize \in Nat \ {0} /\ MaxSize \in Nat /\ StepSize \in Nat
  /\ MinSize <= MaxSize /\ StepSize <= MaxSize

ASSUME BlockAssumption ==
  /\ HeadLen \in Nat \ {0}
  /\ BlockLen \in [Msg -> Nat]
  /\ \A m \in Msg : BlockLen[m] > HeadLen

ASSUME NamesAssumption ==
  NoMsg \notin Msg /\ Mangled \notin Msg /\ NoMsg # Mangled

VARIABLES mem,     \* buf->mem
          size,    \* buf->size
          read, write, count,   \* MctBufferHead
          blocks,  \* auxiliary: the accepted messages still to be removed,
                   \* each with its distance in cells from the read pointer
          last,    \* auxiliary: the last call and what it returned
          oom      \* auxiliary: some malloc has returned NULL

code == <<mem, size, read, write, count>>
vars == <<mem, size, read, write, count, blocks, last, oom>>

Blank == <<NoMsg, 0>>          \* a cell that is cleared or never written
Result(op, m, ok) == [op |-> op, msg |-> m, ok |-> ok]

-----------------------------------------------------------------------------
(* Pointer arithmetic.  A pointer that reaches the end stays at sz: it     *)
(* moves to the start only with the next non-empty block.                  *)

Advance(p, n, sz) == IF p + n <= sz THEN p + n ELSE p + n - sz
Index(p, o, sz)   == IF p + o < sz THEN p + o ELSE p + o - sz

(* mct_buffer_write_block, for the header and the payload of m             *)
WriteBlock(cells, p, m, sz) ==
  [i \in 0 .. sz - 1 |->
     LET o == IF i >= p THEN i - p ELSE i + sz - p
     IN  IF o < BlockLen[m] THEN <<m, o>> ELSE cells[i]]

(* Mutant: a full buffer whose pointers meet is taken for an empty one.    *)
FreeSizeIgnoringFull ==
  IF read > write THEN read - write ELSE size - write + read

(* free_size and used_size as mct_buffer_push3 and mct_buffer_get see them *)
FreeSize == IF read > write THEN read - write
            ELSE IF count # 0 /\ write = read THEN 0
            ELSE size - write + read
UsedSize == IF write > read THEN write - read ELSE size - read + write

-----------------------------------------------------------------------------
(* mct_buffer_increase_size, k times in a row.  The first call moves what  *)
(* lies between the pointers to the start; equal pointers count as a full  *)
(* buffer, whatever count says.                                            *)

(* Mutant: the last step up to MaxSize is not taken.                       *)
CanGrowBelowMax(k) == StepSize # 0 /\ size + (k + 1) * StepSize < MaxSize

CanGrow(k) == StepSize # 0 /\ size + (k + 1) * StepSize <= MaxSize

Moved == IF read < write THEN write - read ELSE size + write - read

GrownSize(k)  == size + k * StepSize
GrownRead(k)  == IF k = 0 THEN read ELSE 0
GrownWrite(k) == IF k = 0 THEN write ELSE Moved
GrownFree(k)  == IF k = 0 THEN FreeSize ELSE GrownSize(k) - Moved

(* Mutant: the memory is extended in place, as realloc does.               *)
GrownMemInPlace(k) ==
  [i \in 0 .. GrownSize(k) - 1 |-> IF i < size THEN mem[i] ELSE Blank]

GrownMem(k)   ==
  IF k = 0 THEN mem
  ELSE [i \in 0 .. GrownSize(k) - 1 |->
          IF i < Moved THEN mem[Index(read, i, size)] ELSE Blank]

(* The growth loop of mct_buffer_push3 for a block of n cells: it has      *)
(* grown k times when it leaves.                                           *)
GrowsBy(k, n) == \A j \in 0 .. k - 1 : GrownFree(j) < n /\ CanGrow(j)

-----------------------------------------------------------------------------
(* The bookkeeping of the auxiliary variable: how far the blocks reach from*)
(* the read pointer, and what is left of them without the first.           *)
BlockEnd(b) == b.off + BlockLen[b.msg]
Extent(bs)  == IF bs = <<>> THEN 0 ELSE BlockEnd(bs[Len(bs)])
WithoutFirst(bs) ==
  IF bs = <<>> THEN <<>>
  ELSE [i \in 1 .. Len(bs) - 1 |->
          [msg |-> bs[i + 1].msg,
           off |-> bs[i + 1].off - BlockLen[bs[1].msg]]]

-----------------------------------------------------------------------------
(* mct_buffer_reset: what was in the buffer is gone.                       *)
Reset == /\ read' = 0 /\ write' = 0 /\ count' = 0
         /\ mem' = [i \in 0 .. size - 1 |-> Blank]
         /\ blocks' = <<>>
         /\ UNCHANGED <<size, oom>>

Init == /\ mem = [i \in 0 .. MinSize - 1 |-> Blank]
        /\ size = MinSize
        /\ read = 0 /\ write = 0 /\ count = 0
        /\ blocks = <<>>
        /\ last = Result("init", NoMsg, TRUE)
        /\ oom = FALSE

PointersInRange == read <= size /\ write <= size

-----------------------------------------------------------------------------
(* mct_buffer_push3                                                        *)

Accept(m, k) ==
  /\ GrowsBy(k, BlockLen[m])
  /\ GrownFree(k) >= BlockLen[m]
  /\ size' = GrownSize(k)
  /\ read' = GrownRead(k)
  /\ mem' = WriteBlock(GrownMem(k), GrownWrite(k), m, GrownSize(k))
  /\ write' = Advance(GrownWrite(k), BlockLen[m], GrownSize(k))
  /\ count' = count + 1
  /\ blocks' = Append(blocks, [msg |-> m, off |-> Extent(blocks)])
  /\ last' = Result("push", m, TRUE)
  /\ UNCHANGED oom

(* Mutant: a failing push leaves the old pointers with the moved memory.   *)
RefuseKeepingPointers(m, k) ==
  /\ GrowsBy(k, BlockLen[m])
  /\ GrownFree(k) < BlockLen[m]
  /\ oom' = (oom \/ CanGrow(k))
  /\ size' = GrownSize(k) /\ mem' = GrownMem(k)
  /\ last' = Result("push", m, FALSE)
  /\ UNCHANGED <<read, write, count, blocks>>

(* The push fails, and leaves the buffer as far grown as the loop came.    *)
Refuse(m, k) ==
  /\ GrowsBy(k, BlockLen[m])
  /\ GrownFree(k) < BlockLen[m]
  /\ oom' = (oom \/ CanGrow(k))
  /\ size' = GrownSize(k) /\ mem' = GrownMem(k)
  /\ read' = GrownRead(k) /\ write' = GrownWrite(k)
  /\ last' = Result("push", m, FALSE)
  /\ UNCHANGED <<count, blocks>>

Push(m) ==
  IF PointersInRange
  THEN \E k \in 0 .. MaxSize : Accept(m, k) \/ Refuse(m, k)
  ELSE Reset /\ last' = Result("push", m, FALSE)

-----------------------------------------------------------------------------
(* mct_buffer_get: mct_buffer_copy keeps the message, mct_buffer_pull and  *)
(* mct_buffer_remove take it out.                                          *)

Op(delete) == IF delete THEN "remove" ELSE "copy"

(* the messages whose header lies at the read pointer: at most one         *)
HeaderAtRead ==
  {m \in Msg : \A i \in 0 .. HeadLen - 1 :
                 mem[Index(read, i, size)] = <<m, i>>}

GetEmpty(delete) ==
  /\ PointersInRange /\ count = 0
  /\ IF write # read THEN Reset ELSE UNCHANGED <<code, blocks, oom>>
  /\ last' = Result(Op(delete), NoMsg, FALSE)

(* the pointer, header and size checks whose failure drops everything      *)
GetCorrupt(delete) ==
  /\ \/ ~PointersInRange
     \/ /\ count # 0
        /\ \/ UsedSize < HeadLen
           \/ \A m \in HeaderAtRead : UsedSize < BlockLen[m]
  /\ Reset
  /\ last' = Result(Op(delete), NoMsg, FALSE)

Payload(m) ==
  IF \A i \in HeadLen .. BlockLen[m] - 1 : mem[Index(read, i, size)] = <<m, i>>
  THEN m ELSE Mangled

(* Mutant: the pointers keep their values in the smaller memory.           *)
MinimizeKeepingPointers ==
  /\ size' = MinSize
  /\ mem' = [i \in 0 .. MinSize - 1 |-> Blank]
  /\ count' = 0
  /\ UNCHANGED <<read, write>>

(* mct_buffer_minimize_size, when the last message has been taken out      *)
Minimize == /\ size' = MinSize
            /\ mem' = [i \in 0 .. MinSize - 1 |-> Blank]
            /\ read' = 0 /\ write' = 0 /\ count' = 0

(* Mutant: the buffer is never made smaller again.                         *)
DeleteWithoutMinimize(m) ==
  /\ read' = Advance(read, BlockLen[m], size)
  /\ count' = count - 1
  /\ UNCHANGED <<mem, size, write, oom>>

Delete(m) ==
  \/ /\ count = 1 /\ size # MinSize
     /\ Minimize
     /\ UNCHANGED oom
  \/ /\ read' = Advance(read, BlockLen[m], size)
     /\ count' = count - 1
     /\ oom' = (oom \/ (count = 1 /\ size # MinSize))
     /\ UNCHANGED <<mem, size, write>>

Get(delete) ==
  \/ GetEmpty(delete)
  \/ GetCorrupt(delete)
  \/ \E m \in HeaderAtRead :
       /\ PointersInRange /\ count # 0
       /\ UsedSize >= HeadLen /\ UsedSize >= BlockLen[m]
       /\ last' = Result(Op(delete), Payload(m), TRUE)
       /\ IF delete
          THEN /\ Delete(m)
               /\ blocks' = WithoutFirst(blocks)
          ELSE UNCHANGED <<code, blocks, oom>>

Next == \/ \E m \in Msg : Push(m)
        \/ \E delete \in BOOLEAN : Get(delete)

Spec == Init /\ [][Next]_vars

-----------------------------------------------------------------------------
(* Properties.                                                             *)

Block == [msg : Msg, off : Int]

(* The pointers stay in 0 .. size (size included: a pointer that reaches   *)
(* the end is not wrapped) and size between its two limits.                *)
TypeOK ==
  /\ size \in MinSize .. MaxSize
  /\ mem \in [0 .. size - 1 -> (Msg \cup {NoMsg}) \X Nat]
  /\ read \in 0 .. size /\ write \in 0 .. size
  /\ count \in Nat
  /\ blocks \in Seq(Block)
  /\ last \in [op : {"init", "push", "copy", "remove"},
               msg : Msg \cup {NoMsg, Mangled}, ok : BOOLEAN]
  /\ oom \in BOOLEAN

(* The layout every call relies on: count is the number of accepted        *)
(* messages still there; they follow each other from the read pointer up   *)
(* to the write pointer, around the end of the memory and through every    *)
(* growth; no cell of theirs has been overwritten.                         *)
Chained(bs) ==
  /\ bs # <<>> => bs[1].off = 0
  /\ \A i \in 1 .. Len(bs) : i > 1 => bs[i].off = BlockEnd(bs[i - 1])
  /\ \A i, j \in 1 .. Len(bs) : i < j => BlockEnd(bs[i]) <= bs[j].off

Placed(sz, r, w, bs) == Extent(bs) <= sz /\ w = Advance(r, Extent(bs), sz)

Intact(cells, sz, r, bs) ==
  \A i \in 1 .. Len(bs) : \A o \in 0 .. BlockLen[bs[i].msg] - 1 :
    cells[Index(r, bs[i].off + o, sz)] = <<bs[i].msg, o>>

Layout == /\ count = Len(blocks)
          /\ Chained(blocks)
          /\ Placed(size, read, write, blocks)
          /\ Intact(mem, size, read, blocks)

(* The buffer behaves as a queue of whole messages: none lost by a failing *)
(* header check, none delivered twice, mangled or out of order, and no     *)
(* push refused by an empty buffer.                                        *)
Fifo == INSTANCE BoundedFifo
          WITH queue <- [i \in 1 .. Len(blocks) |-> blocks[i].msg]
FifoSpec == Fifo!Spec

(* While malloc succeeds, a push is refused only once growing is at its end *)
(* and the message does not fit next to what is stored.                    *)
RefusedOnlyWhenFull ==
  last.op = "push" /\ ~last.ok /\ ~oom =>
    /\ StepSize = 0 \/ size + StepSize > MaxSize
    /\ blocks # <<>> /\ Extent(blocks) + BlockLen[last.msg] > size

(* The memory taken by a burst is given back: while malloc succeeds, an    *)
(* empty buffer has its minimal size again.                                *)
EmptyIsMinimal == count = 0 /\ ~oom => size = MinSize

(* What is handed out is one message, never the header of one with the     *)
(* payload of another, even when the pointers have lost the messages.      *)
NeverMangled == last.msg # Mangled

(* "Read one entry from ringbuffer": a successful read hands out the       *)
(* oldest message that was accepted and not yet removed.                   *)
ReadsOldest ==
  [][last'.op \in {"copy", "remove"} /\ last'.ok =>
       blocks # <<>> /\ last'.msg = blocks[1].msg]_vars
=============================================================================
