-------------------------- MODULE MctBufferProofs --------------------------
(***************************************************************************)
(* Proofs about the ring buffer, for every size, growth step and set of    *)
(* messages.                                                               *)
(***************************************************************************)
EXTENDS MctBuffer, FoldProofs, SequenceTheorems, TLAPS

(* What Reset, Minimize and Init leave in the memory.                      *)
LEMMA BlankTyped ==
  ASSUME NEW sz \in Nat
  PROVE  [i \in 0 .. sz - 1 |-> Blank]
           \in [0 .. sz - 1 -> (Msg \cup {NoMsg}) \X Nat]
BY DEF Blank

(* A growth step count that the loop of mct_buffer_push3 reaches keeps the *)
(* size within MaxSize.                                                    *)
LEMMA GrownSizeBound ==
  ASSUME TypeOK, NEW k \in Nat, NEW n, GrowsBy(k, n)
  PROVE  GrownSize(k) \in size .. MaxSize
<1> USE SizeAssumption DEF TypeOK, GrownSize
<1>1. k * StepSize \in Nat
  BY SMT
<1>2. CASE k = 0
  BY <1>2
<1>3. CASE k > 0
  <2>1. CanGrow(k - 1)
    BY <1>3 DEF GrowsBy
  <2>2. size + ((k - 1) + 1) * StepSize <= MaxSize
    BY <2>1 DEF CanGrow
  <2>3. (k - 1) + 1 = k
    BY <1>3
  <2> QED BY <1>1, <2>2, <2>3
<1> QED BY <1>2, <1>3

(* What mct_buffer_increase_size moves to the start fits the old memory.   *)
LEMMA MovedRange ==
  ASSUME TypeOK
  PROVE  Moved \in 0 .. size
BY SizeAssumption DEF TypeOK, Moved

(* The growth loop leaves pointers inside the grown memory, and a memory of*)
(* the grown size.                                                         *)
LEMMA GrownTyped ==
  ASSUME TypeOK, NEW k \in Nat, NEW n, GrowsBy(k, n)
  PROVE  /\ GrownRead(k) \in 0 .. GrownSize(k)
         /\ GrownWrite(k) \in 0 .. GrownSize(k)
         /\ GrownMem(k) \in [0 .. GrownSize(k) - 1 -> (Msg \cup {NoMsg}) \X Nat]
<1>1. GrownSize(k) \in size .. MaxSize
  BY GrownSizeBound
<1>2. size \in Nat /\ size > 0
  BY SizeAssumption DEF TypeOK
<1>3. Moved \in 0 .. size
  BY MovedRange
<1>4. CASE k = 0
  BY <1>2, <1>4, SizeAssumption DEF TypeOK, GrownRead, GrownWrite, GrownMem, GrownSize
<1>5. CASE k # 0
  <2>1. GrownRead(k) = 0 /\ GrownWrite(k) = Moved
    BY <1>5 DEF GrownRead, GrownWrite
  <2>2. \A i \in 0 .. size - 1 : Index(read, i, size) \in 0 .. size - 1
    BY <1>2 DEF Index, TypeOK
  <2>3. \A i \in 0 .. GrownSize(k) - 1 : i < Moved =>
           mem[Index(read, i, size)] \in (Msg \cup {NoMsg}) \X Nat
    <3> SUFFICES ASSUME NEW i \in 0 .. GrownSize(k) - 1, i < Moved
                 PROVE  mem[Index(read, i, size)] \in (Msg \cup {NoMsg}) \X Nat
      OBVIOUS
    <3>1. i \in 0 .. size - 1
      BY <1>1, <1>2, <1>3
    <3>2. Index(read, i, size) \in 0 .. size - 1
      BY <3>1, <2>2
    <3> QED BY <3>2, Zenon DEF TypeOK
  <2>4. GrownMem(k) = [i \in 0 .. GrownSize(k) - 1 |->
                         IF i < Moved THEN mem[Index(read, i, size)] ELSE Blank]
    BY <1>5 DEF GrownMem
  <2>5. Blank \in (Msg \cup {NoMsg}) \X Nat
    BY DEF Blank
  <2>6. GrownMem(k) \in [0 .. GrownSize(k) - 1 -> (Msg \cup {NoMsg}) \X Nat]
    BY <2>3, <2>4, <2>5, Zenon
  <2> QED BY <1>1, <1>2, <1>3, <2>1, <2>6
<1> QED BY <1>4, <1>5

(* mct_buffer_write_block only writes cells inside the memory.             *)
LEMMA WriteBlockTyped ==
  ASSUME NEW sz \in Nat, NEW p \in 0 .. sz, NEW m \in Msg,
         NEW cells \in [0 .. sz - 1 -> (Msg \cup {NoMsg}) \X Nat]
  PROVE  WriteBlock(cells, p, m, sz)
           \in [0 .. sz - 1 -> (Msg \cup {NoMsg}) \X Nat]
<1> DEFINE o(i) == IF i >= p THEN i - p ELSE i + sz - p
           v(i) == IF o(i) < BlockLen[m] THEN <<m, o(i)>> ELSE cells[i]
<1>1. ASSUME NEW i \in 0 .. sz - 1 PROVE v(i) \in (Msg \cup {NoMsg}) \X Nat
  <2>1. o(i) \in Nat
    BY <1>1
  <2>2. cells[i] \in (Msg \cup {NoMsg}) \X Nat
    BY <1>1
  <2> HIDE DEF o
  <2> QED BY <2>1, <2>2
<1>2. WriteBlock(cells, p, m, sz) = [i \in 0 .. sz - 1 |-> v(i)]
  BY DEF WriteBlock
<1> HIDE DEF v
<1> QED BY <1>1, <1>2

(* A pointer moved over a block that fits stays inside the memory.         *)
LEMMA AdvanceRange ==
  ASSUME NEW sz \in Nat, NEW p \in 0 .. sz, NEW n \in 0 .. sz
  PROVE  Advance(p, n, sz) \in 0 .. sz
BY DEF Advance

(* WithoutFirst shifts a sequence of blocks by one.                        *)
LEMMA WithoutFirstProperties ==
  ASSUME NEW bs \in Seq(Block), bs # <<>>
  PROVE  /\ WithoutFirst(bs) \in Seq(Block)
         /\ Len(WithoutFirst(bs)) = Len(bs) - 1
         /\ \A i \in 1 .. Len(bs) - 1 :
              /\ WithoutFirst(bs)[i].msg = bs[i + 1].msg
              /\ WithoutFirst(bs)[i].off = bs[i + 1].off - BlockLen[bs[1].msg]
<1>1. Len(bs) \in Nat \ {0} /\ \A i \in 1 .. Len(bs) : bs[i] \in Block
  BY EmptySeq, ElementOfSeq
<1> DEFINE n == Len(bs) - 1
           b(i) == [msg |-> bs[i + 1].msg,
                    off |-> bs[i + 1].off - BlockLen[bs[1].msg]]
<1>2. n \in Nat
  BY <1>1
<1>3. ASSUME NEW i \in 1 .. n PROVE b(i) \in Block
  <2>1. bs[i + 1] \in Block /\ bs[1] \in Block
    BY <1>1, <1>3
  <2> QED BY <2>1, BlockAssumption DEF Block
<1>4. WithoutFirst(bs) = [i \in 1 .. n |-> b(i)]
  BY DEF WithoutFirst
<1>5. [i \in 1 .. n |-> b(i)] \in [1 .. n -> Block]
  <2> HIDE DEF b
  <2> QED BY <1>3
<1>6. WithoutFirst(bs) \in Seq(Block)
  <2> HIDE DEF b, n
  <2> QED BY <1>2, <1>4, <1>5, SeqDef
<1>7. DOMAIN WithoutFirst(bs) = 1 .. n
  BY <1>4
<1>8. Len(WithoutFirst(bs)) = n
  <2>1. Len(WithoutFirst(bs)) \in Nat /\ 1 .. Len(WithoutFirst(bs)) = 1 .. n
    BY <1>6, <1>7, LenProperties
  <2> HIDE DEF n
  <2> QED BY <1>2, <2>1
<1> QED BY <1>4, <1>6, <1>8

-----------------------------------------------------------------------------
(* The type invariant, whatever the messages: even a buffer that has lost  *)
(* its messages keeps its pointers inside its memory.                      *)

(* mct_buffer_init_dynamic leaves a well-formed buffer.                    *)
LEMMA InitTypeOK == Init => TypeOK
<1> SUFFICES ASSUME Init PROVE TypeOK
  OBVIOUS
<1>1. mem \in [0 .. size - 1 -> (Msg \cup {NoMsg}) \X Nat]
  BY BlankTyped, SizeAssumption DEF Init
<1>2. blocks \in Seq(Block)
  BY EmptySeq DEF Init
<1> QED BY <1>1, <1>2, SizeAssumption DEF Init, TypeOK, Result

(* mct_buffer_reset, called by any failing check, leaves a well-formed     *)
(* buffer.                                                                 *)
LEMMA ResetTypeOK ==
  ASSUME TypeOK, Reset,
         last' \in [op : {"init", "push", "copy", "remove"},
                    msg : Msg \cup {NoMsg, Mangled}, ok : BOOLEAN]
  PROVE  TypeOK'
<1>1. size \in Nat
  BY SizeAssumption DEF TypeOK
<1>2. mem' \in [0 .. size' - 1 -> (Msg \cup {NoMsg}) \X Nat]
  BY <1>1, BlankTyped DEF Reset
<1>3. blocks' \in Seq(Block)
  BY EmptySeq DEF Reset
<1>4. /\ size' \in MinSize .. MaxSize /\ read' \in 0 .. size'
      /\ write' \in 0 .. size' /\ count' \in Nat /\ oom' \in BOOLEAN
  BY <1>1 DEF TypeOK, Reset
<1> QED BY <1>2, <1>3, <1>4 DEF TypeOK

(* The result recorded for a call has its type.                            *)
LEMMA ResultTyped ==
  ASSUME NEW op \in {"init", "push", "copy", "remove"},
         NEW m \in Msg \cup {NoMsg, Mangled}, NEW ok \in BOOLEAN
  PROVE  Result(op, m, ok) \in [op : {"init", "push", "copy", "remove"},
                                msg : Msg \cup {NoMsg, Mangled}, ok : BOOLEAN]
BY DEF Result

(* A push that stores its message keeps the buffer well-formed: the block  *)
(* it writes fits the grown memory.                                        *)
LEMMA AcceptTypeOK ==
  ASSUME TypeOK, NEW m \in Msg, NEW k \in Nat, Accept(m, k)
  PROVE  TypeOK'
<1> DEFINE n == BlockLen[m]
<1>1. GrownSize(k) \in size .. MaxSize
  BY GrownSizeBound DEF Accept
<1>2. size \in Nat /\ size > 0 /\ size >= MinSize /\ MinSize \in Nat /\ MaxSize \in Nat
  BY SizeAssumption DEF TypeOK
<1>3. /\ GrownRead(k) \in 0 .. GrownSize(k)
      /\ GrownWrite(k) \in 0 .. GrownSize(k)
      /\ GrownMem(k) \in [0 .. GrownSize(k) - 1 -> (Msg \cup {NoMsg}) \X Nat]
  BY GrownTyped DEF Accept
<1>4. GrownFree(k) \in Int /\ GrownFree(k) <= GrownSize(k)
  BY <1>1, <1>2, MovedRange, SizeAssumption
     DEF GrownFree, FreeSize, TypeOK, GrownSize
<1>5. n \in 0 .. GrownSize(k)
  BY <1>1, <1>2, <1>4, BlockAssumption DEF Accept
<1>s. GrownSize(k) \in Nat
  BY <1>1, <1>2
<1>6. mem' \in [0 .. size' - 1 -> (Msg \cup {NoMsg}) \X Nat]
  <2>1. WriteBlock(GrownMem(k), GrownWrite(k), m, GrownSize(k))
          \in [0 .. GrownSize(k) - 1 -> (Msg \cup {NoMsg}) \X Nat]
    BY <1>s, <1>3, WriteBlockTyped
  <2> QED BY <2>1 DEF Accept
<1>7. write' \in 0 .. size' /\ read' \in 0 .. size'
  <2>1. Advance(GrownWrite(k), n, GrownSize(k)) \in 0 .. GrownSize(k)
    BY <1>s, <1>3, <1>5, AdvanceRange
  <2> QED BY <1>3, <2>1 DEF Accept
<1>8. Extent(blocks) \in Int
  <2>1. CASE blocks = <<>>
    BY <2>1 DEF Extent
  <2>2. CASE blocks # <<>>
    <3>1. blocks[Len(blocks)] \in Block
      BY <2>2, EmptySeq, ElementOfSeq DEF TypeOK
    <3> QED BY <2>2, <3>1, BlockAssumption DEF Extent, BlockEnd, Block
  <2> QED BY <2>1, <2>2
<1>9. blocks' \in Seq(Block)
  <2>1. [msg |-> m, off |-> Extent(blocks)] \in Block
    BY <1>8 DEF Block
  <2> QED BY <2>1 DEF Accept, TypeOK
<1>10. last' \in [op : {"init", "push", "copy", "remove"},
                  msg : Msg \cup {NoMsg, Mangled}, ok : BOOLEAN]
  BY ResultTyped DEF Accept
<1>11. size' \in MinSize .. MaxSize
  BY <1>1, <1>2 DEF Accept
<1>12. count' \in Nat /\ oom' \in BOOLEAN
  BY DEF Accept, TypeOK
<1> QED BY <1>6, <1>7, <1>9, <1>10, <1>11, <1>12 DEF TypeOK

(* A push that fails keeps the buffer well-formed, grown as far as the loop*)
(* came.                                                                   *)
LEMMA RefuseTypeOK ==
  ASSUME TypeOK, NEW m \in Msg, NEW k \in Nat, Refuse(m, k)
  PROVE  TypeOK'
<1>1. size' \in MinSize .. MaxSize
  <2>1. GrownSize(k) \in size .. MaxSize
    BY GrownSizeBound DEF Refuse
  <2> QED BY <2>1, SizeAssumption DEF TypeOK, Refuse
<1>2. /\ read' \in 0 .. size' /\ write' \in 0 .. size'
      /\ mem' \in [0 .. size' - 1 -> (Msg \cup {NoMsg}) \X Nat]
  BY GrownTyped DEF Refuse
<1>3. last' \in [op : {"init", "push", "copy", "remove"},
                  msg : Msg \cup {NoMsg, Mangled}, ok : BOOLEAN]
  BY ResultTyped DEF Refuse
<1>4. count' \in Nat /\ blocks' \in Seq(Block) /\ oom' \in BOOLEAN
  BY DEF Refuse, TypeOK, CanGrow
<1> QED BY <1>1, <1>2, <1>3, <1>4 DEF TypeOK

(* The used size that mct_buffer_get computes is at most the memory.       *)
LEMMA UsedSizeRange ==
  ASSUME TypeOK
  PROVE  UsedSize \in 0 .. size
BY SizeAssumption DEF TypeOK, UsedSize

(* A copy, a pull or a removal keeps the buffer well-formed: the size      *)
(* checks bound the block it passes over.                                  *)
LEMMA GetTypeOK ==
  ASSUME TypeOK, NEW delete \in BOOLEAN, Get(delete)
  PROVE  TypeOK'
<1>s. size \in Nat /\ MinSize \in Nat /\ MaxSize \in Nat /\ MinSize <= MaxSize
  BY SizeAssumption DEF TypeOK
<1>1. CASE GetEmpty(delete)
  <2>1. last' \in [op : {"init", "push", "copy", "remove"},
                   msg : Msg \cup {NoMsg, Mangled}, ok : BOOLEAN]
    BY <1>1, ResultTyped DEF GetEmpty, Op
  <2>2. CASE Reset
    BY <2>1, <2>2, ResetTypeOK
  <2>3. CASE UNCHANGED <<code, blocks, oom>>
    BY <2>1, <2>3 DEF TypeOK, code
  <2> QED BY <1>1, <2>2, <2>3 DEF GetEmpty
<1>2. CASE GetCorrupt(delete)
  <2>1. last' \in [op : {"init", "push", "copy", "remove"},
                   msg : Msg \cup {NoMsg, Mangled}, ok : BOOLEAN]
    BY <1>2, ResultTyped DEF GetCorrupt, Op
  <2> QED BY <1>2, <2>1, ResetTypeOK DEF GetCorrupt
<1>3. ASSUME NEW m \in HeaderAtRead,
             PointersInRange /\ count # 0,
             UsedSize >= BlockLen[m],
             last' = Result(Op(delete), Payload(m), TRUE),
             IF delete THEN Delete(m) /\ blocks' = WithoutFirst(blocks)
                       ELSE UNCHANGED <<code, blocks, oom>>
      PROVE  TypeOK'
  <2>0. m \in Msg
    BY DEF HeaderAtRead
  <2>1. last' \in [op : {"init", "push", "copy", "remove"},
                   msg : Msg \cup {NoMsg, Mangled}, ok : BOOLEAN]
    BY <1>3, <2>0, ResultTyped DEF Op, Payload
  <2>2. CASE ~delete
    BY <1>3, <2>1, <2>2 DEF TypeOK, code
  <2>3. CASE delete
    <3>1. blocks' \in Seq(Block)
      <4>1. CASE blocks = <<>>
        BY <1>3, <2>3, <4>1, EmptySeq DEF WithoutFirst
      <4>2. CASE blocks # <<>>
        BY <1>3, <2>3, <4>2, WithoutFirstProperties DEF TypeOK
      <4> QED BY <4>1, <4>2
    <3>2. CASE Minimize /\ UNCHANGED oom
      <4>1. mem' \in [0 .. size' - 1 -> (Msg \cup {NoMsg}) \X Nat]
        BY <3>2, <1>s, BlankTyped DEF Minimize
      <4>2. /\ size' \in MinSize .. MaxSize /\ read' \in 0 .. size'
            /\ write' \in 0 .. size' /\ count' \in Nat /\ oom' \in BOOLEAN
        BY <3>2, <1>s DEF Minimize, TypeOK
      <4> QED BY <2>1, <3>1, <4>1, <4>2 DEF TypeOK
    <3>3. CASE /\ read' = Advance(read, BlockLen[m], size)
               /\ count' = count - 1
               /\ oom' = (oom \/ (count = 1 /\ size # MinSize))
               /\ UNCHANGED <<mem, size, write>>
      <4>1. BlockLen[m] \in 0 .. size
        BY <1>3, <2>0, <1>s, UsedSizeRange, BlockAssumption
      <4>2. read' \in 0 .. size'
        BY <3>3, <4>1, <1>s, AdvanceRange DEF TypeOK
      <4>3. count' \in Nat /\ oom' \in BOOLEAN
        BY <1>3, <3>3 DEF TypeOK
      <4> QED BY <2>1, <3>1, <3>3, <4>2, <4>3 DEF TypeOK
    <3> QED BY <1>3, <2>3, <3>2, <3>3 DEF Delete
  <2> QED BY <2>2, <2>3
<1> QED BY <1>1, <1>2, <1>3 DEF Get

(* TypeOK holds of every reachable state: no call of the ring buffer moves *)
(* a pointer out of the memory or the size out of its limits.              *)
THEOREM TypeCorrect == Spec => []TypeOK
<1>1. Init => TypeOK
  BY InitTypeOK
<1>2. TypeOK /\ [Next]_vars => TypeOK'
  <2> SUFFICES ASSUME TypeOK, [Next]_vars PROVE TypeOK'
    OBVIOUS
  <2>1. CASE UNCHANGED vars
    BY <2>1 DEF vars, TypeOK
  <2>2. ASSUME NEW m \in Msg, Push(m) PROVE TypeOK'
    <3>1. PointersInRange
      BY SizeAssumption DEF TypeOK, PointersInRange
    <3> QED BY <2>2, <3>1, AcceptTypeOK, RefuseTypeOK, SizeAssumption DEF Push
  <2>3. ASSUME NEW delete \in BOOLEAN, Get(delete) PROVE TypeOK'
    BY <2>3, GetTypeOK
  <2> QED BY <2>1, <2>2, <2>3 DEF Next
<1> QED BY <1>1, <1>2, PTL DEF Spec
-----------------------------------------------------------------------------
(* Never the header of one message with the payload of another, however    *)
(* long the messages are.  An empty buffer that grows takes all of its old *)
(* memory for messages, and the pointers no longer say where the accepted  *)
(* ones lie; but what lies in the memory, of messages long gone too, still *)
(* is made of blocks that end: a cell that is not the last of its block is *)
(* followed by the next one, and the write pointer never stands inside a   *)
(* block.  A block whose beginning is overwritten keeps its end, one whose *)
(* end is overwritten has lost its header before.                          *)

Begun(cell) == cell[1] \in Msg /\ cell[2] + 1 < BlockLen[cell[1]]

Before(w, sz) == IF w = 0 THEN sz - 1 ELSE w - 1

Continued(cells, sz) ==
  \A p \in 0 .. sz - 1 :
    Begun(cells[p]) => cells[Index(p, 1, sz)] = <<cells[p][1], cells[p][2] + 1>>

Ended(cells, sz, w) == ~Begun(cells[Before(w, sz)])

WholeBlocks == Continued(mem, size) /\ Ended(mem, size, write)

LEMMA BlankNotBegun == ~Begun(Blank)
BY NamesAssumption DEF Begun, Blank

LEMMA BlankWhole ==
  ASSUME NEW sz \in Nat \ {0}, NEW w \in 0 .. sz
  PROVE  /\ Continued([i \in 0 .. sz - 1 |-> Blank], sz)
         /\ Ended([i \in 0 .. sz - 1 |-> Blank], sz, w)
<1> DEFINE cells == [i \in 0 .. sz - 1 |-> Blank]
<1>1. \A p \in 0 .. sz - 1 : ~Begun(cells[p])
  BY BlankNotBegun
<1>2. Before(w, sz) \in 0 .. sz - 1
  BY DEF Before
<1> QED BY <1>1, <1>2 DEF Continued, Ended

(* The move to the start of a grown memory ends at the write pointer, where*)
(* a block ends.                                                           *)
LEMMA GrownWhole ==
  ASSUME TypeOK, WholeBlocks, NEW k \in Nat, GrownSize(k) \in size .. MaxSize
  PROVE  /\ Continued(GrownMem(k), GrownSize(k))
         /\ Ended(GrownMem(k), GrownSize(k), GrownWrite(k))
<1>1. CASE k = 0
  <2>1. GrownMem(k) = mem /\ GrownSize(k) = size /\ GrownWrite(k) = write
    BY <1>1, SizeAssumption DEF GrownMem, GrownSize, GrownWrite, TypeOK
  <2> QED BY <2>1 DEF WholeBlocks
<1>2. CASE k # 0
  <2> DEFINE sz == GrownSize(k)
             cells == GrownMem(k)
  <2>s. /\ size \in Nat \ {0} /\ sz \in Nat /\ size <= sz
        /\ read \in 0 .. size /\ write \in 0 .. size
    BY SizeAssumption DEF TypeOK
  <2>m. Moved \in 0 .. size
    BY MovedRange
  <2>c. \A i \in 0 .. sz - 1 :
          cells[i] = IF i < Moved THEN mem[Index(read, i, size)] ELSE Blank
    BY <1>2 DEF GrownMem
  <2>w. GrownWrite(k) = Moved
    BY <1>2 DEF GrownWrite
  <2> HIDE DEF sz, cells
  <2>1. ASSUME NEW i \in 0 .. sz - 1, i + 1 = Moved
        PROVE  ~Begun(cells[i])
    <3>1. Index(read, i, size) = Before(write, size)
      BY <2>1, <2>s DEF Moved, Index, Before
    <3> QED BY <2>1, <2>c, <3>1 DEF WholeBlocks, Ended
  <2>2. ASSUME NEW i \in 0 .. sz - 1, i >= Moved
        PROVE  ~Begun(cells[i])
    <3>1. cells[i] = Blank
      BY <2>2, <2>c, <2>m, <2>s
    <3> QED BY <3>1, BlankNotBegun
  <2>3. ASSUME NEW i \in 0 .. sz - 1, Begun(cells[i])
        PROVE  cells[Index(i, 1, sz)] = <<cells[i][1], cells[i][2] + 1>>
    <3>1. i + 1 < Moved
      BY <2>1, <2>2, <2>3, <2>m, <2>s
    <3>2. /\ Index(i, 1, sz) = i + 1
          /\ i + 1 \in 0 .. sz - 1
          /\ Index(read, i, size) \in 0 .. size - 1
          /\ Index(Index(read, i, size), 1, size) = Index(read, i + 1, size)
      BY <3>1, <2>s, <2>m DEF Index
    <3>3. /\ cells[i] = mem[Index(read, i, size)]
          /\ cells[i + 1] = mem[Index(read, i + 1, size)]
      BY <3>1, <3>2, <2>c, <2>m, <2>s
    <3> QED BY <2>3, <3>2, <3>3 DEF WholeBlocks, Continued
  <2>4. Before(Moved, sz) \in 0 .. sz - 1
    BY <2>m, <2>s DEF Before
  <2>5. Before(Moved, sz) + 1 = Moved \/ Before(Moved, sz) >= Moved
    BY <2>m, <2>s DEF Before
  <2>6. ~Begun(cells[Before(Moved, sz)])
    BY <2>1, <2>2, <2>4, <2>5
  <2> QED BY <2>3, <2>6, <2>w DEF Continued, Ended, sz, cells
<1> QED BY <1>1, <1>2

(* A block is written from the end of one block to its own end.            *)
LEMMA WriteWhole ==
  ASSUME NEW sz \in Nat \ {0}, NEW w \in 0 .. sz, NEW m \in Msg,
         NEW cells, BlockLen[m] <= sz, Continued(cells, sz), Ended(cells, sz, w)
  PROVE  /\ Continued(WriteBlock(cells, w, m, sz), sz)
         /\ Ended(WriteBlock(cells, w, m, sz), sz, Advance(w, BlockLen[m], sz))
<1> DEFINE n == BlockLen[m]
           new == WriteBlock(cells, w, m, sz)
           o(i) == IF i >= w THEN i - w ELSE i + sz - w
<1>n. n \in Nat /\ 0 < n /\ n <= sz
  BY BlockAssumption
<1>c. \A i \in 0 .. sz - 1 : new[i] = IF o(i) < n THEN <<m, o(i)>> ELSE cells[i]
  BY DEF WriteBlock
<1>o. \A i \in 0 .. sz - 1 : o(i) \in 0 .. sz - 1
  OBVIOUS
<1>x. \A i \in 0 .. sz - 1 :
        /\ Index(i, 1, sz) \in 0 .. sz - 1
        /\ o(i) # sz - 1 => o(Index(i, 1, sz)) = o(i) + 1
        /\ o(i) = sz - 1 => i = Before(w, sz)
  BY DEF Index, Before
<1> HIDE DEF n, new, o
<1>1. ASSUME NEW i \in 0 .. sz - 1, Begun(new[i])
      PROVE  new[Index(i, 1, sz)] = <<new[i][1], new[i][2] + 1>>
  <2>1. CASE o(i) < n
    <3>1. new[i] = <<m, o(i)>>
      BY <2>1, <1>c
    <3>2. o(i) + 1 < n
      BY <3>1, <1>1 DEF Begun, n
    <3>3. o(Index(i, 1, sz)) = o(i) + 1
      BY <3>2, <1>x, <1>o, <1>n
    <3>4. new[Index(i, 1, sz)] = <<m, o(i) + 1>>
      BY <3>2, <3>3, <1>c, <1>x
    <3> QED BY <3>1, <3>4
  <2>2. CASE ~(o(i) < n)
    <3>1. new[i] = cells[i]
      BY <2>2, <1>c
    <3>2. cells[Index(i, 1, sz)] = <<cells[i][1], cells[i][2] + 1>>
      BY <3>1, <1>1 DEF Continued
    <3>3. o(i) # sz - 1
      BY <3>1, <1>1, <1>x DEF Ended
    <3>4. ~(o(Index(i, 1, sz)) < n)
      BY <2>2, <3>3, <1>x, <1>o, <1>n
    <3> QED BY <3>1, <3>2, <3>4, <1>c, <1>x
  <2> QED BY <2>1, <2>2
<1>2. ~Begun(new[Before(Advance(w, n, sz), sz)])
  <2> DEFINE e == Before(Advance(w, n, sz), sz)
  <2>1. e \in 0 .. sz - 1 /\ o(e) = n - 1
    BY <1>n DEF Advance, Before, o
  <2> HIDE DEF e
  <2>2. new[e] = <<m, n - 1>>
    <3>1. o(e) < n
      BY <2>1, <1>n
    <3>2. new[e] = <<m, o(e)>>
      BY <2>1, <3>1, <1>c
    <3> QED BY <2>1, <3>2
  <2>3. ~Begun(<<m, n - 1>>)
    BY <1>n DEF Begun, n
  <2> QED BY <2>2, <2>3 DEF e
<1> QED BY <1>1, <1>2 DEF Continued, Ended, new, n

(* A message whose header is at the read pointer is there to its end.      *)
LEMMA HeaderHasPayload ==
  ASSUME TypeOK, WholeBlocks, NEW m \in HeaderAtRead, BlockLen[m] <= size
  PROVE  Payload(m) = m
<1> DEFINE n == BlockLen[m]
           Read == {o \in Nat : o < n => mem[Index(read, o, size)] = <<m, o>>}
<1>m. /\ m \in Msg
      /\ \A i \in 0 .. HeadLen - 1 : mem[Index(read, i, size)] = <<m, i>>
  BY DEF HeaderAtRead
<1>n. n \in Nat /\ n <= size /\ HeadLen \in Nat \ {0}
  BY <1>m, BlockAssumption
<1>s. size \in Nat /\ read \in 0 .. size
  BY SizeAssumption DEF TypeOK
<1>1. 0 \in Read
  BY <1>m, <1>n
<1>2. ASSUME NEW o \in Nat, o \in Read
      PROVE  o + 1 \in Read
  <2> SUFFICES ASSUME o + 1 < n
               PROVE  mem[Index(read, o + 1, size)] = <<m, o + 1>>
    OBVIOUS
  <2>1. mem[Index(read, o, size)] = <<m, o>>
    BY <1>2, <1>n
  <2>2. Begun(<<m, o>>)
    BY <1>m DEF Begun
  <2>3. /\ Index(read, o, size) \in 0 .. size - 1
        /\ Index(Index(read, o, size), 1, size) = Index(read, o + 1, size)
    BY <1>n, <1>s DEF Index
  <2> QED BY <2>1, <2>2, <2>3 DEF WholeBlocks, Continued
<1>3. \A o \in Nat : o \in Read
  <2> HIDE DEF Read
  <2> QED BY <1>1, <1>2, NumberInduction
<1>4. \A i \in HeadLen .. n - 1 : mem[Index(read, i, size)] = <<m, i>>
  BY <1>3, <1>n
<1> QED BY <1>4 DEF Payload

LEMMA PushWhole ==
  ASSUME TypeOK, WholeBlocks, NEW m \in Msg, Push(m)
  PROVE  WholeBlocks' /\ last'.msg = m
<1>1. PointersInRange
  BY SizeAssumption DEF TypeOK, PointersInRange
<1>2. ASSUME NEW k \in 0 .. MaxSize, Accept(m, k)
      PROVE  WholeBlocks' /\ last'.msg = m
  <2>k. k \in Nat
    BY <1>2, SizeAssumption
  <2>1. GrownSize(k) \in size .. MaxSize
    BY <1>2, <2>k, GrownSizeBound DEF Accept
  <2>2. /\ Continued(GrownMem(k), GrownSize(k))
        /\ Ended(GrownMem(k), GrownSize(k), GrownWrite(k))
    BY <2>k, <2>1, GrownWhole
  <2>3. GrownSize(k) \in Nat \ {0} /\ GrownWrite(k) \in 0 .. GrownSize(k)
    <3>1. GrownSize(k) \in Nat \ {0}
      BY <2>1, SizeAssumption DEF TypeOK
    <3>2. GrowsBy(k, BlockLen[m])
      BY <1>2 DEF Accept
    <3> QED BY <3>1, <3>2, <2>k, GrownTyped
  <2>4. BlockLen[m] <= GrownSize(k)
    <3>1. BlockLen[m] \in Nat /\ BlockLen[m] <= GrownFree(k)
      BY <1>2, BlockAssumption DEF Accept
    <3>2. GrownFree(k) \in Int /\ GrownFree(k) <= GrownSize(k)
      BY <2>k, <2>1, SizeAssumption, MovedRange
         DEF GrownFree, FreeSize, GrownSize, TypeOK
    <3> QED BY <3>1, <3>2, <2>1, SizeAssumption DEF TypeOK
  <2>5. WholeBlocks'
    BY <1>2, <2>2, <2>3, <2>4, WriteWhole DEF Accept, WholeBlocks
  <2> QED BY <1>2, <2>5 DEF Accept, Result
<1>3. ASSUME NEW k \in 0 .. MaxSize, Refuse(m, k)
      PROVE  WholeBlocks' /\ last'.msg = m
  <2>k. k \in Nat
    BY <1>3, SizeAssumption
  <2>1. GrownSize(k) \in size .. MaxSize
    BY <1>3, <2>k, GrownSizeBound DEF Refuse
  <2> QED BY <1>3, <2>k, <2>1, GrownWhole DEF Refuse, WholeBlocks, Result
<1> QED BY <1>1, <1>2, <1>3 DEF Push

LEMMA GetWhole ==
  ASSUME TypeOK, WholeBlocks, NEW delete \in BOOLEAN, Get(delete)
  PROVE  WholeBlocks' /\ last'.msg # Mangled
<1>s. size \in Nat \ {0} /\ MinSize \in Nat \ {0}
  BY SizeAssumption DEF TypeOK
<1>r. Reset => WholeBlocks'
  BY <1>s, BlankWhole DEF Reset, WholeBlocks
<1>u. UNCHANGED code => WholeBlocks'
  BY DEF code, WholeBlocks
<1>1. CASE GetEmpty(delete)
  BY <1>1, <1>r, <1>u, NamesAssumption DEF GetEmpty, Result
<1>2. CASE GetCorrupt(delete)
  BY <1>2, <1>r, NamesAssumption DEF GetCorrupt, Result
<1>3. ASSUME NEW m \in HeaderAtRead,
             UsedSize >= BlockLen[m],
             last' = Result(Op(delete), Payload(m), TRUE),
             IF delete THEN Delete(m) /\ blocks' = WithoutFirst(blocks)
                       ELSE UNCHANGED <<code, blocks, oom>>
      PROVE  WholeBlocks' /\ last'.msg # Mangled
  <2>1. m \in Msg
    BY DEF HeaderAtRead
  <2>2. BlockLen[m] <= size
    BY <1>3, <1>s, <2>1, UsedSizeRange, BlockAssumption
  <2>3. last'.msg = m
    BY <1>3, <2>2, HeaderHasPayload DEF Result
  <2>4. Minimize => WholeBlocks'
    BY <1>s, BlankWhole DEF Minimize, WholeBlocks
  <2>5. UNCHANGED <<mem, size, write>> => WholeBlocks'
    BY DEF WholeBlocks
  <2> QED BY <1>3, <1>u, <2>1, <2>3, <2>4, <2>5, NamesAssumption DEF Delete
<1> QED BY <1>1, <1>2, <1>3 DEF Get

(* mct_buffer_get hands out one message or none, never the header of one   *)
(* with the payload of another, for any messages and sizes: also when an   *)
(* empty buffer has grown and the pointers have lost the messages.         *)
THEOREM NeverMangledCorrect == Spec => []NeverMangled
<1> DEFINE Whole == WholeBlocks /\ NeverMangled
<1>1. Init => Whole
  BY SizeAssumption, BlankWhole, NamesAssumption
     DEF Init, WholeBlocks, NeverMangled, Result
<1>2. TypeOK /\ Whole /\ [Next]_vars => Whole'
  <2> SUFFICES ASSUME TypeOK, Whole, [Next]_vars PROVE Whole'
    OBVIOUS
  <2>1. CASE UNCHANGED vars
    BY <2>1 DEF vars, WholeBlocks, NeverMangled
  <2>2. ASSUME NEW m \in Msg, Push(m) PROVE Whole'
    BY <2>2, PushWhole, NamesAssumption DEF NeverMangled
  <2>3. ASSUME NEW delete \in BOOLEAN, Get(delete) PROVE Whole'
    BY <2>3, GetWhole DEF NeverMangled
  <2> QED BY <2>1, <2>2, <2>3 DEF Next
<1>3. Spec => []TypeOK
  BY TypeCorrect
<1> QED BY <1>1, <1>2, <1>3, PTL DEF Spec

-----------------------------------------------------------------------------
(* The ring buffer is a queue of whole messages, for every set of messages *)
(* that fit its minimal size, every growth step and every limit.           *)

(* What the daemon and the user library see to with their default sizes,   *)
(* and what keeps an empty buffer from ever growing.                       *)
EveryBlockFits == \A m \in Msg : BlockLen[m] <= MinSize

-----------------------------------------------------------------------------
(* The bookkeeping of blocks.                                              *)

(* Blocks that follow each other from offset 0 lie between 0 and Extent.   *)
LEMMA ChainedBounds ==
  ASSUME NEW bs \in Seq(Block), Chained(bs)
  PROVE  /\ Len(bs) \in Nat
         /\ Extent(bs) \in Nat
         /\ \A i \in 1 .. Len(bs) :
              /\ bs[i].msg \in Msg /\ bs[i].off \in Nat
              /\ BlockEnd(bs[i]) \in Nat /\ BlockEnd(bs[i]) <= Extent(bs)
         /\ bs # <<>> => /\ 1 \in 1 .. Len(bs) /\ bs[1].off = 0
                         /\ BlockLen[bs[1].msg] <= Extent(bs)
                         /\ Extent(bs) > HeadLen
<1>0. Len(bs) \in Nat
  OBVIOUS
<1>1. ASSUME NEW i \in 1 .. Len(bs)
      PROVE  /\ bs[i].msg \in Msg /\ bs[i].off \in Int
             /\ BlockLen[bs[i].msg] \in Nat /\ BlockLen[bs[i].msg] > HeadLen
             /\ BlockEnd(bs[i]) = bs[i].off + BlockLen[bs[i].msg]
  <2>1. bs[i] \in Block
    BY <1>1, ElementOfSeq
  <2> QED BY <2>1, BlockAssumption DEF Block, BlockEnd
<1>2. CASE bs = <<>>
  BY <1>2 DEF Extent
<1>3. CASE bs # <<>>
  <2>1. Len(bs) >= 1
    BY <1>0, <1>3, EmptySeq
  <2>2. 1 \in 1 .. Len(bs) /\ Len(bs) \in 1 .. Len(bs)
    BY <1>0, <2>1
  <2>3. Extent(bs) = BlockEnd(bs[Len(bs)]) /\ bs[1].off = 0
    BY <1>3 DEF Extent, Chained
  <2>4. \A i, j \in 1 .. Len(bs) : i < j => BlockEnd(bs[i]) <= bs[j].off
    BY DEF Chained
  <2>5. HeadLen \in Nat
    BY BlockAssumption
  <2>6. ASSUME NEW i \in 1 .. Len(bs)
        PROVE  bs[i].off >= 0 /\ BlockEnd(bs[i]) <= Extent(bs)
    <3>1. bs[i].off >= 0
      <4>1. CASE i = 1
        BY <4>1, <2>3
      <4>2. CASE i > 1
        BY <4>2, <2>2, <2>3, <2>4, <2>5, <1>1
      <4> QED BY <1>0, <4>1, <4>2
    <3>2. BlockEnd(bs[i]) <= Extent(bs)
      <4>1. CASE i = Len(bs)
        BY <4>1, <2>2, <2>3, <1>1, <2>5
      <4>2. CASE i < Len(bs)
        BY <4>2, <2>2, <2>3, <2>4, <2>5, <1>1
      <4> QED BY <1>0, <4>1, <4>2
    <3> QED BY <3>1, <3>2
  <2>7. Extent(bs) \in Nat
    BY <1>1, <2>2, <2>3, <2>5, <2>6
  <2>8. /\ BlockLen[bs[1].msg] <= Extent(bs) /\ Extent(bs) > HeadLen
    BY <1>1, <2>2, <2>3, <2>5, <2>6, <2>7
  <2> QED BY <1>0, <1>1, <2>2, <2>3, <2>5, <2>6, <2>7, <2>8
<1> QED BY <1>2, <1>3

(* The block that mct_buffer_push3 stores follows the others.              *)
LEMMA AppendChained ==
  ASSUME NEW bs \in Seq(Block), Chained(bs), NEW m \in Msg
  PROVE  LET b == [msg |-> m, off |-> Extent(bs)] IN
         /\ Append(bs, b) \in Seq(Block) /\ Chained(Append(bs, b))
         /\ Extent(Append(bs, b)) = Extent(bs) + BlockLen[m]
         /\ Len(Append(bs, b)) = Len(bs) + 1
         /\ Append(bs, b)[Len(bs) + 1] = b
         /\ \A i \in 1 .. Len(bs) : Append(bs, b)[i] = bs[i]
<1> DEFINE b == [msg |-> m, off |-> Extent(bs)]
           cs == Append(bs, b)
<1>1. /\ Len(bs) \in Nat /\ Extent(bs) \in Nat
      /\ \A i \in 1 .. Len(bs) : BlockEnd(bs[i]) \in Nat /\ BlockEnd(bs[i]) <= Extent(bs)
      /\ bs # <<>> => bs[1].off = 0
  BY ChainedBounds
<1>2. b \in Block /\ b.msg = m /\ b.off = Extent(bs)
  BY <1>1 DEF Block
<1>3. /\ cs \in Seq(Block) /\ Len(cs) = Len(bs) + 1 /\ cs[Len(bs) + 1] = b
      /\ \A i \in 1 .. Len(bs) : cs[i] = bs[i]
  BY <1>2, AppendProperties
<1>4. BlockEnd(b) = Extent(bs) + BlockLen[m]
  BY <1>2 DEF BlockEnd
<1> HIDE DEF b, cs
<1>5. Extent(cs) = Extent(bs) + BlockLen[m]
  <2>1. cs # <<>>
    BY <1>1, <1>3, EmptySeq
  <2> QED BY <2>1, <1>3, <1>4 DEF Extent
<1>6. cs[1].off = 0
  <2>1. CASE bs = <<>>
    <3>1. Len(bs) = 0 /\ Extent(bs) = 0
      BY <2>1, EmptySeq DEF Extent
    <3> QED BY <3>1, <1>2, <1>3
  <2>2. CASE bs # <<>>
    <3>1. 1 \in 1 .. Len(bs)
      BY <2>2, <1>1, EmptySeq
    <3> QED BY <3>1, <2>2, <1>1, <1>3
  <2> QED BY <2>1, <2>2
<1>7. ASSUME NEW i \in 1 .. Len(cs), i > 1 PROVE cs[i].off = BlockEnd(cs[i - 1])
  <2>1. CASE i = Len(bs) + 1
    <3>1. Len(bs) >= 1 /\ Len(bs) \in 1 .. Len(bs) /\ bs # <<>> /\ i - 1 = Len(bs)
      BY <1>1, <1>7, <2>1, EmptySeq
    <3>2. Extent(bs) = BlockEnd(bs[Len(bs)])
      BY <3>1 DEF Extent
    <3> QED BY <3>1, <3>2, <2>1, <1>2, <1>3
  <2>2. CASE i <= Len(bs)
    <3>1. i \in 1 .. Len(bs) /\ i - 1 \in 1 .. Len(bs)
      BY <1>1, <1>7, <2>2
    <3>2. bs[i].off = BlockEnd(bs[i - 1])
      BY <3>1, <1>7 DEF Chained
    <3> QED BY <3>1, <3>2, <1>3
  <2> QED BY <1>1, <1>3, <1>7, <2>1, <2>2
<1>8. ASSUME NEW i \in 1 .. Len(cs), NEW j \in 1 .. Len(cs), i < j
      PROVE  BlockEnd(cs[i]) <= cs[j].off
  <2>0. i \in 1 .. Len(bs)
    BY <1>1, <1>3, <1>8
  <2>1. CASE j = Len(bs) + 1
    BY <2>0, <2>1, <1>1, <1>2, <1>3
  <2>2. CASE j <= Len(bs)
    <3>1. j \in 1 .. Len(bs)
      BY <1>1, <2>2
    <3>2. BlockEnd(bs[i]) <= bs[j].off
      BY <2>0, <3>1, <1>8 DEF Chained
    <3> QED BY <2>0, <3>1, <3>2, <1>3
  <2> QED BY <1>1, <1>3, <2>1, <2>2
<1>9. Chained(cs)
  BY <1>6, <1>7, <1>8 DEF Chained
<1> QED BY <1>3, <1>5, <1>9 DEF b, cs

(* The blocks that are left when the first is removed follow each other.   *)
LEMMA WithoutFirstChained ==
  ASSUME NEW bs \in Seq(Block), Chained(bs), bs # <<>>
  PROVE  /\ Chained(WithoutFirst(bs))
         /\ Extent(WithoutFirst(bs)) = Extent(bs) - BlockLen[bs[1].msg]
<1> DEFINE n == BlockLen[bs[1].msg]
           cs == WithoutFirst(bs)
<1>1. /\ Len(bs) \in Nat /\ Len(bs) >= 1 /\ 1 \in 1 .. Len(bs)
      /\ n \in Nat /\ bs[1].off = 0
      /\ \A i \in 1 .. Len(bs) : /\ bs[i].off \in Nat /\ bs[i].msg \in Msg
                                 /\ BlockLen[bs[i].msg] \in Nat
                                 /\ BlockEnd(bs[i]) \in Nat
                                 /\ BlockEnd(bs[i]) = bs[i].off + BlockLen[bs[i].msg]
  BY ChainedBounds, BlockAssumption DEF BlockEnd
<1>2. /\ cs \in Seq(Block) /\ Len(cs) = Len(bs) - 1
      /\ \A i \in 1 .. Len(cs) : /\ cs[i].msg = bs[i + 1].msg
                                 /\ cs[i].off = bs[i + 1].off - n
  BY WithoutFirstProperties
<1> HIDE DEF n, cs
<1>3. \A i \in 1 .. Len(cs) : i + 1 \in 1 .. Len(bs) /\ BlockEnd(cs[i]) = BlockEnd(bs[i + 1]) - n
  <2> SUFFICES ASSUME NEW i \in 1 .. Len(cs)
               PROVE  i + 1 \in 1 .. Len(bs) /\ BlockEnd(cs[i]) = BlockEnd(bs[i + 1]) - n
    OBVIOUS
  <2>1. i + 1 \in 1 .. Len(bs)
    BY <1>1, <1>2
  <2>2. BlockEnd(cs[i]) = cs[i].off + BlockLen[cs[i].msg]
    BY DEF BlockEnd
  <2>3. BlockEnd(bs[i + 1]) = bs[i + 1].off + BlockLen[bs[i + 1].msg]
    BY DEF BlockEnd
  <2> QED BY <2>1, <2>2, <2>3, <1>1, <1>2
<1>4. cs # <<>> => cs[1].off = 0
  <2> SUFFICES ASSUME cs # <<>> PROVE cs[1].off = 0
    OBVIOUS
  <2>1. 1 \in 1 .. Len(cs) /\ 2 \in 1 .. Len(bs)
    BY <1>1, <1>2, EmptySeq
  <2>2. bs[2].off = BlockEnd(bs[1])
    BY <2>1 DEF Chained
  <2> QED BY <2>1, <2>2, <1>1, <1>2 DEF n
<1>5. ASSUME NEW i \in 1 .. Len(cs), i > 1 PROVE cs[i].off = BlockEnd(cs[i - 1])
  <2>1. i - 1 \in 1 .. Len(cs) /\ i + 1 \in 1 .. Len(bs) /\ (i - 1) + 1 = i /\ (i + 1) - 1 = i
    BY <1>1, <1>2, <1>5
  <2>2. bs[i + 1].off = BlockEnd(bs[i])
    BY <2>1, <1>5 DEF Chained
  <2> QED BY <2>1, <2>2, <1>2, <1>3
<1>6. ASSUME NEW i \in 1 .. Len(cs), NEW j \in 1 .. Len(cs), i < j
      PROVE  BlockEnd(cs[i]) <= cs[j].off
  <2>1. i + 1 \in 1 .. Len(bs) /\ j + 1 \in 1 .. Len(bs) /\ i + 1 < j + 1
    BY <1>1, <1>2, <1>6
  <2>2. BlockEnd(bs[i + 1]) <= bs[j + 1].off
    BY <2>1 DEF Chained
  <2>3. BlockEnd(bs[i + 1]) \in Nat /\ bs[j + 1].off \in Nat
    BY <2>1, <1>1
  <2>4. BlockEnd(cs[i]) = BlockEnd(bs[i + 1]) - n /\ cs[j].off = bs[j + 1].off - n
    BY <1>2, <1>3
  <2>5. n \in Nat
    BY <1>1
  <2> QED BY <2>2, <2>3, <2>4, <2>5
<1>7. Extent(cs) = Extent(bs) - n
  <2>1. CASE cs = <<>>
    <3>1. Len(bs) = 1
      BY <2>1, <1>1, <1>2, EmptySeq
    <3> QED BY <2>1, <3>1, <1>1 DEF Extent, n
  <2>2. CASE cs # <<>>
    <3>1. Len(cs) \in 1 .. Len(cs) /\ Len(cs) + 1 = Len(bs)
      BY <2>2, <1>1, <1>2, EmptySeq
    <3> QED BY <2>2, <3>1, <1>3 DEF Extent
  <2> QED BY <2>1, <2>2
<1> QED BY <1>4, <1>5, <1>6, <1>7 DEF Chained, cs, n

-----------------------------------------------------------------------------
(* Pointer arithmetic.                                                     *)

(* Passing over two stretches of memory is passing over their sum.         *)
LEMMA AdvanceTwice ==
  ASSUME NEW sz \in Nat, NEW p \in 0 .. sz, NEW d \in Nat, NEW n \in Nat,
         d + n <= sz
  PROVE  Advance(Advance(p, d, sz), n, sz) = Advance(p, d + n, sz)
BY DEF Advance

(* The cell x cells behind a pointer, seen from a pointer n cells further. *)
LEMMA IndexAdvanced ==
  ASSUME NEW sz \in Nat, NEW p \in 0 .. sz, NEW n \in Nat, NEW x \in Nat,
         n <= x, x < sz
  PROVE  Index(Advance(p, n, sz), x - n, sz) = Index(p, x, sz)
BY DEF Index, Advance

(* The distance that mct_buffer_write_block sees from the write pointer to *)
(* the cell x cells behind the read pointer: 0, 1, ... from e on, and no   *)
(* less than the free size before e.                                       *)
Behind(i, p, sz) == IF i >= p THEN i - p ELSE i + sz - p

LEMMA BehindWrite ==
  ASSUME NEW sz \in Nat, NEW r \in 0 .. sz, NEW e \in 0 .. sz,
         NEW x \in 0 .. sz - 1
  PROVE  /\ Index(r, x, sz) \in 0 .. sz - 1
         /\ x >= e => Behind(Index(r, x, sz), Advance(r, e, sz), sz) = x - e
         /\ x < e => Behind(Index(r, x, sz), Advance(r, e, sz), sz) >= sz - e
BY DEF Index, Advance, Behind

(* The sizes that the calls compute from the two pointers.                 *)
LEMMA SizesFromPointers ==
  ASSUME TypeOK, Layout
  PROVE  /\ Extent(blocks) \in 0 .. size
         /\ (blocks = <<>>) <=> (count = 0)
         /\ count = 0 => write = read /\ Extent(blocks) = 0
         /\ count # 0 => Extent(blocks) > HeadLen
         /\ FreeSize = size - Extent(blocks)
         /\ count # 0 => UsedSize = Extent(blocks) /\ Moved = Extent(blocks)
<1>1. /\ size \in Nat /\ read \in 0 .. size /\ write \in 0 .. size /\ count \in Nat
      /\ blocks \in Seq(Block)
  BY SizeAssumption DEF TypeOK
<1>2. /\ Chained(blocks) /\ count = Len(blocks)
      /\ Extent(blocks) <= size /\ write = Advance(read, Extent(blocks), size)
  BY DEF Layout, Placed
<1>3. /\ Extent(blocks) \in Nat /\ HeadLen \in Nat
      /\ blocks # <<>> => Extent(blocks) > HeadLen
  BY <1>1, <1>2, ChainedBounds, BlockAssumption
<1>4. (blocks = <<>>) <=> (count = 0)
  BY <1>1, <1>2, EmptySeq
<1>5. count = 0 => Extent(blocks) = 0
  BY <1>4 DEF Extent
<1>6. count = 0 => write = read
  BY <1>1, <1>2, <1>5 DEF Advance
<1>7. FreeSize = size - Extent(blocks)
  BY <1>1, <1>2, <1>3, <1>4, <1>5, <1>6 DEF FreeSize, Advance
<1>8. count # 0 => UsedSize = Extent(blocks) /\ Moved = Extent(blocks)
  BY <1>1, <1>2, <1>3, <1>4 DEF UsedSize, Moved, Advance
<1> QED BY <1>1, <1>2, <1>3, <1>4, <1>5, <1>6, <1>7, <1>8

-----------------------------------------------------------------------------
(* What the two halves of a push and a removal do to the stored messages.  *)

(* A buffer that grows is not empty, and what it moves to the start is     *)
(* exactly what is stored: the growth loop keeps every message in place.   *)
LEMMA GrownLayout ==
  ASSUME EveryBlockFits, TypeOK, Layout, NEW m \in Msg, NEW k \in Nat,
         GrowsBy(k, BlockLen[m])
  PROVE  /\ k # 0 => count # 0
         /\ Placed(GrownSize(k), GrownRead(k), GrownWrite(k), blocks)
         /\ Intact(GrownMem(k), GrownSize(k), GrownRead(k), blocks)
         /\ GrownFree(k) = GrownSize(k) - Extent(blocks)
<1>1. /\ size \in Nat /\ size >= MinSize /\ MinSize \in Nat /\ StepSize \in Nat
      /\ read \in 0 .. size /\ write \in 0 .. size
      /\ blocks \in Seq(Block) /\ BlockLen[m] \in Nat /\ BlockLen[m] <= MinSize
  BY SizeAssumption, BlockAssumption DEF TypeOK, EveryBlockFits
<1>2. /\ Extent(blocks) \in 0 .. size /\ FreeSize = size - Extent(blocks)
      /\ count # 0 => Moved = Extent(blocks)
      /\ count = 0 => Extent(blocks) = 0
  BY SizesFromPointers
<1>3. GrownSize(k) \in Nat /\ GrownSize(k) >= size
  <2>1. GrownSize(k) \in size .. MaxSize
    BY GrownSizeBound
  <2> QED BY <2>1, <1>1, SizeAssumption
<1>4. CASE k = 0
  <2>1. /\ GrownSize(k) = size /\ GrownRead(k) = read /\ GrownWrite(k) = write
        /\ GrownFree(k) = FreeSize /\ GrownMem(k) = mem
    BY <1>1, <1>4 DEF GrownSize, GrownRead, GrownWrite, GrownFree, GrownMem
  <2> QED BY <1>2, <1>4, <2>1 DEF Layout
<1>5. CASE k # 0
  <2>1. count # 0
    <3>1. GrownFree(0) < BlockLen[m]
      BY <1>5 DEF GrowsBy
    <3>2. FreeSize < BlockLen[m]
      BY <3>1 DEF GrownFree
    <3> QED BY <1>1, <1>2, <3>2
  <2>2. /\ GrownRead(k) = 0 /\ GrownWrite(k) = Extent(blocks)
        /\ GrownFree(k) = GrownSize(k) - Extent(blocks)
    BY <1>2, <1>5, <2>1 DEF GrownRead, GrownWrite, GrownFree
  <2>3. Placed(GrownSize(k), 0, Extent(blocks), blocks)
    BY <1>2, <1>3, <1>1 DEF Placed, Advance
  <2>4. Intact(GrownMem(k), GrownSize(k), 0, blocks)
    <3> SUFFICES ASSUME NEW i \in 1 .. Len(blocks),
                        NEW o \in 0 .. BlockLen[blocks[i].msg] - 1
                 PROVE  GrownMem(k)[Index(0, blocks[i].off + o, GrownSize(k))]
                          = <<blocks[i].msg, o>>
      BY DEF Intact
    <3> DEFINE x == blocks[i].off + o
    <3>1. x \in Nat /\ x < Extent(blocks)
      <4>1. /\ blocks[i].msg \in Msg /\ blocks[i].off \in Nat
            /\ BlockEnd(blocks[i]) <= Extent(blocks)
        BY <1>1, ChainedBounds DEF Layout
      <4>2. BlockEnd(blocks[i]) = blocks[i].off + BlockLen[blocks[i].msg]
        BY DEF BlockEnd
      <4>3. BlockLen[blocks[i].msg] \in Nat /\ Extent(blocks) \in Nat
        BY <4>1, <1>2, BlockAssumption
      <4> QED BY <4>1, <4>2, <4>3
    <3>2. mem[Index(read, x, size)] = <<blocks[i].msg, o>>
      BY DEF Layout, Intact
    <3> HIDE DEF x
    <3>3. Index(0, x, GrownSize(k)) = x /\ x \in 0 .. GrownSize(k) - 1
      BY <3>1, <1>1, <1>2, <1>3 DEF Index
    <3>4. GrownMem(k)[x] = mem[Index(read, x, size)]
      BY <1>2, <1>5, <2>1, <3>1, <3>3 DEF GrownMem
    <3> QED BY <3>2, <3>3, <3>4 DEF x
  <2> QED BY <2>1, <2>2, <2>3, <2>4
<1> QED BY <1>4, <1>5

(* A cell inside a block that ends by e lies before e, and in the ring.    *)
LEMMA InsideBlock ==
  ASSUME NEW off \in Nat, NEW len \in Nat, NEW e \in Nat, NEW sz \in Nat,
         off + len <= e, e <= sz, NEW o \in 0 .. len - 1
  PROVE  off + o \in 0 .. sz - 1 /\ off + o < e
OBVIOUS

(* mct_buffer_write_block at the write pointer puts the new block behind   *)
(* the others and touches none of them, as long as it fits.                *)
LEMMA WriteLayout ==
  ASSUME NEW sz \in Nat, NEW r \in 0 .. sz, NEW w, NEW cells,
         NEW bs \in Seq(Block), NEW m \in Msg,
         Chained(bs), Placed(sz, r, w, bs), Intact(cells, sz, r, bs),
         Extent(bs) + BlockLen[m] <= sz
  PROVE  LET cs == Append(bs, [msg |-> m, off |-> Extent(bs)]) IN
         /\ Placed(sz, r, Advance(w, BlockLen[m], sz), cs)
         /\ Intact(WriteBlock(cells, w, m, sz), sz, r, cs)
<1> DEFINE e == Extent(bs)
           n == BlockLen[m]
           cs == Append(bs, [msg |-> m, off |-> e])
<1>1. e \in Nat /\ n \in Nat /\ e \in 0 .. sz /\ Len(bs) \in Nat
  BY ChainedBounds, BlockAssumption
<1>2. /\ Extent(cs) = e + n /\ Len(cs) = Len(bs) + 1
      /\ cs[Len(bs) + 1].msg = m /\ cs[Len(bs) + 1].off = e
      /\ \A i \in 1 .. Len(bs) : cs[i] = bs[i]
  BY AppendChained
<1>3. w = Advance(r, e, sz)
  BY DEF Placed
<1>4. /\ \A i \in 1 .. Len(bs) : /\ bs[i].msg \in Msg /\ bs[i].off \in Nat
                                 /\ BlockEnd(bs[i]) <= e
  BY ChainedBounds
<1>5. ASSUME NEW x \in 0 .. sz - 1
      PROVE  WriteBlock(cells, w, m, sz)[Index(r, x, sz)]
               = IF x < e THEN cells[Index(r, x, sz)]
                 ELSE IF x < e + n THEN <<m, x - e>>
                 ELSE cells[Index(r, x, sz)]
  <2> DEFINE p == Index(r, x, sz)
             d == Behind(p, w, sz)
  <2>1. /\ p \in 0 .. sz - 1
        /\ x >= e => d = x - e
        /\ x < e => d >= sz - e
    BY <1>1, <1>3, BehindWrite
  <2>2. WriteBlock(cells, w, m, sz)[p]
          = IF d < BlockLen[m] THEN <<m, d>> ELSE cells[p]
    BY <2>1 DEF WriteBlock, Behind
  <2>3. d \in Int
    <3>1. w \in Int
      BY <1>1, <1>3 DEF Advance
    <3> QED BY <2>1, <3>1 DEF Behind
  <2> HIDE DEF p, d
  <2>4. CASE x < e
    <3>1. ~(d < n)
      BY <1>1, <2>1, <2>3, <2>4
    <3> QED BY <2>2, <2>4, <3>1 DEF p
  <2>5. CASE x >= e /\ x < e + n
    <3>1. d < n /\ d = x - e /\ ~(x < e)
      BY <1>1, <2>1, <2>5
    <3> QED BY <2>2, <2>5, <3>1 DEF p
  <2>6. CASE x >= e + n
    <3>1. ~(d < n) /\ ~(x < e) /\ ~(x < e + n)
      BY <1>1, <2>1, <2>6
    <3> QED BY <2>2, <3>1 DEF p
  <2> QED BY <1>1, <2>4, <2>5, <2>6
<1>6. Placed(sz, r, Advance(w, n, sz), cs)
  BY <1>1, <1>2, <1>3, AdvanceTwice DEF Placed
<1>7. Intact(WriteBlock(cells, w, m, sz), sz, r, cs)
  <2> SUFFICES ASSUME NEW i \in 1 .. Len(cs),
                      NEW o \in 0 .. BlockLen[cs[i].msg] - 1
               PROVE  WriteBlock(cells, w, m, sz)[Index(r, cs[i].off + o, sz)]
                        = <<cs[i].msg, o>>
    BY DEF Intact
  <2> HIDE DEF e, n, cs
  <2>1. CASE i = Len(bs) + 1
    <3>1. cs[i].msg = m /\ cs[i].off = e /\ o \in Nat /\ o < n
      BY <2>1, <1>1, <1>2 DEF n
    <3>2. e + o \in 0 .. sz - 1 /\ ~(e + o < e) /\ e + o < e + n /\ (e + o) - e = o
      BY <3>1, <1>1 DEF e, n
    <3>3. WriteBlock(cells, w, m, sz)[Index(r, e + o, sz)] = <<m, (e + o) - e>>
      BY <3>2, <1>5
    <3> QED BY <3>1, <3>2, <3>3
  <2>2. CASE i \in 1 .. Len(bs)
    <3>1. cs[i] = bs[i] /\ o \in 0 .. BlockLen[bs[i].msg] - 1
      BY <2>2, <1>2
    <3>2. /\ bs[i].off \in Nat /\ BlockLen[bs[i].msg] \in Nat
          /\ bs[i].off + BlockLen[bs[i].msg] <= e
      BY <2>2, <1>4, BlockAssumption DEF BlockEnd
    <3>3. bs[i].off + o \in 0 .. sz - 1 /\ bs[i].off + o < e
      <4> DEFINE f == bs[i].off
                 l == BlockLen[bs[i].msg]
      <4>1. /\ f \in Nat /\ l \in Nat /\ e \in Nat /\ f + l <= e
            /\ e <= sz /\ o \in 0 .. l - 1
        BY <3>1, <3>2, <1>1
      <4> HIDE DEF f, l
      <4>2. f + o \in 0 .. sz - 1 /\ f + o < e
        BY <4>1, InsideBlock
      <4> QED BY <4>2 DEF f
    <3>4. WriteBlock(cells, w, m, sz)[Index(r, bs[i].off + o, sz)]
            = cells[Index(r, bs[i].off + o, sz)]
      BY <3>3, <1>5
    <3>5. cells[Index(r, bs[i].off + o, sz)] = <<bs[i].msg, o>>
      BY <2>2, <3>1 DEF Intact
    <3> QED BY <3>1, <3>4, <3>5
  <2> QED BY <1>1, <1>2, <2>1, <2>2
<1> QED BY <1>6, <1>7 DEF cs, e, n

(* Moving the read pointer over the first block leaves the others where    *)
(* they are.                                                               *)
LEMMA RemoveLayout ==
  ASSUME NEW sz \in Nat, NEW r \in 0 .. sz, NEW w, NEW cells,
         NEW bs \in Seq(Block), bs # <<>>,
         Chained(bs), Placed(sz, r, w, bs), Intact(cells, sz, r, bs)
  PROVE  LET q == Advance(r, BlockLen[bs[1].msg], sz) IN
         /\ Placed(sz, q, w, WithoutFirst(bs))
         /\ Intact(cells, sz, q, WithoutFirst(bs))
<1> DEFINE e == Extent(bs)
           n == BlockLen[bs[1].msg]
           q == Advance(r, n, sz)
           cs == WithoutFirst(bs)
<1>1. /\ e \in Nat /\ n \in Nat /\ n <= e /\ e <= sz /\ Len(bs) \in Nat
      /\ bs[1].off = 0 /\ 1 \in 1 .. Len(bs) /\ w = Advance(r, e, sz)
  BY ChainedBounds, BlockAssumption DEF Placed
<1>2. \A i \in 1 .. Len(bs) : /\ bs[i].msg \in Msg /\ bs[i].off \in Nat
                              /\ BlockEnd(bs[i]) <= e
  BY ChainedBounds
<1>3. Extent(cs) = e - n
  BY WithoutFirstChained
<1>4. /\ Len(cs) = Len(bs) - 1
      /\ \A i \in 1 .. Len(bs) - 1 : /\ cs[i].msg = bs[i + 1].msg
                                     /\ cs[i].off = bs[i + 1].off - n
  BY WithoutFirstProperties
<1> HIDE DEF e, n, cs
<1>5. Placed(sz, q, w, cs)
  <2>1. Advance(Advance(r, n, sz), e - n, sz) = Advance(r, n + (e - n), sz)
    BY <1>1, AdvanceTwice
  <2>2. n + (e - n) = e /\ e - n <= sz
    BY <1>1
  <2> QED BY <2>1, <2>2, <1>1, <1>3 DEF Placed
<1>6. Intact(cells, sz, q, cs)
  <2> SUFFICES ASSUME NEW i \in 1 .. Len(cs),
                      NEW o \in 0 .. BlockLen[cs[i].msg] - 1
               PROVE  cells[Index(q, cs[i].off + o, sz)] = <<cs[i].msg, o>>
    BY DEF Intact
  <2>1. i \in 1 .. Len(bs) - 1 /\ i + 1 \in 1 .. Len(bs) /\ 1 < i + 1
    BY <1>1, <1>4
  <2>2. cs[i].msg = bs[i + 1].msg /\ cs[i].off = bs[i + 1].off - n
    BY <2>1, <1>4
  <2>3. bs[i + 1].off \in Nat /\ bs[i + 1].off >= n
    <3>1. BlockEnd(bs[1]) <= bs[i + 1].off
      BY <2>1, <1>1 DEF Chained
    <3>2. BlockEnd(bs[1]) = n
      BY <1>1 DEF BlockEnd, n
    <3> QED BY <2>1, <3>1, <3>2, <1>2
  <2>4. o \in Nat /\ bs[i + 1].off + o < e
    <3>1. bs[i + 1].msg \in Msg /\ BlockEnd(bs[i + 1]) <= e
      BY <2>1, <1>2
    <3>2. BlockEnd(bs[i + 1]) = bs[i + 1].off + BlockLen[bs[i + 1].msg]
      BY DEF BlockEnd
    <3>3. BlockLen[bs[i + 1].msg] \in Nat
      BY <3>1, BlockAssumption
    <3>4. o \in Nat /\ o < BlockLen[bs[i + 1].msg]
      BY <2>2, <3>3
    <3> QED BY <3>1, <3>2, <3>3, <3>4, <2>3, <1>1
  <2> DEFINE x == bs[i + 1].off + o
  <2>5. x \in Nat /\ n <= x /\ x < sz /\ cs[i].off + o = x - n
    <3>1. cs[i].off + o = (bs[i + 1].off - n) + o
      BY <2>2
    <3>2. (bs[i + 1].off - n) + o = (bs[i + 1].off + o) - n
      BY <2>3, <2>4, <1>1
    <3>3. x \in Nat /\ x < e
      BY <2>3, <2>4
    <3>4. n <= x
      BY <2>3, <2>4, <1>1
    <3>5. x < sz
      <4> HIDE DEF x
      <4> QED BY <3>3, <1>1
    <3> QED BY <3>1, <3>2, <3>3, <3>4, <3>5
  <2>6. cells[Index(r, x, sz)] = <<bs[i + 1].msg, o>>
    <3>1. o \in 0 .. BlockLen[bs[i + 1].msg] - 1
      BY <2>2
    <3> QED BY <2>1, <3>1 DEF Intact
  <2> HIDE DEF x
  <2>7. Index(q, x - n, sz) = Index(r, x, sz)
    BY <2>5, <1>1, IndexAdvanced
  <2> QED BY <2>2, <2>5, <2>6, <2>7
<1> QED BY <1>5, <1>6 DEF cs, n

-----------------------------------------------------------------------------
(* Layout is inductive, with TypeOK.                                       *)

(* A push that stores its message keeps the layout.                        *)
LEMMA AcceptLayout ==
  ASSUME EveryBlockFits, TypeOK, Layout, NEW m \in Msg, NEW k \in Nat,
         Accept(m, k)
  PROVE  Layout'
<1>1. GrowsBy(k, BlockLen[m]) /\ GrownFree(k) >= BlockLen[m]
  BY DEF Accept
<1>2. /\ Placed(GrownSize(k), GrownRead(k), GrownWrite(k), blocks)
      /\ Intact(GrownMem(k), GrownSize(k), GrownRead(k), blocks)
      /\ GrownFree(k) = GrownSize(k) - Extent(blocks)
  BY <1>1, GrownLayout
<1>3. GrownSize(k) \in Nat /\ GrownRead(k) \in 0 .. GrownSize(k)
  <2>1. GrownSize(k) \in size .. MaxSize
    BY <1>1, GrownSizeBound
  <2> QED BY <1>1, <2>1, GrownTyped, SizeAssumption DEF TypeOK
<1>4. blocks \in Seq(Block) /\ Chained(blocks) /\ count = Len(blocks)
  BY DEF TypeOK, Layout
<1>5. Extent(blocks) + BlockLen[m] <= GrownSize(k)
  <2>1. Extent(blocks) \in Nat
    BY <1>4, ChainedBounds
  <2> QED BY <1>1, <1>2, <1>3, <2>1, BlockAssumption
<1>6. /\ Placed(size', read', write', blocks')
      /\ Intact(mem', size', read', blocks')
  BY <1>2, <1>3, <1>4, <1>5, WriteLayout DEF Accept
<1>7. Chained(blocks') /\ count' = Len(blocks')
  BY <1>4, AppendChained DEF Accept
<1> QED BY <1>6, <1>7 DEF Layout

(* A push that fails keeps the layout, in the memory it has grown.         *)
LEMMA RefuseLayout ==
  ASSUME EveryBlockFits, TypeOK, Layout, NEW m \in Msg, NEW k \in Nat,
         Refuse(m, k)
  PROVE  /\ Layout' /\ count # 0
         /\ Extent(blocks) + BlockLen[m] > size'
<1>1. GrowsBy(k, BlockLen[m]) /\ GrownFree(k) < BlockLen[m]
  BY DEF Refuse
<1>2. /\ Placed(size', read', write', blocks')
      /\ Intact(mem', size', read', blocks')
  BY <1>1, GrownLayout DEF Refuse
<1>3. GrownFree(k) = GrownSize(k) - Extent(blocks) /\ (k # 0 => count # 0)
  BY <1>1, GrownLayout
<1>4. Layout'
  BY <1>2 DEF Layout, Refuse
<1>5. Extent(blocks) \in 0 .. size /\ FreeSize = size - Extent(blocks)
      /\ (count = 0 => Extent(blocks) = 0)
  BY SizesFromPointers
<1>6. GrownSize(k) \in Nat /\ size \in Nat /\ MinSize \in Nat /\ size >= MinSize
      /\ BlockLen[m] \in Nat /\ BlockLen[m] <= MinSize
  <2>1. GrownSize(k) \in size .. MaxSize
    BY <1>1, GrownSizeBound
  <2> QED BY <2>1, SizeAssumption, BlockAssumption DEF TypeOK, EveryBlockFits
<1>7. count # 0
  <2>1. CASE k = 0
    BY <1>1, <1>5, <1>6, <2>1 DEF GrownFree
  <2> QED BY <1>3, <2>1
<1>8. Extent(blocks) + BlockLen[m] > size'
  BY <1>1, <1>3, <1>5, <1>6 DEF Refuse
<1> QED BY <1>4, <1>7, <1>8

(* With the layout in place every check of mct_buffer_get passes: what lies*)
(* at the read pointer is the header of the oldest message, all of it is   *)
(* there, and the only other case is the empty buffer.                     *)
LEMMA GetFindsOldest ==
  ASSUME TypeOK, Layout
  PROVE  /\ PointersInRange
         /\ (count = 0) <=> (blocks = <<>>)
         /\ count = 0 => read = write
         /\ count # 0 =>
              /\ blocks # <<>> /\ blocks[1].msg \in Msg
              /\ HeaderAtRead = {blocks[1].msg}
              /\ Payload(blocks[1].msg) = blocks[1].msg
              /\ UsedSize >= HeadLen /\ UsedSize >= BlockLen[blocks[1].msg]
<1>1. PointersInRange
  BY SizeAssumption DEF TypeOK, PointersInRange
<1>2. /\ (count = 0) <=> (blocks = <<>>)
      /\ count = 0 => read = write
      /\ count # 0 => UsedSize = Extent(blocks) /\ Extent(blocks) > HeadLen
      /\ Extent(blocks) \in 0 .. size
  BY SizesFromPointers
<1>3. ASSUME count # 0
      PROVE  /\ blocks # <<>> /\ blocks[1].msg \in Msg
             /\ HeaderAtRead = {blocks[1].msg}
             /\ Payload(blocks[1].msg) = blocks[1].msg
             /\ UsedSize >= HeadLen /\ UsedSize >= BlockLen[blocks[1].msg]
  <2> DEFINE b == blocks[1].msg
  <2>1. blocks # <<>> /\ blocks \in Seq(Block) /\ Chained(blocks)
    BY <1>2, <1>3 DEF TypeOK, Layout
  <2>2. /\ 1 \in 1 .. Len(blocks) /\ b \in Msg /\ blocks[1].off = 0
        /\ BlockLen[b] <= Extent(blocks)
    BY <2>1, ChainedBounds
  <2>3. HeadLen \in Nat \ {0} /\ BlockLen[b] \in Nat /\ BlockLen[b] > HeadLen
    BY <2>2, BlockAssumption
  <2>4. \A o \in 0 .. BlockLen[b] - 1 : mem[Index(read, o, size)] = <<b, o>>
    <3>1. \A o \in 0 .. BlockLen[b] - 1 :
            mem[Index(read, blocks[1].off + o, size)] = <<b, o>>
      BY <2>2 DEF Layout, Intact
    <3>2. \A o \in 0 .. BlockLen[b] - 1 : blocks[1].off + o = o
      BY <2>2, <2>3
    <3> QED BY <3>1, <3>2
  <2> HIDE DEF b
  <2>5. HeaderAtRead = {b}
    <3>1. b \in HeaderAtRead
      <4>1. \A i \in 0 .. HeadLen - 1 : i \in 0 .. BlockLen[b] - 1
        BY <2>3
      <4>2. b \in Msg
        BY <2>2 DEF b
      <4> QED BY <2>4, <4>1, <4>2 DEF HeaderAtRead
    <3>2. ASSUME NEW m \in HeaderAtRead PROVE m = b
      <4>1. 0 \in 0 .. HeadLen - 1 /\ 0 \in 0 .. BlockLen[b] - 1
        BY <2>3
      <4>2. mem[Index(read, 0, size)] = <<m, 0>>
        BY <4>1 DEF HeaderAtRead
      <4>3. mem[Index(read, 0, size)] = <<b, 0>>
        BY <4>1, <2>4
      <4> QED BY <4>2, <4>3
    <3> QED BY <3>1, <3>2
  <2>6. Payload(b) = b
    <3>1. \A i \in HeadLen .. BlockLen[b] - 1 : i \in 0 .. BlockLen[b] - 1
      BY <2>3
    <3> QED BY <2>4, <3>1 DEF Payload
  <2>7. UsedSize >= HeadLen /\ UsedSize >= BlockLen[b]
    BY <1>2, <1>3, <2>2, <2>3 DEF b
  <2> QED BY <2>1, <2>2, <2>5, <2>6, <2>7 DEF b
<1> QED BY <1>1, <1>2, <1>3

(* With the layout in place a read or a removal is one of three things: it *)
(* finds nothing, it reads the oldest message, or it takes it out.         *)
LEMMA GetCases ==
  ASSUME TypeOK, Layout, NEW delete \in BOOLEAN, Get(delete)
  PROVE  \/ /\ count = 0 /\ blocks = <<>>
            /\ UNCHANGED <<code, blocks, oom>>
            /\ last' = Result(Op(delete), NoMsg, FALSE)
         \/ /\ count # 0 /\ blocks # <<>>
            /\ last' = Result(Op(delete), blocks[1].msg, TRUE)
            /\ ~delete => UNCHANGED <<code, blocks, oom>>
            /\ delete => Delete(blocks[1].msg) /\ blocks' = WithoutFirst(blocks)
<1> USE GetFindsOldest
<1>1. CASE GetEmpty(delete)
  BY <1>1 DEF GetEmpty
<1>2. ~GetCorrupt(delete)
  <2> SUFFICES ASSUME GetCorrupt(delete) PROVE FALSE
    OBVIOUS
  <2>1. count # 0 /\ (UsedSize < HeadLen \/ \A m \in HeaderAtRead : UsedSize < BlockLen[m])
    BY DEF GetCorrupt
  <2>2. UsedSize \in Int /\ HeadLen \in Int /\ BlockLen[blocks[1].msg] \in Int
    <3>1. UsedSize \in 0 .. size
      BY UsedSizeRange
    <3> QED BY <2>1, <3>1, BlockAssumption, SizeAssumption DEF TypeOK
  <2>3. blocks[1].msg \in HeaderAtRead
    BY <2>1
  <2> QED BY <2>1, <2>2, <2>3
<1>3. CASE \E m \in HeaderAtRead :
             /\ PointersInRange /\ count # 0
             /\ UsedSize >= HeadLen /\ UsedSize >= BlockLen[m]
             /\ last' = Result(Op(delete), Payload(m), TRUE)
             /\ IF delete
                THEN /\ Delete(m)
                     /\ blocks' = WithoutFirst(blocks)
                ELSE UNCHANGED <<code, blocks, oom>>
  BY <1>3
<1> QED BY <1>1, <1>2, <1>3 DEF Get

(* Taking out the oldest message keeps the layout: what is left is where   *)
(* it was, or nothing is left in a memory of minimal size.                 *)
LEMMA DeleteLayout ==
  ASSUME TypeOK, Layout, count # 0, Delete(blocks[1].msg),
         blocks' = WithoutFirst(blocks)
  PROVE  Layout'
<1>1. blocks \in Seq(Block) /\ Chained(blocks) /\ count = Len(blocks) /\ blocks # <<>>
  BY SizesFromPointers DEF TypeOK, Layout
<1>2. /\ Chained(blocks') /\ Len(blocks') = count - 1 /\ blocks' \in Seq(Block)
  BY <1>1, WithoutFirstChained, WithoutFirstProperties
<1>3. CASE Minimize /\ count = 1
  <2>1. blocks' = <<>>
    BY <1>2, <1>3, EmptySeq
  <2>2. Extent(blocks') = 0 /\ Len(blocks') = 0
    BY <2>1 DEF Extent
  <2>3. Placed(size', read', write', blocks')
    BY <1>3, <2>2, SizeAssumption DEF Minimize, Placed, Advance
  <2>4. Intact(mem', size', read', blocks')
    BY <2>2 DEF Intact
  <2> QED BY <1>2, <1>3, <2>2, <2>3, <2>4 DEF Layout, Minimize
<1>4. CASE /\ read' = Advance(read, BlockLen[blocks[1].msg], size)
           /\ count' = count - 1
           /\ UNCHANGED <<mem, size, write>>
  <2>1. size \in Nat /\ read \in 0 .. size
    BY SizeAssumption DEF TypeOK
  <2>2. Placed(size, read, write, blocks) /\ Intact(mem, size, read, blocks)
    BY DEF Layout
  <2>3. /\ Placed(size', read', write', blocks')
        /\ Intact(mem', size', read', blocks')
    BY <1>1, <1>4, <2>1, <2>2, RemoveLayout
  <2> QED BY <1>2, <1>4, <2>3 DEF Layout
<1> QED BY <1>3, <1>4 DEF Delete

(* Every step, for messages that fit: a push that stores, a push that is   *)
(* refused by a buffer that is not empty, a read of nothing, a read of the *)
(* oldest message, its removal, or nothing.                                *)
LEMMA StepCases ==
  ASSUME EveryBlockFits, TypeOK, Layout, [Next]_vars
  PROVE  \/ \E m \in Msg, k \in 0 .. MaxSize : Accept(m, k)
         \/ \E m \in Msg, k \in 0 .. MaxSize : Refuse(m, k)
         \/ \E delete \in BOOLEAN :
              \/ /\ blocks = <<>>
                 /\ UNCHANGED <<code, blocks, oom>>
                 /\ last' = Result(Op(delete), NoMsg, FALSE)
              \/ /\ count # 0 /\ blocks # <<>>
                 /\ last' = Result(Op(delete), blocks[1].msg, TRUE)
                 /\ ~delete => UNCHANGED <<code, blocks, oom>>
                 /\ delete => Delete(blocks[1].msg) /\ blocks' = WithoutFirst(blocks)
         \/ UNCHANGED vars
<1>1. ASSUME NEW m \in Msg, Push(m)
      PROVE  \E k \in 0 .. MaxSize : Accept(m, k) \/ Refuse(m, k)
  BY <1>1, GetFindsOldest DEF Push
<1>2. ASSUME NEW delete \in BOOLEAN, Get(delete)
      PROVE  \/ /\ blocks = <<>>
                /\ UNCHANGED <<code, blocks, oom>>
                /\ last' = Result(Op(delete), NoMsg, FALSE)
             \/ /\ count # 0 /\ blocks # <<>>
                /\ last' = Result(Op(delete), blocks[1].msg, TRUE)
                /\ ~delete => UNCHANGED <<code, blocks, oom>>
                /\ delete => Delete(blocks[1].msg) /\ blocks' = WithoutFirst(blocks)
  BY <1>2, GetCases
<1> QED BY <1>1, <1>2 DEF Next

(* mct_buffer_init_dynamic leaves an empty layout.                         *)
LEMMA InitLayout == Init => Layout
<1> SUFFICES ASSUME Init PROVE Layout
  OBVIOUS
<1>1. Len(blocks) = 0 /\ Extent(blocks) = 0
  BY EmptySeq DEF Init, Extent
<1>2. Chained(blocks)
  BY <1>1 DEF Init, Chained
<1>3. Placed(size, read, write, blocks)
  BY <1>1, SizeAssumption DEF Init, Placed, Advance
<1>4. Intact(mem, size, read, blocks)
  BY <1>1 DEF Intact
<1> QED BY <1>1, <1>2, <1>3, <1>4 DEF Layout, Init

(* Every call keeps the layout.                                            *)
LEMMA NextLayout ==
  ASSUME EveryBlockFits, TypeOK, Layout, [Next]_vars
  PROVE  Layout'
<1>1. ASSUME NEW m \in Msg, NEW k \in 0 .. MaxSize, Accept(m, k) PROVE Layout'
  BY <1>1, AcceptLayout, SizeAssumption
<1>2. ASSUME NEW m \in Msg, NEW k \in 0 .. MaxSize, Refuse(m, k) PROVE Layout'
  BY <1>2, RefuseLayout, SizeAssumption
<1>3. CASE UNCHANGED <<code, blocks, oom>>
  BY <1>3 DEF Layout, code
<1>4. CASE count # 0 /\ Delete(blocks[1].msg) /\ blocks' = WithoutFirst(blocks)
  BY <1>4, DeleteLayout
<1>5. CASE UNCHANGED vars
  BY <1>5 DEF Layout, vars
<1> QED BY <1>1, <1>2, <1>3, <1>4, <1>5, StepCases

(* Layout holds of every reachable state: through every wrap, growth,      *)
(* failed push and shrinking the accepted messages lie one after the other *)
(* between the two pointers, and no byte of theirs is overwritten.         *)
THEOREM LayoutCorrect ==
  ASSUME EveryBlockFits
  PROVE  Spec => []Layout
<1>1. Init => Layout
  BY InitLayout
<1>2. TypeOK /\ Layout /\ [Next]_vars => Layout'
  BY NextLayout
<1> QED BY <1>1, <1>2, TypeCorrect, PTL DEF Spec

-----------------------------------------------------------------------------
(* What follows from the layout.                                           *)

(* RefusedOnlyWhenFull holds of every reachable state: while malloc        *)
(* succeeds no message is lost by mct_buffer_push3 before the limit.       *)
THEOREM RefusedCorrect ==
  ASSUME EveryBlockFits
  PROVE  Spec => []RefusedOnlyWhenFull
<1>1. Init => RefusedOnlyWhenFull
  BY DEF Init, Result, RefusedOnlyWhenFull
<1>2. TypeOK /\ Layout /\ RefusedOnlyWhenFull /\ [Next]_vars => RefusedOnlyWhenFull'
  <2> SUFFICES ASSUME TypeOK, Layout, RefusedOnlyWhenFull, [Next]_vars
               PROVE  RefusedOnlyWhenFull'
    OBVIOUS
  <2>1. ASSUME NEW m \in Msg, NEW k \in 0 .. MaxSize, Accept(m, k)
        PROVE  RefusedOnlyWhenFull'
    BY <2>1 DEF Accept, Result, RefusedOnlyWhenFull
  <2>2. ASSUME NEW m \in Msg, NEW k \in 0 .. MaxSize, Refuse(m, k)
        PROVE  RefusedOnlyWhenFull'
    <3>1. count # 0 /\ Extent(blocks) + BlockLen[m] > size'
      BY <2>2, RefuseLayout, SizeAssumption
    <3>2. blocks # <<>> /\ blocks' = blocks
      BY <2>2, <3>1, SizesFromPointers DEF Refuse
    <3>3. ~oom' => StepSize = 0 \/ size' + StepSize > MaxSize
      <4> SUFFICES ASSUME ~CanGrow(k), StepSize # 0
                   PROVE  GrownSize(k) + StepSize > MaxSize
        BY <2>2 DEF Refuse
      <4>1. size \in Nat /\ k \in Nat /\ StepSize \in Nat /\ MaxSize \in Nat
        BY SizeAssumption DEF TypeOK
      <4>2. k * StepSize \in Nat /\ (k + 1) * StepSize = k * StepSize + StepSize
        BY <4>1
      <4>3. ~(size + (k + 1) * StepSize <= MaxSize)
        BY DEF CanGrow
      <4> QED BY <4>1, <4>2, <4>3 DEF GrownSize
    <3>4. last'.msg = m
      BY <2>2 DEF Refuse, Result
    <3> QED BY <3>1, <3>2, <3>3, <3>4 DEF RefusedOnlyWhenFull
  <2>3. ASSUME NEW delete \in BOOLEAN, NEW m, NEW ok, last' = Result(Op(delete), m, ok)
        PROVE  RefusedOnlyWhenFull'
    BY <2>3 DEF Result, Op, RefusedOnlyWhenFull
  <2>4. CASE UNCHANGED vars
    BY <2>4 DEF vars, RefusedOnlyWhenFull
  <2> QED BY <2>1, <2>2, <2>3, <2>4, StepCases
<1> QED BY <1>1, <1>2, TypeCorrect, LayoutCorrect, PTL DEF Spec

(* EmptyIsMinimal holds of every reachable state: while malloc succeeds,   *)
(* the removal of the last message gives all the grown memory back.        *)
THEOREM EmptyCorrect ==
  ASSUME EveryBlockFits
  PROVE  Spec => []EmptyIsMinimal
<1>1. Init => EmptyIsMinimal
  BY DEF Init, EmptyIsMinimal
<1>2. TypeOK /\ Layout /\ EmptyIsMinimal /\ [Next]_vars => EmptyIsMinimal'
  <2> SUFFICES ASSUME TypeOK, Layout, EmptyIsMinimal, [Next]_vars
               PROVE  EmptyIsMinimal'
    OBVIOUS
  <2>0. count \in Nat
    BY DEF TypeOK
  <2>1. ASSUME NEW m \in Msg, NEW k \in 0 .. MaxSize, Accept(m, k)
        PROVE  EmptyIsMinimal'
    BY <2>0, <2>1 DEF Accept, EmptyIsMinimal
  <2>2. ASSUME NEW m \in Msg, NEW k \in 0 .. MaxSize, Refuse(m, k)
        PROVE  EmptyIsMinimal'
    <3>1. count # 0
      BY <2>2, RefuseLayout, SizeAssumption
    <3>2. count' = count
      BY <2>2 DEF Refuse
    <3> QED BY <3>1, <3>2 DEF EmptyIsMinimal
  <2>3. CASE UNCHANGED <<code, blocks, oom>>
    BY <2>3 DEF code, EmptyIsMinimal
  <2>4. CASE count # 0 /\ Delete(blocks[1].msg)
    <3>1. CASE Minimize
      BY <3>1 DEF Minimize, EmptyIsMinimal
    <3>2. CASE /\ count' = count - 1 /\ UNCHANGED size
               /\ oom' = (oom \/ (count = 1 /\ size # MinSize))
      <4>1. ~oom' => ~oom /\ ~(count = 1 /\ size # MinSize)
        BY <3>2, Zenon
      <4>2. count' = 0 => count = 1
        BY <2>0, <3>2
      <4> QED BY <3>2, <4>1, <4>2 DEF EmptyIsMinimal
    <3> QED BY <2>4, <3>1, <3>2 DEF Delete
  <2>5. CASE UNCHANGED vars
    BY <2>5 DEF vars, EmptyIsMinimal
  <2> QED BY <2>1, <2>2, <2>3, <2>4, <2>5, StepCases
<1> QED BY <1>1, <1>2, TypeCorrect, LayoutCorrect, PTL DEF Spec

-----------------------------------------------------------------------------
(* The ring buffer implements the queue of BoundedFifo.                    *)

Queue(bs) == [i \in 1 .. Len(bs) |-> bs[i].msg]

(* The queue of a sequence of blocks is a sequence of its messages.        *)
LEMMA QueueProperties ==
  ASSUME NEW bs \in Seq(Block)
  PROVE  /\ Queue(bs) \in Seq(Msg) /\ Len(Queue(bs)) = Len(bs)
         /\ \A i \in 1 .. Len(bs) : Queue(bs)[i] = bs[i].msg
         /\ Queue(bs) = <<>> <=> bs = <<>>
<1>1. Len(bs) \in Nat
  OBVIOUS
<1>2. \A i \in 1 .. Len(bs) : bs[i].msg \in Msg
  <2> SUFFICES ASSUME NEW i \in 1 .. Len(bs) PROVE bs[i].msg \in Msg
    OBVIOUS
  <2>1. bs[i] \in Block
    BY ElementOfSeq
  <2> QED BY <2>1 DEF Block
<1>3. Queue(bs) \in [1 .. Len(bs) -> Msg]
  BY <1>2 DEF Queue
<1>4. Queue(bs) \in Seq(Msg)
  BY <1>1, <1>3, SeqDef
<1>5. Len(Queue(bs)) = Len(bs)
  <2>1. Len(Queue(bs)) \in Nat /\ DOMAIN Queue(bs) = 1 .. Len(Queue(bs))
    BY <1>4, LenProperties
  <2>2. DOMAIN Queue(bs) = 1 .. Len(bs)
    BY DEF Queue
  <2> QED BY <1>1, <2>1, <2>2
<1>6. Queue(bs) = <<>> <=> bs = <<>>
  BY <1>4, <1>5, EmptySeq
<1> QED BY <1>4, <1>5, <1>6 DEF Queue

(* Storing a block appends its message.                                    *)
LEMMA QueueAppend ==
  ASSUME NEW bs \in Seq(Block), NEW b \in Block
  PROVE  Queue(Append(bs, b)) = Append(Queue(bs), b.msg)
<1> DEFINE s == Queue(Append(bs, b))
           t == Append(Queue(bs), b.msg)
<1>1. b.msg \in Msg /\ Len(bs) \in Nat
  BY DEF Block
<1>2. /\ Append(bs, b) \in Seq(Block) /\ Len(Append(bs, b)) = Len(bs) + 1
      /\ \A i \in 1 .. Len(bs) : Append(bs, b)[i] = bs[i]
      /\ Append(bs, b)[Len(bs) + 1] = b
  BY AppendProperties
<1>3. /\ Queue(bs) \in Seq(Msg) /\ Len(Queue(bs)) = Len(bs)
      /\ \A i \in 1 .. Len(bs) : Queue(bs)[i] = bs[i].msg
  BY QueueProperties
<1>4. /\ s \in Seq(Msg) /\ Len(s) = Len(bs) + 1
      /\ \A i \in 1 .. Len(bs) + 1 : s[i] = Append(bs, b)[i].msg
  BY <1>2, QueueProperties
<1>5. /\ t \in Seq(Msg) /\ Len(t) = Len(bs) + 1
      /\ \A i \in 1 .. Len(bs) : t[i] = Queue(bs)[i]
      /\ t[Len(bs) + 1] = b.msg
  BY <1>1, <1>3, AppendProperties
<1> HIDE DEF s, t
<1>6. ASSUME NEW i \in 1 .. Len(s) PROVE s[i] = t[i]
  <2>1. CASE i = Len(bs) + 1
    BY <1>1, <1>2, <1>4, <1>5, <2>1
  <2>2. CASE i # Len(bs) + 1
    <3>1. i \in 1 .. Len(bs) /\ i \in 1 .. Len(bs) + 1
      BY <1>1, <1>4, <2>2
    <3> QED BY <3>1, <1>2, <1>3, <1>4, <1>5
  <2> QED BY <2>1, <2>2
<1>7. s = t
  BY <1>4, <1>5, <1>6, SeqEqual
<1> QED BY <1>7 DEF s, t

(* Taking out the first block takes out the first message.                 *)
LEMMA QueueTail ==
  ASSUME NEW bs \in Seq(Block), bs # <<>>
  PROVE  /\ Queue(WithoutFirst(bs)) = Tail(Queue(bs))
         /\ Head(Queue(bs)) = bs[1].msg
<1> DEFINE s == Queue(WithoutFirst(bs))
           t == Tail(Queue(bs))
<1>1. Len(bs) \in Nat /\ Len(bs) >= 1
  BY EmptySeq
<1>2. /\ WithoutFirst(bs) \in Seq(Block) /\ Len(WithoutFirst(bs)) = Len(bs) - 1
      /\ \A i \in 1 .. Len(bs) - 1 : WithoutFirst(bs)[i].msg = bs[i + 1].msg
  BY WithoutFirstProperties
<1>3. /\ Queue(bs) \in Seq(Msg) /\ Len(Queue(bs)) = Len(bs) /\ Queue(bs) # <<>>
      /\ \A i \in 1 .. Len(bs) : Queue(bs)[i] = bs[i].msg
  BY QueueProperties
<1>4. /\ s \in Seq(Msg) /\ Len(s) = Len(bs) - 1
      /\ \A i \in 1 .. Len(bs) - 1 : s[i] = WithoutFirst(bs)[i].msg
  BY <1>2, QueueProperties
<1>5. /\ t \in Seq(Msg) /\ Len(t) = Len(bs) - 1
      /\ \A i \in 1 .. Len(bs) - 1 : t[i] = Queue(bs)[i + 1]
  BY <1>3, HeadTailProperties
<1> HIDE DEF s, t
<1>6. ASSUME NEW i \in 1 .. Len(s) PROVE s[i] = t[i]
  <2>1. i \in 1 .. Len(bs) - 1 /\ i + 1 \in 1 .. Len(bs)
    BY <1>1, <1>4
  <2> QED BY <2>1, <1>2, <1>3, <1>4, <1>5
<1>7. s = t
  BY <1>4, <1>5, <1>6, SeqEqual
<1>8. Head(Queue(bs)) = bs[1].msg
  <2>1. Head(Queue(bs)) = Queue(bs)[1] /\ 1 \in 1 .. Len(bs)
    BY <1>1, <1>3
  <2> QED BY <2>1, <1>3
<1> QED BY <1>7, <1>8 DEF s, t

(* The ring buffer of bytes, pointers, growth and header checks implements *)
(* the abstract queue: nothing lost, doubled, mixed or out of order, and   *)
(* no push refused by an empty buffer.                                     *)
THEOREM FifoCorrect ==
  ASSUME EveryBlockFits
  PROVE  Spec => FifoSpec
<1>1. Init => Fifo!Init
  <2> SUFFICES ASSUME Init PROVE Fifo!Init
    OBVIOUS
  <2>1. blocks = <<>> /\ blocks \in Seq(Block)
    BY EmptySeq DEF Init
  <2>2. Queue(blocks) = <<>>
    BY <2>1, QueueProperties
  <2> QED BY <2>2 DEF Init, Fifo!Init, Fifo!Result, Result, Queue
<1>2. TypeOK /\ Layout /\ [Next]_vars => [Fifo!Next]_(Fifo!vars)
  <2> SUFFICES ASSUME TypeOK, Layout, [Next]_vars
               PROVE  Fifo!Next \/ UNCHANGED Fifo!vars
    OBVIOUS
  <2>0. blocks \in Seq(Block) /\ Chained(blocks)
    BY DEF TypeOK, Layout
  <2>1. ASSUME NEW m \in Msg, NEW k \in 0 .. MaxSize, Accept(m, k)
        PROVE  Fifo!Accept(m)
    <3>1. [msg |-> m, off |-> Extent(blocks)] \in Block
      <4>1. Extent(blocks) \in Nat
        BY <2>0, ChainedBounds
      <4> QED BY <4>1 DEF Block
    <3>2. Queue(blocks') = Append(Queue(blocks), m)
      BY <2>0, <2>1, <3>1, QueueAppend DEF Accept
    <3> QED BY <2>1, <3>2 DEF Accept, Result, Fifo!Accept, Fifo!Result, Queue
  <2>2. ASSUME NEW m \in Msg, NEW k \in 0 .. MaxSize, Refuse(m, k)
        PROVE  Fifo!Refuse(m)
    <3>1. blocks # <<>>
      BY <2>2, RefuseLayout, SizesFromPointers, SizeAssumption
    <3>2. Queue(blocks) # <<>> /\ Queue(blocks') = Queue(blocks)
      BY <2>0, <2>2, <3>1, QueueProperties DEF Refuse
    <3> QED BY <2>2, <3>2 DEF Refuse, Result, Fifo!Refuse, Fifo!Result, Queue
  <2>3. ASSUME NEW delete \in BOOLEAN, blocks = <<>>,
               UNCHANGED <<code, blocks, oom>>,
               last' = Result(Op(delete), NoMsg, FALSE)
        PROVE  Fifo!Nothing
    <3>1. Queue(blocks) = <<>> /\ Queue(blocks') = Queue(blocks)
      BY <2>0, <2>3, QueueProperties
    <3> QED BY <2>3, <3>1 DEF Result, Op, Fifo!Nothing, Fifo!Result, Queue
  <2>4. ASSUME blocks # <<>>, UNCHANGED <<code, blocks, oom>>,
               last' = Result("copy", blocks[1].msg, TRUE)
        PROVE  Fifo!Copy
    <3>1. /\ Queue(blocks) # <<>> /\ Queue(blocks') = Queue(blocks)
          /\ Head(Queue(blocks)) = blocks[1].msg
      BY <2>0, <2>4, QueueProperties, QueueTail
    <3> QED BY <2>4, <3>1 DEF Result, Fifo!Copy, Fifo!Result, Queue
  <2>5. ASSUME blocks # <<>>, blocks' = WithoutFirst(blocks),
               last' = Result("remove", blocks[1].msg, TRUE)
        PROVE  Fifo!Remove
    <3>1. /\ Queue(blocks) # <<>> /\ Queue(blocks') = Tail(Queue(blocks))
          /\ Head(Queue(blocks)) = blocks[1].msg
      BY <2>0, <2>5, QueueProperties, QueueTail
    <3> QED BY <2>5, <3>1 DEF Result, Fifo!Remove, Fifo!Result, Queue
  <2>6. CASE UNCHANGED vars
    BY <2>6 DEF vars, Fifo!vars
  <2> QED BY <2>1, <2>2, <2>3, <2>4, <2>5, <2>6, StepCases DEF Op, Fifo!Next
<1> QED BY <1>1, <1>2, TypeCorrect, LayoutCorrect, PTL DEF Spec, FifoSpec, Fifo!Spec
=============================================================================
