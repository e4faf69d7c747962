----------------------------- MODULE AsioBuffer -----------------------------
(***************************************************************************)
(* engine::asio_buffer (src/engine/net/asio_buffer.h, .cpp): a list of     *)
(* blocks with a read and a write position, grown and shrunk on the write  *)
(* side.  Used here by one thread at a time.                               *)
(*                                                                         *)
(* An iterator is the number of its block in the list.  Cells outside      *)
(* [read position, write position) hold no data and are kept at 0.  When   *)
(* the code would walk an iterator off the list, or use one whose block is *)
(* gone, its behaviour is undefined: ub becomes TRUE and nothing follows.  *)
(* Definitions with a suffix (Name_Slip) are mutants of Name.              *)
(***************************************************************************)
EXTENDS Integers, Sequences, SequencesExt

CONSTANTS BlockSize,      \* block_size_ (kInitialSize in the code)
          RemainRatio,    \* kRemainRatio
          LowUseCeil,     \* kLowUseCeilCount
          Values,         \* bound: a byte is one of 1..Values
          MaxLen,         \* bound: bytes moved by one operation
          MaxBlocks       \* bound: no write when the list is this long

ASSUME BufferAssumption ==
    /\ BlockSize \in Nat \ {0} /\ RemainRatio \in Nat \ {0} /\ LowUseCeil \in Nat \ {0}
    /\ BlockSize >= RemainRatio
    /\ MaxLen \in Nat /\ MaxBlocks \in Nat
    /\ Values \in Nat \ {0}

VARIABLES
    b,      \* the buffer
    next,   \* the producer counts through 1..Values; its next byte is next + 1
    ub      \* an operation was undefined

vars == <<b, next, ub>>

(* b.rb, b.ri and b.wb, b.wi are the read and the write position: block    *)
(* and index in it.  b.shrunk remembers that blocks were dropped.          *)
Blank == [c \in 1..BlockSize |-> 0]

Init ==
    /\ b = [blocks |-> << <<0>> >>, rb |-> 1, ri |-> 0, wb |-> 1, wi |-> 0,
            readable |-> 0, writable |-> 1, total |-> 1, low |-> 0,
            active |-> FALSE, shrunk |-> FALSE]
    /\ next = 0
    /\ ub = FALSE

-----------------------------------------------------------------------------
Size(x) == Len(x.blocks[1])
Lesser(m, n) == IF m < n THEN m ELSE n   \* the clamps under the assertions

(* adjust_index: where n bytes further is.  The code looks at that block,  *)
(* so it has to be in the list.                                            *)
Block(x, blk, i, n) == blk + (i + n) \div Size(x)
Index(x, i, n) == (i + n) % Size(x)

(* the bytes the list has room for behind the write position *)
Capacity(x) == (Len(x.blocks) - x.wb) * Size(x) + Size(x) - x.wi

CheckActive(x) ==
    IF x.active THEN x
    ELSE [x EXCEPT !.blocks = <<[Blank EXCEPT ![1] = x.blocks[1][1]], Blank>>,
                   !.writable = 2 * BlockSize, !.total = 2 * BlockSize, !.active = TRUE]

AddBlocks(x, n) ==
    [x EXCEPT !.blocks = @ \o [i \in 1..n |-> Blank],
              !.writable = @ + n * BlockSize, !.total = @ + n * BlockSize]

CheckToAddBlock_WhenFull(x, len) ==
    IF x.writable - Lesser(len, x.writable) < 0 THEN AddBlocks(x, 1) ELSE x

CheckToAddBlock(x, len) ==
    IF x.writable - Lesser(len, x.writable) < BlockSize \div RemainRatio
    THEN AddBlocks(x, 1) ELSE x

(* The blocks that were read empty move from the front to the back. *)
Recycle_Front(x) ==
    [x EXCEPT !.rb = 1, !.wb = @ - (x.rb - 1),
              !.writable = @ + (x.rb - 1) * BlockSize]

Recycle(x) ==
    [x EXCEPT !.blocks = SubSeq(@, x.rb, Len(@)) \o [i \in 1..x.rb - 1 |-> Blank],
              !.rb = 1, !.wb = @ - (x.rb - 1),
              !.writable = @ + (x.rb - 1) * BlockSize]

(* The list is "in low use" whenever half of what it could hold is less    *)
(* than its size; a quarter of it is dropped the LowUseCeil-th time.       *)
CountLowUse(x) ==
    IF Len(x.blocks) > 3 /\ (x.readable + x.writable) \div 2 < x.total
    THEN [x EXCEPT !.low = @ + 1] ELSE x

DropLowUse_NotReset(x) ==
    LET n == (x.total \div 4) \div BlockSize
    IN  IF x.low < LowUseCeil THEN x
        ELSE [x EXCEPT !.blocks = SubSeq(@, 1, Len(@) - n), !.total = @ - n * BlockSize,
                       !.shrunk = @ \/ n > 0]

DropLowUse(x) ==
    LET n == (x.total \div 4) \div BlockSize
    IN  IF x.low < LowUseCeil THEN x
        ELSE [x EXCEPT !.blocks = SubSeq(@, 1, Len(@) - n), !.total = @ - n * BlockSize,
                       !.low = 0, !.shrunk = @ \/ n > 0]

AdjustBuffer(x, len) ==
    LET y == Recycle(x)
        missing == len - y.writable
    IN  IF missing <= 0
        THEN DropLowUse(CountLowUse(CheckToAddBlock(y, len)))
        ELSE CheckToAddBlock(
                AddBlocks([y EXCEPT !.low = 0], (missing + BlockSize - 1) \div BlockSize), len)

(* write_bytes, and the write position moved n bytes on *)
WriteBytes(x, n) ==
    [x EXCEPT !.wb = Block(x, x.wb, x.wi, n), !.wi = Index(x, x.wi, n),
              !.readable = @ + n, !.writable = @ - n]

(* the cells behind the write position, overwritten with d *)
Fill(x, d) ==
    [x EXCEPT !.blocks =
        [j \in DOMAIN x.blocks |-> [c \in 1..Size(x) |->
            LET i == (j - x.wb) * Size(x) + c - x.wi
            IN  IF i \in DOMAIN d THEN d[i] ELSE x.blocks[j][c]]]]

(* the n-th byte from the read position on *)
Cell(x, n) == x.blocks[Block(x, x.rb, x.ri, n - 1)][Index(x, x.ri, n - 1) + 1]

Unread(x, n) ==
    [x EXCEPT !.rb = Block(x, x.rb, x.ri, n), !.ri = Index(x, x.ri, n),
              !.readable = @ - n,
              !.blocks = [j \in DOMAIN x.blocks |-> [c \in 1..Size(x) |->
                 IF (j - x.rb) * Size(x) + c - x.ri \in 1..n THEN 0 ELSE x.blocks[j][c]]]]

Produced(n) == [i \in 1..n |-> ((next + i - 1) % Values) + 1]

-----------------------------------------------------------------------------
(* One operation: x is the buffer moved to the new position if that is in  *)
(* the list, and n bytes were produced for it.                             *)
Undefined(x) ==
    ub' = TRUE /\ b' = [b EXCEPT !.shrunk = x.shrunk] /\ UNCHANGED next

Writes(x, n) ==
    \/ x.wb > Len(x.blocks) /\ Undefined(x)
    \/ /\ x.wb <= Len(x.blocks)
       /\ b' = x /\ next' = (next + n) % Values /\ UNCHANGED ub

(* append *)
AppendData(n) ==
    /\ ~ub /\ Len(b.blocks) <= MaxBlocks
    /\ Writes(WriteBytes(Fill(AdjustBuffer(CheckActive(b), n), Produced(n)), n), n)

(* asio fills what mutable_buffer() gave it, then has_written says how far *)
HasWritten(n) ==
    /\ ~ub /\ Len(b.blocks) <= MaxBlocks
    /\ n <= Capacity(b)
    /\ Writes(WriteBytes(AdjustBuffer(CheckActive(Fill(b, Produced(n))), n), n), n)

(* retrieve; read is peek and retrieve *)
Retrieve(n) ==
    /\ ~ub /\ n <= b.readable
    /\ \/ Block(b, b.rb, b.ri, n) > Len(b.blocks) /\ Undefined(b)
       \/ /\ Block(b, b.rb, b.ri, n) <= Len(b.blocks)
          /\ b' = Unread(b, n) /\ UNCHANGED <<next, ub>>

Next == \E n \in 0..MaxLen : AppendData(n) \/ HasWritten(n) \/ Retrieve(n)

Spec == Init /\ [][Next]_vars

-----------------------------------------------------------------------------
Live == (b.wb - b.rb) * Size(b) + b.wi - b.ri

Contents == [n \in 1..Live |-> Cell(b, n)]

(* const_buffer: what is handed to async_write_some, one piece per block *)
Piece_LastWhole(j) ==
    SubSeq(b.blocks[j], IF j = b.rb THEN b.ri + 1 ELSE 1,
                        IF j = b.wb /\ j = b.rb THEN b.wi ELSE Size(b))

Piece(j) ==
    LET first == IF j = b.rb THEN b.ri + 1 ELSE 1
        last  == IF j = b.wb THEN b.wi ELSE Size(b)
    IN  SubSeq(b.blocks[j], first, last)

ConstBuffer == FlattenSeq([j \in 1..b.wb - b.rb + 1 |-> Piece(b.rb + j - 1)])

(* The members have their types; the low-use counter stays within its      *)
(* ceiling.                                                                *)
TypeOK ==
    /\ b.blocks \in Seq([1..Size(b) -> 0..Values])
    /\ {b.rb, b.ri, b.wb, b.wi, b.readable, b.writable, b.total} \subseteq Nat
    /\ b.low \in 0..LowUseCeil
    /\ next \in 0..Values - 1 /\ ub \in BOOLEAN

(* As long as no block was dropped, the counters are the positions: what   *)
(* has_written and append believe is free is there, and no operation walks *)
(* off the list.                                                           *)
SoundUntilShrunk ==
    ~b.shrunk =>
        /\ ~ub
        /\ b.writable = Capacity(b)
        /\ b.total = Len(b.blocks) * Size(b)

(* What the write side gathers for the socket is what readable_bytes says. *)
GathersAll == ~ub => b.readable = Live /\ ConstBuffer = Contents

(* asio_buffer.h:145: "adjust_buffer have to make sure at least 1 byte to  *)
(* write", beyond the len bytes it is called for.                          *)
LeavesRoom ==
    ~ub => \A n \in 0..MaxLen : Capacity(AdjustBuffer(CheckActive(b), n)) > n

Queue == INSTANCE ByteQueue WITH bytes <- Contents

(* Bytes leave as they came, in that order, each once, as long as the      *)
(* code's behaviour is defined: the buffer implements ByteQueue.           *)
ImplementsByteQueue == Queue!Spec
=============================================================================
