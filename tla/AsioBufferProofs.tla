-------------------------- MODULE AsioBufferProofs --------------------------
(***************************************************************************)
(* Theorems about AsioBuffer, for blocks of every size, every ratio and    *)
(* every ceiling.                                                          *)
(*                                                                         *)
(* A position is the number of cells before it: with blocks of s cells,    *)
(* block p and index i are Cells(p, s) + i, and adjust_index is addition   *)
(* (Further).  Sound says how the positions and the counters agree, and    *)
(* Carries that a buffer holds another's bytes wherever its own positions  *)
(* are.  Each part of adjust_buffer keeps the first and does the second,   *)
(* so that an operation adds or removes what it is asked to; BInv and the  *)
(* refinement of ByteQueue follow from that.                               *)
(***************************************************************************)
EXTENDS AsioBuffer, SequenceTheorems, WellFoundedInduction, TLAPS

-----------------------------------------------------------------------------
(* p blocks of s cells.  The provers count with Cells and not with         *)
(* products.                                                               *)
Cells(p, s) == p * s

(* Cells are counted in naturals. *)
LEMMA CellsNat == ASSUME NEW p \in Nat, NEW s \in Nat PROVE Cells(p, s) \in Nat
BY DEF Cells

(* Cells of blocks add up. *)
LEMMA CellsSum ==
    ASSUME NEW p \in Int, NEW q \in Int, NEW s \in Nat
    PROVE  Cells(p + q, s) = Cells(p, s) + Cells(q, s)
BY DEF Cells

(* Cells of blocks, subtracted. *)
LEMMA CellsDiff ==
    ASSUME NEW p \in Int, NEW q \in Int, NEW s \in Nat
    PROVE  Cells(p - q, s) = Cells(p, s) - Cells(q, s)
BY DEF Cells

(* A block further on is a whole block further on. *)
LEMMA CellsOrder ==
    ASSUME NEW p \in Int, NEW q \in Int, NEW s \in Nat, p < q
    PROVE  Cells(p, s) + s <= Cells(q, s)
BY DEF Cells

(* No block has no cells, one block has its own. *)
LEMMA FewCells == ASSUME NEW s \in Nat PROVE Cells(0, s) = 0 /\ Cells(1, s) = s
BY DEF Cells

(* Quotient and remainder. *)
LEMMA DivMod ==
    ASSUME NEW a \in Nat, NEW s \in Nat \ {0}
    PROVE  \E d \in Nat, m \in 0..s - 1 : d = a \div s /\ m = a % s /\ a = Cells(d, s) + m
BY DEF Cells

(* A place is a block and an index in it; the places of a list with blocks *)
(* of s cells have an order and are told apart by their offsets.           *)
LEMMA Places ==
    ASSUME NEW s \in Nat \ {0}, NEW p \in Nat, NEW q \in Nat,
           NEW i \in 0..s - 1, NEW j \in 0..s - 1
    PROVE  /\ Cells(p, s) + i <= Cells(q, s) + j => p <= q
           /\ Cells(p, s) + i = Cells(q, s) + j => p = q /\ i = j
<1>1. /\ Cells(p, s) \in Nat /\ Cells(q, s) \in Nat
      /\ p < q => Cells(p, s) + s <= Cells(q, s)
      /\ q < p => Cells(q, s) + s <= Cells(p, s)
  BY CellsNat, CellsOrder
<1> QED
  BY <1>1

(* adjust_index: the place that is n cells further. *)
LEMMA Further ==
    ASSUME NEW s \in Nat \ {0}, NEW p \in Nat, NEW i \in 0..s - 1, NEW n \in Nat,
           NEW x, Size(x) = s
    PROVE  /\ Block(x, p, i, n) \in Nat /\ Index(x, i, n) \in 0..s - 1
           /\ Cells(Block(x, p, i, n), s) + Index(x, i, n) = Cells(p, s) + i + n
           /\ Block(x, p, i, n) >= p
<1>1. i + n \in Nat
  OBVIOUS
<1>2. PICK d \in Nat, m \in 0..s - 1 :
         d = (i + n) \div s /\ m = (i + n) % s /\ i + n = Cells(d, s) + m
  BY <1>1, DivMod
<1>3. Block(x, p, i, n) = p + d /\ Index(x, i, n) = m
  BY <1>2, Zenon DEF Block, Index
<1>4. p + d \in Nat /\ p + d >= p
  OBVIOUS
<1>5. Cells(p + d, s) = Cells(p, s) + Cells(d, s)
  BY CellsSum
<1>6. Cells(p, s) \in Nat /\ Cells(d, s) \in Nat
  BY CellsNat
<1>7. i + n = Cells(d, s) + m
  BY <1>2
<1>8. Cells(p + d, s) + m = Cells(p, s) + i + n
  BY <1>5, <1>7, <1>6
<1> QED
  BY <1>3, <1>4, <1>8

-----------------------------------------------------------------------------
(* Buffers with blocks of s cells, and what they keep while a buffer grows *)
(* and shrinks.  Placed: the write position is behind the read position by *)
(* what is readable.  Room: total_bytes_ is the length of the list, and as *)
(* long as no block was dropped, writable_bytes_ is what is behind the     *)
(* write position.                                                         *)
BlocksOf(s) == [1..s -> 0..Values]

Buffers(s) ==
    [blocks : Seq(BlocksOf(s)),
     rb : Nat \ {0}, ri : 0..s - 1, wb : Nat \ {0}, wi : 0..s - 1,
     readable : Nat, writable : Nat, total : Nat, low : Nat,
     active : BOOLEAN, shrunk : BOOLEAN]

Placed(x, s) == Cells(x.wb, s) + x.wi = Cells(x.rb, s) + x.ri + x.readable

Room(x, s) ==
    /\ Len(x.blocks) >= 1 /\ x.total = Cells(Len(x.blocks), s)
    /\ ~x.shrunk => Cells(x.wb, s) + x.wi + x.writable = Cells(Len(x.blocks), s) + s

Sound(x, s) == x \in Buffers(s) /\ Placed(x, s) /\ Room(x, s)

InList(x) == x.wb <= Len(x.blocks)

(* What moves a block moves no position in it. *)
SameIndexes(x, y) == y.ri = x.ri /\ y.wi = x.wi /\ y.readable = x.readable
SamePlaces(x, y) == SameIndexes(x, y) /\ y.rb = x.rb /\ y.wb = x.wb

(* The constants as numbers. *)
LEMMA Constants ==
    BlockSize \in Nat \ {0} /\ RemainRatio \in Nat \ {0} /\ LowUseCeil \in Nat \ {0}
    /\ BlockSize >= RemainRatio /\ Values \in Nat \ {0} /\ MaxLen \in Nat
BY BufferAssumption

(* What there is to say of any sequence. *)
LEMMA SeqFacts ==
    ASSUME NEW S, NEW q \in Seq(S)
    PROVE  Len(q) \in Nat /\ DOMAIN q = 1..Len(q) /\ \A j \in 1..Len(q) : q[j] \in S
OBVIOUS

(* A sequence put behind another. *)
LEMMA Behind ==
    ASSUME NEW S, NEW q \in Seq(S), NEW r \in Seq(S)
    PROVE  /\ q \o r \in Seq(S) /\ Len(q \o r) = Len(q) + Len(r)
           /\ \A j \in 1..Len(q) : (q \o r)[j] = q[j]
OBVIOUS

(* The numbers among the members of a buffer, and its list. *)
LEMMA Numbers ==
    ASSUME NEW s \in Nat \ {0}, NEW x \in Buffers(s)
    PROVE  /\ x.rb \in Nat \ {0} /\ x.ri \in 0..s - 1 /\ x.wb \in Nat \ {0} /\ x.wi \in 0..s - 1
           /\ x.readable \in Nat /\ x.writable \in Nat /\ x.total \in Nat /\ x.low \in Nat
           /\ Cells(x.rb, s) \in Nat /\ Cells(x.wb, s) \in Nat
<1>1. /\ x.rb \in Nat \ {0} /\ x.ri \in 0..s - 1 /\ x.wb \in Nat \ {0} /\ x.wi \in 0..s - 1
      /\ x.readable \in Nat /\ x.writable \in Nat /\ x.total \in Nat /\ x.low \in Nat
  BY DEF Buffers
<1> QED
  BY <1>1, CellsNat

(* The block list of a buffer, and its cells. *)
LEMMA Lists ==
    ASSUME NEW s \in Nat \ {0}, NEW x \in Buffers(s)
    PROVE  /\ x.blocks \in Seq(BlocksOf(s)) /\ Len(x.blocks) \in Nat
           /\ DOMAIN x.blocks = 1..Len(x.blocks)
           /\ \A j \in 1..Len(x.blocks) : x.blocks[j] \in BlocksOf(s)
           /\ Cells(Len(x.blocks), s) \in Nat
<1>1. x.blocks \in Seq(BlocksOf(s))
  BY DEF Buffers
<1>2. /\ Len(x.blocks) \in Nat /\ DOMAIN x.blocks = 1..Len(x.blocks)
      /\ \A j \in 1..Len(x.blocks) : x.blocks[j] \in BlocksOf(s)
  BY <1>1, SeqFacts
<1>3. Cells(Len(x.blocks), s) \in Nat
  BY <1>2, CellsNat
<1> QED
  BY <1>1, <1>2, <1>3

(* The size of the blocks is that of the first. *)
LEMMA SizeIs ==
    ASSUME NEW s \in Nat \ {0}, NEW x \in Buffers(s), Len(x.blocks) >= 1
    PROVE  Size(x) = s
<1>1. x.blocks[1] \in BlocksOf(s)
  <2>1. 1 \in 1..Len(x.blocks)
    BY Lists
  <2> QED
    BY <2>1, Lists
<1>2. \A f \in BlocksOf(s) : Len(f) = s
  BY DEF BlocksOf
<1> QED
  BY <1>1, <1>2 DEF Size

(* The order of the positions.                                             *)
LEMMA PlacesInOrder ==
    ASSUME NEW s \in Nat \ {0}, NEW x \in Buffers(s), Placed(x, s)
    PROVE  x.rb <= x.wb
<1>1. Cells(x.rb, s) + x.ri <= Cells(x.wb, s) + x.wi
  BY Numbers DEF Placed
<1> QED
  BY <1>1, Numbers, Places

(* What is writable lies behind the write index. *)
LEMMA RoomBehind ==
    ASSUME NEW s \in Nat \ {0}, NEW l \in Nat, NEW w \in Nat, NEW i \in 0..s - 1, NEW c \in Nat,
           Cells(w, s) + i + c = Cells(l, s) + s
    PROVE  (c > 0 => w <= l) /\ c = Cells(l - w, s) + s - i
<1>1. Cells(l, s) \in Nat /\ Cells(w, s) \in Nat
  BY CellsNat
<1>2. Cells(l - w, s) = Cells(l, s) - Cells(w, s)
  BY CellsDiff
<1>3. l < w => Cells(l, s) + s <= Cells(w, s)
  BY CellsOrder
<1> QED
  BY <1>1, <1>2, <1>3

(* The write index is in the list while anything is writable. *)
LEMMA RoomInList ==
    ASSUME NEW s \in Nat \ {0}, NEW x \in Buffers(s), Room(x, s), ~x.shrunk, x.writable > 0
    PROVE  InList(x) /\ x.writable = Cells(Len(x.blocks) - x.wb, s) + s - x.wi
<1>1. PICK l \in Nat, w \in Nat, i \in 0..s - 1, c \in Nat :
         l = Len(x.blocks) /\ w = x.wb /\ i = x.wi /\ c = x.writable
  BY Numbers, Lists
<1>2. Cells(w, s) + i + c = Cells(l, s) + s /\ c > 0
  BY <1>1 DEF Room
<1>3. w <= l /\ c = Cells(l - w, s) + s - i
  BY <1>2, RoomBehind
<1> QED
  BY <1>1, <1>3 DEF InList

-----------------------------------------------------------------------------
(* The m-th byte from the read position on has a cell in the list; y holds *)
(* what x holds, with positions that are the same number of blocks apart.  *)
Reaches(x, m) == Block(x, x.rb, x.ri, m - 1) <= Len(x.blocks)

Carries(x, y) ==
    /\ SameIndexes(x, y) /\ y.wb - y.rb = x.wb - x.rb
    /\ \A m \in Nat \ {0} : Reaches(x, m) => Reaches(y, m) /\ Cell(y, m) = Cell(x, m)

(* It does when its blocks from the read position on are those of x, moved *)
(* d places to the front.                                                  *)
LEMMA CarriesBlocks ==
    ASSUME NEW s \in Nat \ {0}, NEW x \in Buffers(s), NEW y \in Buffers(s), NEW d \in Nat,
           Len(x.blocks) >= 1, Len(y.blocks) >= 1,
           SameIndexes(x, y), x.rb = y.rb + d, x.wb = y.wb + d,
           \A j \in y.rb..Len(x.blocks) - d :
               j <= Len(y.blocks) /\ y.blocks[j] = x.blocks[j + d]
    PROVE  Carries(x, y)
<1>1. Size(x) = s /\ Size(y) = s
  BY SizeIs
<1>2. PICK p \in Nat, r \in Nat, i \in 0..s - 1, l \in Nat :
         p = x.rb /\ r = y.rb /\ i = x.ri /\ l = Len(x.blocks) /\ i = y.ri /\ p = r + d
  BY Numbers, Lists DEF SameIndexes
<1>3. ASSUME NEW m \in Nat \ {0}, Reaches(x, m)
      PROVE  Reaches(y, m) /\ Cell(y, m) = Cell(x, m)
  <2>1. PICK n \in Nat : n = m - 1
    OBVIOUS
  <2>2. PICK q \in Nat, k \in 0..s - 1 : Block(x, p, i, n) = q /\ Index(x, i, n) = k /\ q >= p
    <3>1. /\ Block(x, p, i, n) \in Nat /\ Index(x, i, n) \in 0..s - 1
          /\ Block(x, p, i, n) >= p
      BY <1>1, Further
    <3> QED
      BY <3>1
  <2>3. Index(y, i, n) = k
    BY <1>1, <2>2 DEF Index
  <2>4. PICK j \in Nat : q = j + d /\ Block(y, r, i, n) = j /\ j >= r
    <3>1. PICK c \in Int : c = (i + n) \div s
      OBVIOUS
    <3>2. q = p + c /\ Block(y, r, i, n) = r + c
      BY <1>1, <2>2, <3>1 DEF Block
    <3>3. c >= 0 /\ r + c \in Nat
      <4>1. q = p + c /\ q >= p
        BY <2>2, <3>2
      <4>2. c >= 0
        BY <4>1
      <4> QED
        BY <4>2
    <3>4. q = (r + c) + d
      BY <1>2, <3>2
    <3>5. r + c >= r
      BY <3>3
    <3> QED
      BY <3>2, <3>3, <3>4, <3>5, Zenon
  <2>5. q <= l
    BY <1>2, <1>3, <2>1, <2>2 DEF Reaches
  <2>6. j <= Len(y.blocks) /\ y.blocks[j] = x.blocks[q]
    <3>1. j \in r..l - d
      BY <2>4, <2>5
    <3> QED
      BY <1>2, <2>4, <3>1
  <2> QED
    BY <1>2, <2>1, <2>2, <2>3, <2>4, <2>6 DEF Reaches, Cell
<1>4. y.wb - y.rb = x.wb - x.rb
  BY Numbers
<1> QED
  BY <1>3, <1>4 DEF Carries

(* What is carried twice is carried. *)
LEMMA CarriesOn ==
    ASSUME NEW x, NEW y, NEW z, Carries(x, y), Carries(y, z)
    PROVE  Carries(x, z)
BY DEF Carries, SameIndexes

-----------------------------------------------------------------------------
(* One lemma for each part of adjust_buffer. *)
LEMMA AddBlocksDoes ==
    ASSUME NEW x \in Buffers(BlockSize), NEW n \in Nat, Sound(x, BlockSize)
    PROVE  LET y == AddBlocks(x, n)
           IN  /\ Sound(y, BlockSize) /\ SamePlaces(x, y)
               /\ y.low = x.low /\ y.shrunk = x.shrunk /\ y.active = x.active
               /\ y.writable = x.writable + Cells(n, BlockSize)
               /\ Len(y.blocks) = Len(x.blocks) + n
               /\ \A j \in 1..Len(x.blocks) : y.blocks[j] = x.blocks[j]
<1> USE Constants
<1> DEFINE y == AddBlocks(x, n)
           more == [i \in 1..n |-> Blank]
<1>1. Cells(n, BlockSize) \in Nat
  BY CellsNat
<1>2. more \in Seq(BlocksOf(BlockSize)) /\ Len(more) = n
  BY DEF Blank, BlocksOf
<1>3. y.blocks = x.blocks \o more
  BY DEF AddBlocks, Buffers
<1>4. y.writable = x.writable + Cells(n, BlockSize) /\ y.total = x.total + Cells(n, BlockSize)
  BY DEF AddBlocks, Buffers, Cells
<1>5. SamePlaces(x, y) /\ y.low = x.low /\ y.shrunk = x.shrunk /\ y.active = x.active
  BY DEF AddBlocks, Buffers, SamePlaces, SameIndexes
<1>6. y.blocks \in Seq(BlocksOf(BlockSize)) /\ Len(y.blocks) = Len(x.blocks) + n
      /\ \A j \in 1..Len(x.blocks) : y.blocks[j] = x.blocks[j]
  <2> HIDE DEF more, y
  <2>1. x.blocks \in Seq(BlocksOf(BlockSize))
    BY Lists
  <2> QED
    <3>1. /\ x.blocks \o more \in Seq(BlocksOf(BlockSize))
          /\ Len(x.blocks \o more) = Len(x.blocks) + Len(more)
          /\ \A j \in 1..Len(x.blocks) : (x.blocks \o more)[j] = x.blocks[j]
      BY <1>2, <2>1, Behind
    <3> QED
      BY <1>2, <1>3, <3>1
<1>7. y \in Buffers(BlockSize)
  <2>1. y.writable \in Nat /\ y.total \in Nat
    <3> HIDE DEF y
    <3> QED
      BY <1>1, <1>4, Numbers
  <2> QED
    BY <1>6, <2>1 DEF AddBlocks, Buffers
<1> HIDE DEF y
<1>8. Placed(y, BlockSize)
  BY <1>5 DEF Sound, Placed, SamePlaces, SameIndexes
<1>9. Room(y, BlockSize)
  <2>1. PICK l \in Nat : l = Len(x.blocks)
    BY Lists
  <2>2. Cells(l + n, BlockSize) = Cells(l, BlockSize) + Cells(n, BlockSize)
    BY CellsSum
  <2>3. Cells(l, BlockSize) \in Nat
    BY CellsNat
  <2>4. PICK w \in Nat, i \in Nat, c \in Nat, t \in Nat :
          /\ w = Cells(x.wb, BlockSize) /\ i = x.wi /\ c = x.writable /\ t = x.total
    BY Numbers
  <2>5. l >= 1 /\ t = Cells(l, BlockSize)
        /\ (~x.shrunk => w + i + c = Cells(l, BlockSize) + BlockSize)
    BY <2>1, <2>4 DEF Sound, Room
  <2>6. /\ l + n >= 1 /\ t + Cells(n, BlockSize) = Cells(l + n, BlockSize)
        /\ ~x.shrunk => w + i + (c + Cells(n, BlockSize)) = Cells(l + n, BlockSize) + BlockSize
    BY <1>1, <2>2, <2>3, <2>5
  <2>7. y.wb = x.wb /\ y.wi = x.wi /\ y.shrunk = x.shrunk /\ Len(y.blocks) = Len(x.blocks) + n
    BY <1>5, <1>6 DEF SamePlaces, SameIndexes
  <2> QED
    BY <1>4, <2>1, <2>4, <2>6, <2>7, Zenon DEF Room
<1> QED
  BY <1>4, <1>5, <1>6, <1>7, <1>8, <1>9 DEF Sound, y

(* Adding blocks changes no content. *)
LEMMA AddBlocksCarries ==
    ASSUME NEW x \in Buffers(BlockSize), NEW n \in Nat, Sound(x, BlockSize)
    PROVE  Carries(x, AddBlocks(x, n))
<1> DEFINE y == AddBlocks(x, n)
<1>1. /\ y \in Buffers(BlockSize) /\ SamePlaces(x, y)
      /\ Len(y.blocks) = Len(x.blocks) + n
      /\ \A j \in 1..Len(x.blocks) : y.blocks[j] = x.blocks[j]
  BY AddBlocksDoes DEF Sound
<1> HIDE DEF y
<1>2. Len(x.blocks) \in Nat /\ Len(x.blocks) >= 1 /\ x.rb \in Nat \ {0} /\ x.wb \in Nat
  BY Numbers, Lists, Constants DEF Sound, Room
<1>3. \A j \in y.rb..Len(x.blocks) - 0 : j <= Len(y.blocks) /\ y.blocks[j] = x.blocks[j + 0]
  <2> SUFFICES ASSUME NEW j \in y.rb..Len(x.blocks) - 0
               PROVE  j <= Len(y.blocks) /\ y.blocks[j] = x.blocks[j + 0]
    OBVIOUS
  <2>1. j \in 1..Len(x.blocks) /\ j + 0 = j
    BY <1>1, <1>2 DEF SamePlaces
  <2> QED
    BY <1>1, <1>2, <2>1
<1>4. Len(y.blocks) >= 1 /\ x.rb = y.rb + 0 /\ x.wb = y.wb + 0 /\ SameIndexes(x, y)
  BY <1>1, <1>2 DEF SamePlaces
<1>5. Carries(x, y)
  BY <1>1, <1>2, <1>3, <1>4, Constants, CarriesBlocks
<1> QED
  BY <1>5 DEF y

(* check_to_add_block leaves more room than was asked for. *)
LEMMA CheckToAddBlockDoes ==
    ASSUME NEW x \in Buffers(BlockSize), Sound(x, BlockSize), NEW len \in Nat, len <= x.writable
    PROVE  LET y == CheckToAddBlock(x, len)
           IN  /\ Sound(y, BlockSize) /\ Carries(x, y)
               /\ y.low = x.low /\ y.shrunk = x.shrunk /\ y.active = x.active
               /\ y.writable > len
<1>1. PICK e \in Nat \ {0} : BlockSize \div RemainRatio = e
  <2>1. PICK d \in Nat, m \in 0..RemainRatio - 1 :
           d = BlockSize \div RemainRatio /\ m = BlockSize % RemainRatio
           /\ BlockSize = Cells(d, RemainRatio) + m
    BY Constants, DivMod
  <2>2. BlockSize = Cells(d, RemainRatio) + m /\ Cells(0, RemainRatio) = 0
    BY <2>1, Constants, FewCells
  <2>3. d # 0
    BY <2>2, Constants
  <2> QED
    BY <2>1, <2>3
<1>2. PICK w \in Nat : w = x.writable /\ len <= w
  BY Numbers, Constants
<1>3. x.writable - Lesser(len, x.writable) = w - len
  BY <1>2 DEF Lesser
<1>4. CASE w - len < e
  <2>1. CheckToAddBlock(x, len) = AddBlocks(x, 1)
    BY <1>1, <1>3, <1>4 DEF CheckToAddBlock
  <2>2. LET y == AddBlocks(x, 1)
        IN  /\ Sound(y, BlockSize) /\ Carries(x, y)
            /\ y.low = x.low /\ y.shrunk = x.shrunk /\ y.active = x.active
            /\ y.writable = w + Cells(1, BlockSize)
    BY <1>2, AddBlocksDoes, AddBlocksCarries
  <2>3. w + Cells(1, BlockSize) > len
    BY <1>2, Constants, FewCells
  <2> QED
    BY <2>1, <2>2, <2>3
<1>5. CASE ~(w - len < e)
  <2>1. CheckToAddBlock(x, len) = x
    BY <1>1, <1>3, <1>5 DEF CheckToAddBlock
  <2>2. w > len
    BY <1>2, <1>5
  <2>3. Carries(x, x)
    BY DEF Carries, SameIndexes
  <2> QED
    BY <1>2, <2>1, <2>2, <2>3
<1> QED
  BY <1>4, <1>5

(* The first d blocks of a list have gone.                                 *)
LEMMA Rotated ==
    ASSUME NEW S, NEW q \in Seq(S), NEW r \in Seq(S), NEW d \in Nat, d < Len(q),
           NEW p, p = SubSeq(q, d + 1, Len(q)) \o r
    PROVE  /\ p \in Seq(S) /\ Len(p) = Len(q) - d + Len(r)
           /\ \A j \in 1..Len(q) - d : p[j] = q[j + d]
<1> DEFINE t == SubSeq(q, d + 1, Len(q))
<1>1. /\ t \in Seq(S) /\ Len(t) = Len(q) - d
      /\ \A j \in 1..Len(q) - d : t[j] = q[j + d]
  <2>1. PICK l \in Nat : l = Len(q) /\ d + 1 \in 1..l
    OBVIOUS
  <2>2. /\ t \in Seq(S)
        /\ Len(t) = IF d + 1 <= Len(q) THEN Len(q) - (d + 1) + 1 ELSE 0
        /\ \A j \in 1..Len(q) - (d + 1) + 1 : t[j] = q[(d + 1) + j - 1]
    <3>1. \A i \in d + 1..Len(q) : q[i] \in S
      BY <2>1
    <3>2. d + 1 \in Int /\ Len(q) \in Int
      BY <2>1
    <3> QED
      BY <3>1, <3>2, SubSeqProperties
  <2>3. d + 1 <= l /\ l - (d + 1) + 1 = l - d
    BY <2>1
  <2>4. \A j \in 1..l - d : (d + 1) + j - 1 = j + d
    OBVIOUS
  <2> HIDE DEF t
  <2> QED
    BY <2>1, <2>2, <2>3, <2>4
<1> HIDE DEF t
<1>2. /\ t \o r \in Seq(S) /\ Len(t \o r) = Len(t) + Len(r)
      /\ \A j \in 1..Len(t) : (t \o r)[j] = t[j]
  BY <1>1, Behind
<1> QED
  BY <1>1, <1>2 DEF t

(* recycle moves used blocks behind the rest. *)
LEMMA RecycleDoes ==
    ASSUME NEW x \in Buffers(BlockSize), Sound(x, BlockSize), InList(x)
    PROVE  LET y == Recycle(x)
           IN  /\ Sound(y, BlockSize) /\ Carries(x, y)
               /\ y.low = x.low /\ y.shrunk = x.shrunk /\ y.active = x.active
<1> USE Constants
<1> DEFINE y == Recycle(x)
           blanks == [i \in 1..x.rb - 1 |-> Blank]
<1>1. PICK d \in Nat, l \in Nat, w \in Nat \ {0} :
         /\ x.rb = d + 1 /\ x.rb - 1 = d /\ l = Len(x.blocks) /\ w = x.wb /\ d + 1 <= w /\ w <= l
  <2>1. x.rb \in Nat \ {0} /\ x.rb - 1 \in Nat /\ x.rb = (x.rb - 1) + 1
    BY Numbers
  <2>2. x.rb <= x.wb /\ x.wb <= Len(x.blocks) /\ x.wb \in Nat \ {0} /\ Len(x.blocks) \in Nat
    BY Numbers, Lists, PlacesInOrder DEF Sound, InList
  <2> QED
    BY <2>1, <2>2
<1>2. y.blocks = SubSeq(x.blocks, d + 1, l) \o blanks
  BY <1>1 DEF Recycle, Buffers
<1>3. y.rb = 1 /\ y.wb = w - d /\ y.writable = x.writable + Cells(d, BlockSize)
  BY <1>1 DEF Recycle, Buffers, Cells
<1>4. SameIndexes(x, y) /\ y.low = x.low /\ y.shrunk = x.shrunk /\ y.active = x.active
      /\ y.total = x.total
  BY DEF Recycle, Buffers, SameIndexes
<1>5. Cells(d, BlockSize) \in Nat
  BY CellsNat
<1>6. PICK c \in Nat, i \in Nat, n \in Nat, ri \in Nat, t \in Nat :
         c = x.writable /\ i = x.wi /\ n = x.readable /\ ri = x.ri /\ t = x.total
  <2>1. x.writable \in Nat /\ x.readable \in Nat /\ x.total \in Nat
    BY Numbers
  <2>2. x.wi \in 0..BlockSize - 1 /\ x.ri \in 0..BlockSize - 1
    BY Numbers
  <2>3. x.wi \in Nat /\ x.ri \in Nat
    BY <2>2
  <2> QED
    BY <2>1, <2>3
<1>7. y.blocks \in Seq(BlocksOf(BlockSize)) /\ Len(y.blocks) = l
      /\ \A j \in 1..l - d : y.blocks[j] = x.blocks[j + d]
  <2>1. x.blocks \in Seq(BlocksOf(BlockSize))
    BY Lists
  <2>2. blanks \in Seq(BlocksOf(BlockSize)) /\ Len(blanks) = d
    BY <1>1 DEF Blank, BlocksOf
  <2> HIDE DEF blanks, y
  <2>3. PICK q \in Seq(BlocksOf(BlockSize)), r \in Seq(BlocksOf(BlockSize)) :
           q = x.blocks /\ r = blanks /\ Len(q) = l /\ Len(r) = d
    BY <1>1, <2>1, <2>2
  <2>4. d < Len(q)
    BY <1>1, <2>3
  <2>5. PICK p : p = y.blocks
    OBVIOUS
  <2>6. p = SubSeq(q, d + 1, Len(q)) \o r
    BY <1>1, <1>2, <2>3, <2>5
  <2>7. /\ p \in Seq(BlocksOf(BlockSize)) /\ Len(p) = Len(q) - d + Len(r)
        /\ \A j \in 1..Len(q) - d : p[j] = q[j + d]
    BY <2>4, <2>6, Rotated
  <2>8. Len(q) - d + Len(r) = l
    BY <2>3
  <2> QED
    BY <2>3, <2>5, <2>8, <2>7, Zenon
<1>8. y \in Buffers(BlockSize)
  <2>1. y.writable \in Nat /\ y.wb \in Nat \ {0}
    <3> HIDE DEF y
    <3> QED
      <4>1. y.writable \in Nat
        BY <1>3, <1>5, <1>6
      <4>2. w - d \in Nat \ {0}
        BY <1>1
      <4> QED
        BY <1>3, <4>1, <4>2
  <2>2. y.rb \in Nat \ {0}
    BY <1>3
  <2> QED
    BY <1>7, <2>1, <2>2 DEF Recycle, Buffers
<1> HIDE DEF y
<1>9. Cells(w - d, BlockSize) = Cells(w, BlockSize) - Cells(d, BlockSize)
  BY CellsDiff
<1>10. Cells(d + 1, BlockSize) = Cells(d, BlockSize) + Cells(1, BlockSize)
  BY CellsSum
<1>11. Cells(w, BlockSize) \in Nat /\ Cells(1, BlockSize) \in Nat /\ Cells(l, BlockSize) \in Nat
  BY CellsNat
<1>12. Placed(y, BlockSize)
  <2>1. Cells(w, BlockSize) + i = Cells(d + 1, BlockSize) + ri + n
    BY <1>1, <1>6 DEF Sound, Placed
  <2>2. Cells(w - d, BlockSize) + i = Cells(1, BlockSize) + ri + n
    <3>1. PICK cw \in Nat, cd \in Nat, c1 \in Nat :
             /\ cw = Cells(w, BlockSize) /\ cd = Cells(d, BlockSize) /\ c1 = Cells(1, BlockSize)
      BY <1>5, <1>11
    <3>2. cw + i = cd + c1 + ri + n
      BY <1>10, <2>1, <3>1
    <3>3. (cw - cd) + i = c1 + ri + n
      BY <3>2
    <3> QED
      BY <1>9, <3>1, <3>3
  <2> QED
    BY <1>3, <1>4, <1>6, <2>2 DEF Placed, SameIndexes
<1>13. Room(y, BlockSize)
  <2>1. l >= 1 /\ t = Cells(l, BlockSize)
        /\ (~x.shrunk => Cells(w, BlockSize) + i + c = Cells(l, BlockSize) + BlockSize)
    BY <1>1, <1>6 DEF Sound, Room
  <2>2. ~x.shrunk => Cells(w - d, BlockSize) + i + (c + Cells(d, BlockSize))
                       = Cells(l, BlockSize) + BlockSize
    BY <1>5, <1>9, <1>11, <2>1
  <2> QED
    BY <1>3, <1>4, <1>7, <1>6, <2>1, <2>2 DEF Room, SameIndexes
<1>14. Carries(x, y)
  <2>1. Len(x.blocks) >= 1 /\ Len(y.blocks) >= 1
    BY <1>1, <1>7
  <2>2. x.rb = y.rb + d /\ x.wb = y.wb + d
    BY <1>1, <1>3
  <2>3. \A j \in y.rb..Len(x.blocks) - d : j <= Len(y.blocks) /\ y.blocks[j] = x.blocks[j + d]
    <3>1. \A j \in 1..l - d : j <= l
      OBVIOUS
    <3> QED
      BY <1>1, <1>3, <1>7, <3>1
  <2> QED
    BY <1>4, <1>8, <2>1, <2>2, <2>3, CarriesBlocks
<1> QED
  BY <1>4, <1>8, <1>12, <1>13, <1>14 DEF Sound, y

(* A turn in low use is counted, up to the limit. *)
LEMMA CountLowUseDoes ==
    ASSUME NEW x \in Buffers(BlockSize), Sound(x, BlockSize), x.low < LowUseCeil
    PROVE  LET y == CountLowUse(x)
           IN  /\ Sound(y, BlockSize) /\ Carries(x, y)
               /\ y.low <= LowUseCeil /\ y.shrunk = x.shrunk /\ y.active = x.active
               /\ y.writable = x.writable
<1> USE Constants
<1>1. Carries(x, x)
  BY DEF Carries, SameIndexes
<1>2. PICK u \in Nat : u = x.low /\ u < LowUseCeil
  BY Numbers
<1>3. CASE CountLowUse(x) = x
  BY <1>1, <1>2, <1>3
<1>4. CASE CountLowUse(x) = [x EXCEPT !.low = @ + 1]
  <2> DEFINE y == [x EXCEPT !.low = @ + 1]
  <2>1. /\ y.blocks = x.blocks /\ SamePlaces(x, y) /\ y.shrunk = x.shrunk /\ y.active = x.active
        /\ y.writable = x.writable /\ y.total = x.total
    BY DEF Buffers, SamePlaces, SameIndexes
  <2>2. y.low = u + 1
    BY <1>2 DEF Buffers
  <2>3. y.low \in Nat /\ y.low <= LowUseCeil
    BY <1>2, <2>2
  <2>4. y \in Buffers(BlockSize)
    BY <2>3 DEF Buffers
  <2> HIDE DEF y
  <2>5. Sound(y, BlockSize)
    BY <2>1, <2>4 DEF Sound, Placed, Room, SamePlaces, SameIndexes
  <2>6. Carries(x, y)
    BY <2>1 DEF Carries, Reaches, Cell, Block, Index, Size, SamePlaces, SameIndexes
  <2> QED
    BY <1>4, <2>1, <2>3, <2>5, <2>6 DEF y
<1> QED
  BY <1>3, <1>4 DEF CountLowUse

(* A quarter of the list is less than the list. *)
LEMMA Quarter ==
    ASSUME NEW l \in Nat \ {0}, NEW s \in Nat \ {0}, NEW t \in Nat, t = Cells(l, s)
    PROVE  \E n \in Nat : n = (t \div 4) \div s /\ n < l
<1>1. PICK a \in Nat : a = t \div 4 /\ 4 * a <= t
  <2>1. t \div 4 \in Nat /\ 4 * (t \div 4) <= t
    BY SMTT(30)
  <2> QED
    BY <2>1
<1>2. PICK n \in Nat, m \in 0..s - 1 : n = a \div s /\ m = a % s /\ a = Cells(n, s) + m
  BY DivMod
<1>3. a >= Cells(n, s) /\ Cells(n, s) \in Nat
  <2>1. a = Cells(n, s) + m
    BY <1>2
  <2>2. Cells(n, s) \in Nat
    BY CellsNat
  <2> QED
    BY <2>1, <2>2
<1>4. l < n => Cells(l, s) + s <= Cells(n, s)
  BY CellsOrder
<1>5. t > 0
  <2>1. 0 < l => Cells(0, s) + s <= Cells(l, s)
    BY CellsOrder
  <2>2. Cells(0, s) = 0
    BY FewCells
  <2> QED
    BY <2>1, <2>2
<1>6. 4 * a <= t
  BY <1>1
<1>7. a < t
  BY <1>5, <1>6
<1>8. n < l
  <2>1. n = l => Cells(n, s) = t
    OBVIOUS
  <2> QED
    BY <1>3, <1>4, <1>7, <2>1
<1>9. n = (t \div 4) \div s
  BY <1>1, <1>2, Zenon
<1> QED
  BY <1>8, <1>9, Zenon

(* The front of a sequence. *)
LEMMA FrontOf ==
    ASSUME NEW S, NEW q \in Seq(S), NEW k \in Nat, k <= Len(q)
    PROVE  /\ SubSeq(q, 1, k) \in Seq(S) /\ Len(SubSeq(q, 1, k)) = k
           /\ \A j \in 1..k : SubSeq(q, 1, k)[j] = q[j]
OBVIOUS

(* At the limit the spare blocks are dropped, the content stays. *)
LEMMA DropLowUseDoes ==
    ASSUME NEW x \in Buffers(BlockSize), Sound(x, BlockSize), x.low <= LowUseCeil
    PROVE  LET z == DropLowUse(x)
           IN  /\ Sound(z, BlockSize) /\ Carries(z, x)
               /\ z.low < LowUseCeil /\ (x.shrunk => z.shrunk) /\ z.active = x.active
               /\ z.writable = x.writable
<1> USE Constants
<1>1. CASE x.low < LowUseCeil
  <2>1. Carries(x, x)
    BY DEF Carries, SameIndexes
  <2>2. DropLowUse(x) = x
    BY <1>1 DEF DropLowUse
  <2> QED
    BY <1>1, <2>1, <2>2
<1>2. CASE ~(x.low < LowUseCeil)
  <2> DEFINE z == DropLowUse(x)
  <2>1. PICK l \in Nat \ {0} : l = Len(x.blocks) /\ x.total = Cells(l, BlockSize)
    BY Lists DEF Sound, Room
  <2>2. PICK n \in Nat : n = (x.total \div 4) \div BlockSize /\ n < l
    BY <2>1, Quarter, Numbers
  <2>3. z = [x EXCEPT !.blocks = SubSeq(x.blocks, 1, l - n), !.total = x.total - n * BlockSize,
                      !.low = 0, !.shrunk = x.shrunk \/ n > 0]
    BY <1>2, <2>1, <2>2 DEF DropLowUse
  <2> HIDE DEF z
  <2>4. /\ z.blocks = SubSeq(x.blocks, 1, l - n) /\ z.total = x.total - Cells(n, BlockSize)
        /\ z.low = 0 /\ z.shrunk = (x.shrunk \/ n > 0) /\ z.active = x.active
        /\ z.writable = x.writable
    BY <2>3 DEF Buffers, Cells
  <2>5. SamePlaces(x, z)
    BY <2>3 DEF Buffers, SamePlaces, SameIndexes
  <2>6. z.blocks \in Seq(BlocksOf(BlockSize)) /\ Len(z.blocks) = l - n
        /\ \A j \in 1..l - n : z.blocks[j] = x.blocks[j]
    <3>1. PICK q \in Seq(BlocksOf(BlockSize)) : q = x.blocks /\ Len(q) = l
      BY <2>1, Lists
    <3>2. PICK k \in Nat : k = l - n /\ k <= Len(q)
      BY <2>2, <3>1
    <3>3. /\ SubSeq(q, 1, k) \in Seq(BlocksOf(BlockSize)) /\ Len(SubSeq(q, 1, k)) = k
          /\ \A j \in 1..k : SubSeq(q, 1, k)[j] = q[j]
      BY <3>2, FrontOf
    <3> QED
      BY <2>4, <3>1, <3>2, <3>3, Zenon
  <2>7. Cells(l - n, BlockSize) = Cells(l, BlockSize) - Cells(n, BlockSize)
    BY CellsDiff
  <2>8. z.total = Cells(Len(z.blocks), BlockSize) /\ Len(z.blocks) >= 1
    <3>1. l - n >= 1
      BY <2>2
    <3> QED
      BY <2>1, <2>4, <2>6, <2>7, <3>1
  <2>9. z \in Buffers(BlockSize)
    <3>1. l - n \in Nat
      BY <2>2
    <3>2. Cells(l - n, BlockSize) \in Nat
      BY <3>1, CellsNat
    <3>3. z.total \in Nat
      BY <2>6, <2>8, <3>2
    <3> QED
      BY <2>3, <2>4, <2>6, <3>3 DEF Buffers
  <2>10. Sound(z, BlockSize)
    <3>1. Placed(z, BlockSize)
      BY <2>5 DEF Sound, Placed, SamePlaces, SameIndexes
    <3>2. ~z.shrunk => ~x.shrunk /\ Len(z.blocks) = l
      <4>1. ~z.shrunk => ~x.shrunk /\ ~(n > 0)
        BY <2>4, Zenon
      <4>2. ~(n > 0) => l - n = l
        OBVIOUS
      <4> QED
        BY <2>6, <4>1, <4>2, Zenon
    <3>3. Room(z, BlockSize)
      BY <2>1, <2>4, <2>5, <2>8, <3>2 DEF Sound, Room, SamePlaces, SameIndexes
    <3> QED
      BY <2>9, <3>1, <3>3 DEF Sound
  <2>11. Carries(z, x)
    <3>1. SameIndexes(z, x) /\ z.rb = x.rb + 0 /\ z.wb = x.wb + 0 /\ z.rb \in Nat \ {0}
      BY <2>5, Numbers DEF SamePlaces, SameIndexes
    <3>2. \A j \in x.rb..Len(z.blocks) - 0 : j <= Len(x.blocks) /\ x.blocks[j] = z.blocks[j + 0]
      <4> SUFFICES ASSUME NEW j \in x.rb..Len(z.blocks) - 0
                   PROVE  j <= Len(x.blocks) /\ x.blocks[j] = z.blocks[j + 0]
        OBVIOUS
      <4>1. x.rb \in Nat \ {0} /\ Len(z.blocks) = l - n /\ Len(x.blocks) = l
        BY <2>1, <2>6, Numbers
      <4>2. j \in 1..l - n /\ j + 0 = j /\ j <= l
        BY <4>1
      <4> QED
        BY <2>6, <4>1, <4>2
    <3>3. Len(x.blocks) >= 1
      BY <2>1
    <3> QED
      BY <2>8, <2>9, <3>1, <3>2, <3>3, CarriesBlocks
  <2> QED
    <3>1. z.low < LowUseCeil
      BY <2>4
    <3>2. x.shrunk => z.shrunk
      BY <2>4, Zenon
    <3> QED
      BY <2>4, <2>10, <2>11, <3>1, <3>2 DEF z
<1> QED
  BY <1>1, <1>2

(* adjust_buffer as a whole. *)
LEMMA AdjustBufferDoes ==
    ASSUME NEW x \in Buffers(BlockSize), Sound(x, BlockSize), InList(x), x.low < LowUseCeil,
           NEW len \in Nat
    PROVE  LET z == AdjustBuffer(x, len)
           IN  /\ Sound(z, BlockSize)
               /\ z.writable > len /\ z.low < LowUseCeil
               /\ (x.shrunk => z.shrunk) /\ z.active = x.active
               /\ \E y : Carries(x, y) /\ Carries(z, y)
<1> USE Constants
<1> DEFINE y == Recycle(x)
<1>1. /\ y \in Buffers(BlockSize) /\ Sound(y, BlockSize) /\ Carries(x, y)
      /\ y.low = x.low /\ y.shrunk = x.shrunk /\ y.active = x.active
  BY RecycleDoes DEF Sound
<1>2. AdjustBuffer(x, len) =
        IF len - y.writable <= 0
        THEN DropLowUse(CountLowUse(CheckToAddBlock(y, len)))
        ELSE CheckToAddBlock(AddBlocks([y EXCEPT !.low = 0],
                (len - y.writable + BlockSize - 1) \div BlockSize), len)
  BY DEF AdjustBuffer
<1> HIDE DEF y
<1>3. PICK w \in Nat : w = y.writable
  BY <1>1, Numbers
<1>4. CASE len - w <= 0
  <2> DEFINE u == CheckToAddBlock(y, len)
             v == CountLowUse(u)
             z == DropLowUse(v)
  <2>1. AdjustBuffer(x, len) = z
    BY <1>2, <1>3, <1>4
  <2>2. /\ u \in Buffers(BlockSize) /\ Sound(u, BlockSize) /\ Carries(y, u)
        /\ u.low = y.low /\ u.shrunk = y.shrunk /\ u.active = y.active /\ u.writable > len
    <3>1. len <= y.writable
      BY <1>3, <1>4
    <3> QED
      BY <1>1, <3>1, CheckToAddBlockDoes DEF Sound
  <2> HIDE DEF u
  <2>3. /\ v \in Buffers(BlockSize) /\ Sound(v, BlockSize) /\ Carries(u, v)
        /\ v.low <= LowUseCeil /\ v.shrunk = u.shrunk /\ v.active = u.active
        /\ v.writable = u.writable
    BY <1>1, <2>2, CountLowUseDoes DEF Sound
  <2> HIDE DEF v
  <2>4. /\ Sound(z, BlockSize) /\ Carries(z, v)
        /\ z.low < LowUseCeil /\ (v.shrunk => z.shrunk) /\ z.active = v.active
        /\ z.writable = v.writable
    BY <2>3, DropLowUseDoes DEF Sound
  <2> HIDE DEF z
  <2>5. Carries(x, v)
    BY <1>1, <2>2, <2>3, CarriesOn
  <2> QED
    BY <1>1, <2>1, <2>2, <2>3, <2>4, <2>5
<1>5. CASE ~(len - w <= 0)
  <2> DEFINE o == [y EXCEPT !.low = 0]
  <2>1. PICK n \in Nat : n = (len - w + BlockSize - 1) \div BlockSize
                         /\ w + Cells(n, BlockSize) >= len
    <3>1. PICK a \in Nat : a = len - w + BlockSize - 1
      BY <1>5
    <3>2. PICK n \in Nat, m \in 0..BlockSize - 1 :
             n = a \div BlockSize /\ m = a % BlockSize /\ a = Cells(n, BlockSize) + m
      BY DivMod
    <3>3. a = Cells(n, BlockSize) + m
      BY <3>2
    <3>4. Cells(n, BlockSize) \in Nat
      BY CellsNat
    <3>5. w + Cells(n, BlockSize) >= len
      BY <3>1, <3>3, <3>4
    <3>6. n = (len - w + BlockSize - 1) \div BlockSize
      BY <3>1, <3>2, Zenon
    <3> QED
      BY <3>5, <3>6, Zenon
  <2>2. /\ o.blocks = y.blocks /\ SamePlaces(y, o) /\ o.shrunk = y.shrunk /\ o.active = y.active
        /\ o.writable = w /\ o.total = y.total /\ o.low = 0
    BY <1>1, <1>3 DEF Buffers, SamePlaces, SameIndexes
  <2>3. o \in Buffers(BlockSize)
    BY <1>1 DEF Buffers
  <2>4. AdjustBuffer(x, len) = CheckToAddBlock(AddBlocks(o, n), len)
    BY <1>2, <1>3, <1>5, <2>1
  <2> HIDE DEF o
  <2>5. Sound(o, BlockSize)
    BY <1>1, <1>3, <2>2, <2>3 DEF Sound, Placed, Room, SamePlaces, SameIndexes
  <2>6. Carries(y, o)
    BY <2>2 DEF Carries, Reaches, Cell, Block, Index, Size, SamePlaces, SameIndexes
  <2> DEFINE u == AddBlocks(o, n)
             z == CheckToAddBlock(u, len)
  <2>7. /\ u \in Buffers(BlockSize) /\ Sound(u, BlockSize)
        /\ u.low = o.low /\ u.shrunk = o.shrunk /\ u.active = o.active
        /\ u.writable = o.writable + Cells(n, BlockSize)
    BY <2>3, <2>5, AddBlocksDoes DEF Sound
  <2>8. Carries(o, u)
    BY <2>3, <2>5, AddBlocksCarries
  <2> HIDE DEF u
  <2>9. len <= u.writable
    BY <2>1, <2>2, <2>7
  <2>10. /\ Sound(z, BlockSize) /\ Carries(u, z)
         /\ z.low = u.low /\ z.shrunk = u.shrunk /\ z.active = u.active /\ z.writable > len
    BY <2>7, <2>9, CheckToAddBlockDoes
  <2> HIDE DEF z
  <2>11. Carries(x, z) /\ Carries(z, z)
    <3>1. Carries(z, z)
      BY DEF Carries, SameIndexes
    <3> QED
      BY <1>1, <2>6, <2>8, <2>10, <3>1, CarriesOn
  <2>12. AdjustBuffer(x, len) = z
    BY <2>4 DEF z, u
  <2> QED
    BY <1>1, <2>2, <2>7, <2>10, <2>11, <2>12
<1> QED
  BY <1>4, <1>5

-----------------------------------------------------------------------------
(* Where the bytes of a buffer are: block and index of the m-th one. *)
BlockOf(x, m) == Block(x, x.rb, x.ri, m - 1)
IndexOf(x, m) == Index(x, x.ri, m - 1)

(* Where the m-th readable byte lies. *)
LEMMA PlaceOf ==
    ASSUME NEW s \in Nat \ {0}, NEW x \in Buffers(s), Len(x.blocks) >= 1, NEW m \in Nat \ {0}
    PROVE  /\ BlockOf(x, m) \in Nat \ {0} /\ IndexOf(x, m) \in 0..s - 1
           /\ Cell(x, m) = x.blocks[BlockOf(x, m)][IndexOf(x, m) + 1]
           /\ Cells(BlockOf(x, m), s) + IndexOf(x, m) + 1 = Cells(x.rb, s) + x.ri + m
           /\ Reaches(x, m) => BlockOf(x, m) \in 1..Len(x.blocks)
<1>1. Size(x) = s
  BY SizeIs
<1>2. PICK p \in Nat \ {0}, i \in 0..s - 1, l \in Nat, n \in Nat :
         p = x.rb /\ i = x.ri /\ l = Len(x.blocks) /\ n = m - 1 /\ m = n + 1
  <2>1. m - 1 \in Nat /\ m = (m - 1) + 1
    OBVIOUS
  <2> QED
    BY <2>1, Numbers, Lists
<1>3. /\ Block(x, p, i, n) \in Nat /\ Index(x, i, n) \in 0..s - 1
      /\ Cells(Block(x, p, i, n), s) + Index(x, i, n) = Cells(p, s) + i + n
      /\ Block(x, p, i, n) >= p
  BY <1>1, Further
<1>4. PICK q \in Nat, k \in 0..s - 1 : q = Block(x, p, i, n) /\ k = Index(x, i, n)
  BY <1>3
<1>5. Cells(q, s) + k = Cells(p, s) + i + n /\ q >= p
  BY <1>3, <1>4
<1>6. Cells(q, s) \in Nat /\ Cells(p, s) \in Nat
  BY CellsNat
<1>7. Cells(q, s) + k + 1 = Cells(p, s) + i + m /\ q \in Nat \ {0}
  BY <1>2, <1>5, <1>6
<1>8. Cell(x, m) = x.blocks[q][k + 1]
  BY <1>2, <1>4 DEF Cell
<1>9. Reaches(x, m) => q \in 1..l
  <2>1. Reaches(x, m) => q <= l
    BY <1>2, <1>4 DEF Reaches
  <2> QED
    BY <1>7, <2>1
<1> QED
  BY <1>2, <1>4, <1>7, <1>8, <1>9, Zenon DEF BlockOf, IndexOf

(* No byte behind what is readable is read back wrongly: Fill overwrites   *)
(* the cells behind the write position, and those only.                    *)
LEMMA FillDoes ==
    ASSUME NEW s \in Nat \ {0}, NEW x \in Buffers(s), Sound(x, s), NEW d \in Seq(1..Values)
    PROVE  LET y == Fill(x, d)
           IN  /\ Sound(y, s) /\ SamePlaces(x, y) /\ Len(y.blocks) = Len(x.blocks)
               /\ y.writable = x.writable /\ y.total = x.total
               /\ y.low = x.low /\ y.shrunk = x.shrunk /\ y.active = x.active
               /\ \A m \in Nat \ {0} :
                     /\ Reaches(y, m) <=> Reaches(x, m)
                     /\ Reaches(x, m) =>
                          Cell(y, m) = IF m - x.readable \in 1..Len(d) THEN d[m - x.readable]
                                       ELSE Cell(x, m)
<1> DEFINE y == Fill(x, d)
           new(j, c) == IF (j - x.wb) * Size(x) + c - x.wi \in DOMAIN d
                        THEN d[(j - x.wb) * Size(x) + c - x.wi] ELSE x.blocks[j][c]
<1>1. Size(x) = s /\ Len(x.blocks) \in Nat /\ Len(x.blocks) >= 1
      /\ DOMAIN x.blocks = 1..Len(x.blocks)
  BY SizeIs, Lists DEF Sound, Room
<1>2. y.blocks = [j \in DOMAIN x.blocks |-> [c \in 1..Size(x) |-> new(j, c)]]
  BY DEF Fill, Buffers
<1>3. /\ SamePlaces(x, y) /\ y.writable = x.writable /\ y.total = x.total
      /\ y.low = x.low /\ y.shrunk = x.shrunk /\ y.active = x.active
  BY DEF Fill, Buffers, SamePlaces, SameIndexes
<1>4. ASSUME NEW j \in 1..Len(x.blocks), NEW c \in 1..s
      PROVE  new(j, c) \in 0..Values
  <2>1. x.blocks[j] \in [1..s -> 0..Values]
    BY Lists DEF BlocksOf
  <2>2. x.blocks[j][c] \in 0..Values
    BY <2>1
  <2>3. \A e \in DOMAIN d : d[e] \in 0..Values
    BY Constants
  <2> QED
    BY <2>2, <2>3
<1>5. y.blocks \in Seq(BlocksOf(s)) /\ Len(y.blocks) = Len(x.blocks)
  <2> HIDE DEF new, y
  <2>1. \A j \in 1..Len(x.blocks) : [c \in 1..s |-> new(j, c)] \in BlocksOf(s)
    BY <1>4 DEF BlocksOf
  <2>2. y.blocks = [j \in 1..Len(x.blocks) |-> [c \in 1..s |-> new(j, c)]]
    BY <1>1, <1>2
  <2> QED
    BY <1>1, <2>1, <2>2
<1>6. y \in Buffers(s)
  BY <1>5 DEF Fill, Buffers
<1>7. \A j \in 1..Len(x.blocks), c \in 1..s : y.blocks[j][c] = new(j, c)
  BY <1>1, <1>2
<1> HIDE DEF y, new
<1>8. Sound(y, s)
  BY <1>3, <1>5, <1>6 DEF Sound, Placed, Room, SamePlaces, SameIndexes
<1>9. ASSUME NEW m PROVE Reaches(y, m) <=> Reaches(x, m)
  <2>1. Size(y) = Size(x)
    BY <1>1, <1>5, <1>6, SizeIs
  <2> QED
    BY <1>3, <1>5, <2>1 DEF Reaches, Block, SamePlaces, SameIndexes
<1>10. ASSUME NEW m \in Nat \ {0}, Reaches(x, m)
      PROVE  Cell(y, m) = IF m - x.readable \in 1..Len(d) THEN d[m - x.readable]
                          ELSE Cell(x, m)
  <2>1. PICK q \in Nat \ {0}, k \in 0..s - 1 :
           /\ BlockOf(x, m) = q /\ IndexOf(x, m) = k
           /\ Cell(x, m) = x.blocks[q][k + 1]
           /\ Cells(q, s) + k + 1 = Cells(x.rb, s) + x.ri + m
           /\ q \in 1..Len(x.blocks)
    BY <1>1, <1>10, PlaceOf
  <2>2. Block(y, y.rb, y.ri, m - 1) = q /\ Index(y, y.ri, m - 1) = k
    <3>1. Size(y) = Size(x)
      BY <1>1, <1>5, <1>6, SizeIs
    <3> QED
      BY <1>3, <2>1, <3>1 DEF Block, Index, BlockOf, IndexOf, SamePlaces, SameIndexes
  <2>3. k + 1 \in 1..s
    OBVIOUS
  <2>4. Cell(y, m) = new(q, k + 1)
    BY <1>7, <2>1, <2>2, <2>3 DEF Cell
  <2>5. (q - x.wb) * Size(x) + (k + 1) - x.wi = m - x.readable
    <3>1. PICK w \in Nat, i \in Nat, r \in Nat, p \in Nat, h \in Nat :
             w = x.wb /\ i = x.wi /\ r = x.readable /\ p = Cells(x.rb, s) /\ h = x.ri
      <4>1. /\ x.wb \in Nat /\ x.wi \in 0..s - 1 /\ x.readable \in Nat
            /\ Cells(x.rb, s) \in Nat /\ x.ri \in 0..s - 1
        BY Numbers
      <4>2. \A e \in 0..s - 1 : e \in Nat
        OBVIOUS
      <4> QED
        BY <4>1, <4>2
    <3>2. Cells(w, s) + i = p + h + r
      BY <3>1 DEF Sound, Placed
    <3>3. Cells(q, s) + k + 1 = p + h + m
      BY <2>1, <3>1
    <3>4. Cells(q - w, s) = Cells(q, s) - Cells(w, s)
      BY CellsDiff
    <3>5. Cells(q, s) \in Nat /\ Cells(w, s) \in Nat
      BY CellsNat
    <3>6. Cells(q - w, s) + (k + 1) - i = m - r
      <4>1. PICK cq \in Nat, cw \in Nat : cq = Cells(q, s) /\ cw = Cells(w, s)
        BY <3>5
      <4>2. cw + i = p + h + r /\ cq + k + 1 = p + h + m
        BY <3>2, <3>3, <4>1
      <4>3. cq - cw + (k + 1) - i = m - r
        BY <4>2
      <4> QED
        BY <3>4, <4>1, <4>3, Zenon
    <3> QED
      BY <1>1, <3>1, <3>6, Zenon DEF Cells
  <2>6. DOMAIN d = 1..Len(d)
    OBVIOUS
  <2> QED
    BY <2>1, <2>4, <2>5, <2>6, Zenon DEF new
<1> QED
  BY <1>3, <1>5, <1>8, <1>10, <1>9 DEF y

(* Moving the write index over n bytes. *)
LEMMA WriteBytesDoes ==
    ASSUME NEW s \in Nat \ {0}, NEW x \in Buffers(s), Sound(x, s),
           NEW n \in Nat, n < x.writable
    PROVE  LET y == WriteBytes(x, n)
           IN  /\ Sound(y, s) /\ y.readable = x.readable + n /\ y.writable > 0
               /\ y.low = x.low /\ y.shrunk = x.shrunk /\ y.active = x.active
               /\ y.blocks = x.blocks
               /\ \A m \in Nat \ {0} : Reaches(y, m) = Reaches(x, m) /\ Cell(y, m) = Cell(x, m)
<1> DEFINE y == WriteBytes(x, n)
<1>1. Size(x) = s
  BY SizeIs DEF Sound, Room
<1>2. PICK w \in Nat \ {0}, i \in 0..s - 1, r \in Nat, c \in Nat, p \in Nat, h \in Nat, l \in Nat :
         /\ w = x.wb /\ i = x.wi /\ r = x.readable /\ c = x.writable /\ l = Cells(Len(x.blocks), s)
         /\ p = Cells(x.rb, s) /\ h = x.ri
  <2>1. x.wb \in Nat \ {0} /\ x.wi \in 0..s - 1 /\ x.readable \in Nat /\ x.writable \in Nat
    BY Numbers
  <2>2. Cells(x.rb, s) \in Nat /\ x.ri \in Nat /\ Cells(Len(x.blocks), s) \in Nat
    BY Numbers, Lists
  <2> QED
    BY <2>1, <2>2
<1>3. /\ Block(x, w, i, n) \in Nat /\ Index(x, i, n) \in 0..s - 1
      /\ Cells(Block(x, w, i, n), s) + Index(x, i, n) = Cells(w, s) + i + n
      /\ Block(x, w, i, n) >= w
  BY <1>1, Further
<1>4. PICK q \in Nat \ {0}, k \in 0..s - 1 :
         /\ q = Block(x, w, i, n) /\ k = Index(x, i, n)
         /\ Cells(q, s) + k = Cells(w, s) + i + n
  BY <1>3
<1>5. y.wb = q /\ y.wi = k
  BY <1>2, <1>4 DEF WriteBytes, Buffers
<1>6. y.readable = r + n /\ y.writable = c - n /\ c - n \in Nat \ {0} /\ r + n \in Nat
  <2>1. y.readable = r + n /\ y.writable = c - n
    BY <1>2 DEF WriteBytes, Buffers
  <2>2. n < c
    BY <1>2
  <2> QED
    BY <2>1, <2>2
<1>7. /\ y.blocks = x.blocks /\ y.rb = x.rb /\ y.ri = x.ri /\ y.total = x.total
      /\ y.low = x.low /\ y.shrunk = x.shrunk /\ y.active = x.active
  BY DEF WriteBytes, Buffers
<1>8. y \in Buffers(s)
  BY <1>5, <1>6 DEF WriteBytes, Buffers
<1> HIDE DEF y
<1>9. Cells(q, s) \in Nat /\ Cells(w, s) \in Nat
  BY CellsNat
<1>10. Placed(y, s)
  <2>1. Cells(w, s) + i = p + h + r
    BY <1>2 DEF Sound, Placed
  <2>2. Cells(q, s) + k = p + h + (r + n)
    BY <1>4, <1>9, <2>1
  <2> QED
    BY <1>2, <1>5, <1>6, <1>7, <2>2, Zenon DEF Placed
<1>11. Room(y, s)
  <2>1. ~x.shrunk => Cells(w, s) + i + c = l + s
    BY <1>2 DEF Sound, Room
  <2>2. ~x.shrunk => Cells(q, s) + k + (c - n) = l + s
    BY <1>4, <1>9, <2>1
  <2>3. Len(x.blocks) >= 1 /\ x.total = l
    BY <1>2 DEF Sound, Room
  <2> QED
    BY <1>2, <1>5, <1>6, <1>7, <2>2, <2>3, Zenon DEF Room
<1>12. ASSUME NEW m PROVE Reaches(y, m) = Reaches(x, m) /\ Cell(y, m) = Cell(x, m)
  BY <1>7 DEF Reaches, Cell, Block, Index, Size
<1>13. y.writable > 0
  BY <1>6
<1> QED
  BY <1>2, <1>6, <1>7, <1>8, <1>10, <1>11, <1>12, <1>13 DEF Sound, y

(* What is readable, and what there is room for behind it, is in the list. *)
LEMMA Reached ==
    ASSUME NEW s \in Nat \ {0}, NEW x \in Buffers(s), Sound(x, s), InList(x),
           NEW n \in Nat, NEW m \in Nat \ {0}
    PROVE  (n = 0 \/ n <= Capacity(x)) /\ m <= x.readable + n => Reaches(x, m)
<1>1. Size(x) = s /\ Len(x.blocks) >= 1
  BY SizeIs DEF Sound, Room
<1>2. /\ BlockOf(x, m) \in Nat \ {0} /\ IndexOf(x, m) \in 0..s - 1
      /\ Cell(x, m) = x.blocks[BlockOf(x, m)][IndexOf(x, m) + 1]
      /\ Cells(BlockOf(x, m), s) + IndexOf(x, m) + 1 = Cells(x.rb, s) + x.ri + m
      /\ Reaches(x, m) => BlockOf(x, m) \in 1..Len(x.blocks)
  <2>1. Len(x.blocks) >= 1
    BY <1>1
  <2> QED
    BY <2>1, PlaceOf, Zenon
<1>3. PICK q \in Nat \ {0}, k \in 0..s - 1 :
         /\ BlockOf(x, m) = q /\ IndexOf(x, m) = k
         /\ Cells(q, s) + k + 1 = Cells(x.rb, s) + x.ri + m
  <2>1. PICK q \in Nat \ {0}, k \in 0..s - 1 : q = BlockOf(x, m) /\ k = IndexOf(x, m)
    BY <1>2
  <2>2. Cells(q, s) + k + 1 = Cells(x.rb, s) + x.ri + m
    BY <1>2, <2>1, Zenon
  <2> QED
    BY <2>1, <2>2
<1> HAVE (n = 0 \/ n <= Capacity(x)) /\ m <= x.readable + n
<1>4. PICK w \in Nat, i \in 0..s - 1, r \in Nat, p \in Nat, h \in Nat, l \in Nat :
         /\ w = x.wb /\ i = x.wi /\ r = x.readable /\ p = Cells(x.rb, s) /\ h = x.ri
         /\ l = Len(x.blocks)
  <2>1. /\ x.wb \in Nat /\ x.wi \in 0..s - 1 /\ x.readable \in Nat
        /\ Cells(x.rb, s) \in Nat /\ x.ri \in Nat
    BY Numbers
  <2>2. Len(x.blocks) \in Nat
    BY Lists
  <2> QED
    BY <2>1, <2>2
<1>5. PICK cq \in Nat, cw \in Nat, cl \in Nat :
         cq = Cells(q, s) /\ cw = Cells(w, s) /\ cl = Cells(l, s)
  BY CellsNat
<1>6. Capacity(x) = cl - cw + s - i
  <2>1. Capacity(x) = Cells(l - w, s) + s - i
    BY <1>1, <1>4 DEF Capacity, Cells
  <2>2. Cells(l - w, s) = cl - cw
    BY <1>5, CellsDiff
  <2> QED
    BY <2>1, <2>2
<1>7. cw <= cl
  <2>1. w <= l
    BY <1>4 DEF InList
  <2>2. w < l => cw + s <= cl
    BY <1>5, CellsOrder
  <2>3. w = l => cw = cl
    BY <1>5
  <2> QED
    BY <2>1, <2>2, <2>3
<1>8. cw + i = p + h + r /\ cq + k + 1 = p + h + m
  BY <1>3, <1>4, <1>5 DEF Sound, Placed
<1>9. m <= r + n /\ (n = 0 \/ n <= cl - cw + s - i)
  BY <1>4, <1>6
<1>10. cq < cl + s
  BY <1>7, <1>8, <1>9
<1>11. l < q => cl + s <= cq
  BY <1>5, CellsOrder
<1>12. q <= l
  BY <1>10, <1>11
<1> QED
  BY <1>3, <1>4, <1>12 DEF Reaches, BlockOf

(* A read position that is n cells further. *)
LEMMA PlaceMoves ==
    ASSUME NEW s \in Nat \ {0}, NEW x \in Buffers(s), NEW y \in Buffers(s),
           Len(x.blocks) >= 1, Len(y.blocks) >= 1, NEW n \in Nat,
           Cells(y.rb, s) + y.ri = Cells(x.rb, s) + x.ri + n,
           NEW m \in Nat \ {0}, NEW g \in Nat \ {0}
    PROVE  g = m + n => Cell(y, m) = y.blocks[BlockOf(x, g)][IndexOf(x, g) + 1]
<1>1. /\ BlockOf(x, g) \in Nat \ {0} /\ IndexOf(x, g) \in 0..s - 1
      /\ Cell(x, g) = x.blocks[BlockOf(x, g)][IndexOf(x, g) + 1]
      /\ Cells(BlockOf(x, g), s) + IndexOf(x, g) + 1 = Cells(x.rb, s) + x.ri + g
      /\ Reaches(x, g) => BlockOf(x, g) \in 1..Len(x.blocks)
  BY PlaceOf
<1>2. /\ BlockOf(y, m) \in Nat \ {0} /\ IndexOf(y, m) \in 0..s - 1
      /\ Cell(y, m) = y.blocks[BlockOf(y, m)][IndexOf(y, m) + 1]
      /\ Cells(BlockOf(y, m), s) + IndexOf(y, m) + 1 = Cells(y.rb, s) + y.ri + m
      /\ Reaches(y, m) => BlockOf(y, m) \in 1..Len(y.blocks)
  BY PlaceOf, Zenon
<1> HAVE g = m + n
<1>3. PICK a \in Nat, e \in 0..s - 1, c \in Nat, f \in 0..s - 1 :
         a = BlockOf(x, g) /\ e = IndexOf(x, g) /\ c = BlockOf(y, m) /\ f = IndexOf(y, m)
  BY <1>1, <1>2
<1>4. PICK ca \in Nat, cc \in Nat : ca = Cells(a, s) /\ cc = Cells(c, s)
  BY CellsNat
<1>5. /\ Cells(x.rb, s) \in Nat /\ x.ri \in Nat
      /\ Cells(y.rb, s) \in Nat /\ y.ri \in Nat
  BY Numbers
<1>6. PICK p \in Nat, h \in Nat, r \in Nat, i \in Nat :
         p = Cells(x.rb, s) /\ h = x.ri /\ r = Cells(y.rb, s) /\ i = y.ri
  BY <1>5
<1>7. ca + e + 1 = p + h + g /\ cc + f + 1 = r + i + m /\ r + i = p + h + n
  BY <1>1, <1>2, <1>3, <1>4, <1>6, Zenon
<1>8. ca + e = cc + f
  BY <1>7
<1>9. Cells(a, s) + e = Cells(c, s) + f
  BY <1>4, <1>8, Zenon
<1>10. a = c /\ e = f
  BY <1>9, Places
<1> QED
  BY <1>2, <1>3, <1>10, Zenon

(* Moving the read index over n bytes. *)
LEMMA UnreadDoes ==
    ASSUME NEW s \in Nat \ {0}, NEW x \in Buffers(s), Sound(x, s), InList(x),
           NEW n \in Nat, n <= x.readable
    PROVE  LET y == Unread(x, n)
           IN  /\ Sound(y, s) /\ InList(y) /\ Block(x, x.rb, x.ri, n) <= Len(x.blocks)
               /\ y.readable = x.readable - n /\ y.writable = x.writable /\ y.total = x.total
               /\ y.wb = x.wb /\ y.wi = x.wi /\ Len(y.blocks) = Len(x.blocks)
               /\ y.low = x.low /\ y.shrunk = x.shrunk /\ y.active = x.active
               /\ \A m \in 1..x.readable - n : Cell(y, m) = Cell(x, m + n)
<1> DEFINE y == Unread(x, n)
           new(j, c) == IF (j - x.rb) * Size(x) + c - x.ri \in 1..n THEN 0 ELSE x.blocks[j][c]
<1>1. Size(x) = s /\ Len(x.blocks) \in Nat /\ Len(x.blocks) >= 1
      /\ DOMAIN x.blocks = 1..Len(x.blocks)
  BY SizeIs, Lists DEF Sound, Room
<1>2. PICK p \in Nat \ {0}, h \in 0..s - 1, w \in Nat \ {0}, i \in 0..s - 1, r \in Nat :
         p = x.rb /\ h = x.ri /\ w = x.wb /\ i = x.wi /\ r = x.readable /\ n <= r
  BY Numbers
<1>3. /\ Block(x, p, h, n) \in Nat /\ Index(x, h, n) \in 0..s - 1
      /\ Cells(Block(x, p, h, n), s) + Index(x, h, n) = Cells(p, s) + h + n
      /\ Block(x, p, h, n) >= p
  <2> HIDE DEF y, new
  <2>1. p \in Nat
    OBVIOUS
  <2> QED
    <3>1. Size(x) = s
      BY <1>1
    <3> QED
      BY <2>1, <3>1, Further
<1>4. PICK q \in Nat \ {0}, k \in 0..s - 1 :
         /\ q = Block(x, p, h, n) /\ k = Index(x, h, n)
         /\ Cells(q, s) + k = Cells(p, s) + h + n
  BY <1>3
<1>5. /\ y.rb = q /\ y.ri = k /\ y.readable = r - n /\ y.writable = x.writable
      /\ y.total = x.total /\ y.wb = x.wb /\ y.wi = x.wi
      /\ y.low = x.low /\ y.shrunk = x.shrunk /\ y.active = x.active
  BY <1>2, <1>4 DEF Unread, Buffers
<1>6. y.blocks = [j \in DOMAIN x.blocks |-> [c \in 1..Size(x) |-> new(j, c)]]
  BY DEF Unread, Buffers
<1>7. y.blocks \in Seq(BlocksOf(s)) /\ Len(y.blocks) = Len(x.blocks)
      /\ \A j \in 1..Len(x.blocks), c \in 1..s : y.blocks[j][c] = new(j, c)
  <2>1. ASSUME NEW j \in 1..Len(x.blocks), NEW c \in 1..s
        PROVE  new(j, c) \in 0..Values
    <3>1. x.blocks[j] \in [1..s -> 0..Values]
      BY Lists DEF BlocksOf
    <3>2. x.blocks[j][c] \in 0..Values /\ 0 \in 0..Values
      BY <3>1, Constants
    <3> QED
      BY <3>2
  <2> HIDE DEF new, y
  <2>2. \A j \in 1..Len(x.blocks) : [c \in 1..s |-> new(j, c)] \in BlocksOf(s)
    BY <2>1 DEF BlocksOf
  <2>3. y.blocks = [j \in 1..Len(x.blocks) |-> [c \in 1..s |-> new(j, c)]]
    BY <1>1, <1>6
  <2> QED
    BY <1>1, <2>2, <2>3
<1>8. y \in Buffers(s)
  <2>1. r - n \in Nat
    BY <1>2
  <2> QED
    BY <1>2, <1>4, <1>7, <2>1 DEF Unread, Buffers
<1> HIDE DEF y, new
<1>9. Sound(y, s)
  <2>1. PICK cq \in Nat, cp \in Nat, cw \in Nat :
           cq = Cells(q, s) /\ cp = Cells(p, s) /\ cw = Cells(w, s)
    BY CellsNat
  <2>2. cw + i = cp + h + r /\ cq + k = cp + h + n
    BY <1>2, <1>4, <2>1 DEF Sound, Placed
  <2>3. cw + i = cq + k + (r - n)
    BY <2>2
  <2>4. Placed(y, s)
    BY <1>2, <1>5, <2>1, <2>3, Zenon DEF Placed
  <2>5. Room(y, s)
    BY <1>5, <1>7, Zenon DEF Sound, Room
  <2> QED
    BY <1>8, <2>4, <2>5 DEF Sound
<1>10. InList(y)
  BY <1>5, <1>7 DEF InList
<1>11. q <= Len(x.blocks)
  <2>1. y.rb <= y.wb
    BY <1>8, <1>9, PlacesInOrder DEF Sound
  <2> QED
    BY <1>1, <1>2, <1>5, <2>1 DEF InList
<1>12. ASSUME NEW m \in 1..x.readable - n
       PROVE  Cell(y, m) = Cell(x, m + n)
  <2>1. PICK z \in Buffers(s), f \in Nat \ {0}, g \in Nat \ {0} : z = y /\ f = m /\ g = m + n
    BY <1>8
  <2>2. g <= x.readable /\ Len(z.blocks) >= 1 /\ Len(x.blocks) >= 1
    <3>1. Len(z.blocks) >= 1 /\ Len(x.blocks) >= 1
      BY <1>1, <1>7, <2>1
    <3>2. m \in 1..r - n
      BY <1>2
    <3>3. g <= r
      BY <1>2, <2>1, <3>2
    <3> QED
      BY <1>2, <3>1, <3>3
  <2>3. Reaches(x, g)
    <3>1. g <= x.readable + 0
      BY <1>2, <2>2
    <3> QED
      BY <3>1, Reached
  <2>4. Cells(z.rb, s) + z.ri = Cells(x.rb, s) + x.ri + n
    BY <1>2, <1>4, <1>5, <2>1, Zenon
  <2>5. Cell(z, f) = z.blocks[BlockOf(x, g)][IndexOf(x, g) + 1]
    BY <2>1, <2>2, <2>4, PlaceMoves
  <2>6. /\ BlockOf(x, g) \in Nat \ {0} /\ IndexOf(x, g) \in 0..s - 1
        /\ Cell(x, g) = x.blocks[BlockOf(x, g)][IndexOf(x, g) + 1]
        /\ Cells(BlockOf(x, g), s) + IndexOf(x, g) + 1 = Cells(x.rb, s) + x.ri + g
        /\ BlockOf(x, g) \in 1..Len(x.blocks)
    BY <2>2, <2>3, PlaceOf
  <2>7. PICK a \in Nat \ {0}, e \in 0..s - 1 : a = BlockOf(x, g) /\ e = IndexOf(x, g)
    BY <2>6
  <2>8. /\ Cell(x, g) = x.blocks[a][e + 1] /\ Cell(z, f) = z.blocks[a][e + 1]
        /\ Cells(a, s) + e + 1 = Cells(x.rb, s) + x.ri + g
        /\ a \in 1..Len(x.blocks)
    BY <2>5, <2>6, <2>7, Zenon
  <2>9. g = f + n
    BY <2>1
  <2>10. (a - x.rb) * Size(x) + (e + 1) - x.ri = g
    <3>1. PICK ca \in Nat, cp \in Nat : ca = Cells(a, s) /\ cp = Cells(p, s)
      BY CellsNat
    <3>2. Cells(a - p, s) = ca - cp
      BY <3>1, CellsDiff
    <3>3. ca + e + 1 = cp + h + g
      BY <1>2, <2>8, <3>1, Zenon
    <3>4. ca - cp + (e + 1) - h = g
      BY <3>3
    <3> QED
      BY <1>1, <1>2, <3>2, <3>4, Zenon DEF Cells
  <2>11. g \notin 1..n
    BY <2>9
  <2>12. y.blocks[a][e + 1] = new(a, e + 1)
    <3>1. e + 1 \in 1..s
      OBVIOUS
    <3> QED
      BY <1>7, <2>3, <2>8, <3>1, Zenon
  <2> QED
    BY <2>1, <2>8, <2>10, <2>11, <2>12, Zenon DEF new
<1> QED
  BY <1>2, <1>4, <1>5, <1>7, <1>9, <1>10, <1>11, <1>12 DEF y

-----------------------------------------------------------------------------
(* The buffer as it is constructed, and as it is once it is active.        *)
Fresh(x) ==
    /\ x \in Buffers(1) /\ Len(x.blocks) = 1
    /\ x.rb = 1 /\ x.ri = 0 /\ x.wb = 1 /\ x.wi = 0
    /\ x.readable = 0 /\ x.writable = 1 /\ x.total = 1 /\ x.low = 0 /\ ~x.active

Working(x) ==
    /\ x \in Buffers(BlockSize) /\ Sound(x, BlockSize) /\ InList(x)
    /\ x.low < LowUseCeil /\ x.writable > 0 /\ x.active

Held(x, s) == s \in Nat \ {0} /\ x \in Buffers(s) /\ Sound(x, s) /\ InList(x)

(* A fresh buffer has blocks of one byte. *)
LEMMA FreshIsHeld == ASSUME NEW x, Fresh(x) PROVE Held(x, 1)
<1>1. Cells(1, 1) = 1
  BY FewCells
<1>2. Placed(x, 1) /\ Room(x, 1)
  BY <1>1 DEF Fresh, Placed, Room
<1> QED
  BY <1>2 DEF Fresh, Held, Sound, InList

(* Every buffer has blocks of one size. *)
LEMMA HeldSomehow ==
    ASSUME NEW x, Fresh(x) \/ Working(x)
    PROVE  \E s \in Nat \ {0} : Held(x, s)
<1>1. Working(x) => Held(x, BlockSize)
  BY Constants DEF Working, Held
<1> QED
  BY <1>1, FreshIsHeld, Constants

(* The first use brings the first block. *)
LEMMA CheckActiveDoes ==
    ASSUME NEW x, Fresh(x) \/ Working(x)
    PROVE  LET c == CheckActive(x)
           IN  Working(c) /\ Carries(x, c) /\ c.shrunk = x.shrunk
<1> DEFINE c == CheckActive(x)
<1>1. CASE Working(x)
  <2>1. c = x
    BY <1>1 DEF CheckActive, Working
  <2>2. Carries(x, x)
    BY DEF Carries, SameIndexes
  <2> QED
    BY <1>1, <2>1, <2>2, Zenon
<1>2. CASE Fresh(x)
  <2> USE Constants
  <2>1. x \in Buffers(1) /\ ~x.active
    BY <1>2 DEF Fresh
  <2>2. Cells(1, BlockSize) = BlockSize /\ Cells(2, BlockSize) = BlockSize + BlockSize
        /\ Cells(2, BlockSize) \in Nat
    BY DEF Cells
  <2>3. PICK v \in 0..Values : v = x.blocks[1][1]
    <3>1. x.blocks[1] \in BlocksOf(1)
      <4>1. 1 \in 1..Len(x.blocks)
        BY <1>2 DEF Fresh
      <4> QED
        BY <2>1, <4>1, Lists
    <3> QED
      BY <3>1 DEF BlocksOf
  <2> DEFINE first == [Blank EXCEPT ![1] = v]
  <2>4. first \in BlocksOf(BlockSize) /\ Blank \in BlocksOf(BlockSize) /\ first[1] = v
    BY DEF Blank, BlocksOf
  <2>5. c = [x EXCEPT !.blocks = <<first, Blank>>, !.writable = 2 * BlockSize,
                      !.total = 2 * BlockSize, !.active = TRUE]
    BY <2>1, <2>3 DEF CheckActive
  <2> HIDE DEF first
  <2>6. /\ c.blocks = <<first, Blank>> /\ c.writable = Cells(2, BlockSize)
        /\ c.total = Cells(2, BlockSize) /\ c.active /\ c.shrunk = x.shrunk
        /\ c.low = 0 /\ c.rb = 1 /\ c.ri = 0 /\ c.wb = 1 /\ c.wi = 0 /\ c.readable = 0
    BY <1>2, <2>1, <2>5 DEF Fresh, Buffers, Cells
  <2>7. c.blocks \in Seq(BlocksOf(BlockSize)) /\ Len(c.blocks) = 2
    BY <2>4, <2>6
  <2>8. c \in Buffers(BlockSize)
    <3>1. 2 * BlockSize \in Nat /\ <<first, Blank>> \in Seq(BlocksOf(BlockSize))
      BY <2>6, <2>7
    <3>2. x.low = 0 /\ x.rb = 1 /\ x.ri = 0 /\ x.wb = 1 /\ x.wi = 0 /\ x.readable = 0
          /\ x.ri \in 0..BlockSize - 1 /\ x.wi \in 0..BlockSize - 1
      BY <1>2 DEF Fresh
    <3>3. /\ x.rb \in Nat \ {0} /\ x.wb \in Nat \ {0} /\ x.readable \in Nat /\ x.low \in Nat
          /\ x.shrunk \in BOOLEAN
      BY <2>1, <3>2 DEF Buffers
    <3> QED
      BY <2>1, <2>5, <3>1, <3>2, <3>3 DEF Buffers
  <2> HIDE DEF c
  <2>9. Sound(c, BlockSize)
    <3>1. Placed(c, BlockSize)
      BY <2>2, <2>6 DEF Placed
    <3>2. Room(c, BlockSize)
      BY <2>2, <2>6, <2>7 DEF Room
    <3> QED
      BY <2>8, <3>1, <3>2 DEF Sound
  <2>10. Working(c)
    <3>1. InList(c)
      BY <2>6, <2>7 DEF InList
    <3> QED
      BY <2>2, <2>6, <2>8, <2>9, <3>1 DEF Working
  <2>11. ASSUME NEW m \in Nat \ {0}, Reaches(x, m)
         PROVE  Reaches(c, m) /\ Cell(c, m) = Cell(x, m)
    <3>1. Len(x.blocks) >= 1 /\ Len(c.blocks) >= 1
      BY <1>2, <2>7 DEF Fresh
    <3>2. /\ BlockOf(x, m) \in Nat \ {0} /\ IndexOf(x, m) \in 0..1 - 1
          /\ Cell(x, m) = x.blocks[BlockOf(x, m)][IndexOf(x, m) + 1]
          /\ Cells(BlockOf(x, m), 1) + IndexOf(x, m) + 1 = Cells(x.rb, 1) + x.ri + m
          /\ BlockOf(x, m) \in 1..Len(x.blocks)
      BY <2>1, <2>11, <3>1, PlaceOf
    <3>3. BlockOf(x, m) = 1 /\ IndexOf(x, m) = 0 /\ m = 1
      <4>1. BlockOf(x, m) = 1 /\ IndexOf(x, m) = 0
        BY <1>2, <3>2 DEF Fresh
      <4>2. Cells(1, 1) = 1
        BY FewCells
      <4> QED
        BY <1>2, <3>2, <4>1, <4>2 DEF Fresh
    <3>4. Size(c) = BlockSize
      BY <2>8, <3>1, SizeIs
    <3>5. /\ Block(c, 1, 0, 0) \in Nat /\ Index(c, 0, 0) \in 0..BlockSize - 1
          /\ Cells(Block(c, 1, 0, 0), BlockSize) + Index(c, 0, 0) = Cells(1, BlockSize) + 0 + 0
          /\ Block(c, 1, 0, 0) >= 1
      BY <3>4, Further
    <3>6. Block(c, 1, 0, 0) = 1 /\ Index(c, 0, 0) = 0
      <4>1. PICK q \in Nat, k \in 0..BlockSize - 1 : q = Block(c, 1, 0, 0) /\ k = Index(c, 0, 0)
        BY <3>5
      <4>2. Cells(q, BlockSize) + k = Cells(1, BlockSize) + 0
        BY <2>2, <3>5, <4>1
      <4>3. q = 1 /\ k = 0
        BY <4>2, Places
      <4> QED
        BY <4>1, <4>3, Zenon
    <3>7. Cell(c, 1) = c.blocks[1][1] /\ Reaches(c, 1)
      BY <2>6, <2>7, <3>6 DEF Cell, Reaches
    <3>8. Cell(c, 1) = v
      BY <2>4, <2>6, <3>7
    <3>9. Cell(x, m) = v
      BY <2>3, <3>2, <3>3
    <3> QED
      BY <3>3, <3>7, <3>8, <3>9, Zenon
  <2>12. Carries(x, c)
    BY <1>2, <2>6, <2>11 DEF Carries, SameIndexes, Fresh
  <2> QED
    BY <2>6, <2>10, <2>12 DEF c
<1> QED
  BY <1>1, <1>2

-----------------------------------------------------------------------------
(* append, and asio's filling followed by has_written, as functions of the *)
(* buffer x and the bytes d.                                               *)
Appended(x, d, n) == WriteBytes(Fill(AdjustBuffer(CheckActive(x), n), d), n)
Written(x, d, n) == WriteBytes(AdjustBuffer(CheckActive(Fill(x, d)), n), n)

(* What both make of x: a buffer y that holds what x holds and d behind it *)
(* unless the write position has left the list, which it can only do in a  *)
(* list that was shrunk.                                                   *)
Grown(x, y, d) ==
    /\ y \in Buffers(BlockSize) /\ Sound(y, BlockSize)
    /\ y.low < LowUseCeil /\ y.writable > 0 /\ y.active
    /\ x.shrunk => y.shrunk
    /\ ~y.shrunk => InList(y)
    /\ y.readable = x.readable + Len(d)
    /\ InList(y) =>
         \A m \in 1..x.readable + Len(d) :
            Cell(y, m) = IF m - x.readable \in 1..Len(d) THEN d[m - x.readable] ELSE Cell(x, m)

(* append grows the content by the data. *)
LEMMA AppendDoes ==
    ASSUME NEW x, Fresh(x) \/ Working(x), NEW d \in Seq(1..Values), NEW n \in Nat, n = Len(d)
    PROVE  Grown(x, Appended(x, d, n), d)
<1> USE Constants
<1> DEFINE c == CheckActive(x)
           z == AdjustBuffer(c, n)
           f == Fill(z, d)
           y == WriteBytes(f, n)
<1>1. Working(c) /\ Carries(x, c) /\ c.shrunk = x.shrunk
  BY CheckActiveDoes
<1> HIDE DEF c
<1>2. /\ Sound(z, BlockSize) /\ z.writable > n /\ z.low < LowUseCeil
      /\ (c.shrunk => z.shrunk) /\ z.active = c.active
      /\ \E u : Carries(c, u) /\ Carries(z, u)
  BY <1>1, AdjustBufferDoes DEF Working
<1> HIDE DEF z
<1>3. z \in Buffers(BlockSize)
  BY <1>2 DEF Sound
<1>4. /\ Sound(f, BlockSize) /\ SamePlaces(z, f) /\ Len(f.blocks) = Len(z.blocks)
      /\ f.writable = z.writable /\ f.total = z.total
      /\ f.low = z.low /\ f.shrunk = z.shrunk /\ f.active = z.active
      /\ \A m \in Nat \ {0} :
            /\ Reaches(f, m) <=> Reaches(z, m)
            /\ Reaches(z, m) => Cell(f, m) = IF m - z.readable \in 1..Len(d)
                                             THEN d[m - z.readable] ELSE Cell(z, m)
  BY <1>2, <1>3, FillDoes
<1> HIDE DEF f
<1>5. f \in Buffers(BlockSize) /\ n < f.writable
  <2>1. z.writable \in Nat
    BY <1>3, Numbers
  <2> QED
    BY <1>2, <1>4, <2>1 DEF Sound
<1>6. /\ Sound(y, BlockSize) /\ y.readable = f.readable + n /\ y.writable > 0
      /\ y.low = f.low /\ y.shrunk = f.shrunk /\ y.active = f.active
      /\ y.blocks = f.blocks
      /\ \A m \in Nat \ {0} : Reaches(y, m) = Reaches(f, m) /\ Cell(y, m) = Cell(f, m)
  BY <1>4, <1>5, WriteBytesDoes
<1> HIDE DEF y
<1>7. y \in Buffers(BlockSize)
  BY <1>6 DEF Sound
<1>8. ~y.shrunk => InList(y)
  BY <1>6, <1>7, RoomInList DEF Sound
<1>9. z.readable = x.readable /\ f.readable = x.readable /\ y.readable = x.readable + Len(d)
  BY <1>1, <1>2, <1>4, <1>6 DEF Carries, SamePlaces, SameIndexes
<1>10. PICK s \in Nat \ {0} : Held(x, s)
  BY HeldSomehow
<1>11. PICK r \in Nat : r = x.readable
  BY <1>10, Numbers DEF Held
<1>12. ASSUME InList(y), NEW m \in 1..r + n
       PROVE  Cell(y, m) = IF m - r \in 1..n THEN d[m - r] ELSE Cell(x, m)
  <2>1. m \in Nat \ {0} /\ m <= y.readable + 0 /\ y.readable \in Nat
    BY <1>9, <1>11
  <2>2. Reaches(y, m)
    BY <1>6, <1>7, <1>12, <2>1, Reached
  <2>3. Reaches(z, m)
    BY <1>4, <1>6, <2>1, <2>2
  <2>4. Cell(y, m) = Cell(f, m)
    BY <1>6, <2>1
  <2>5. Cell(f, m) = IF m - r \in 1..n THEN d[m - r] ELSE Cell(z, m)
    BY <1>4, <1>9, <1>11, <2>1, <2>3, Zenon
  <2>6. m - r \notin 1..n => Cell(z, m) = Cell(x, m)
    <3> HAVE m - r \notin 1..n
    <3>1. m <= x.readable + 0
      BY <1>11
    <3>2. Reaches(x, m)
      BY <1>10, <2>1, <3>1, Reached DEF Held
    <3>3. Reaches(c, m) /\ Cell(c, m) = Cell(x, m)
      BY <1>1, <2>1, <3>2 DEF Carries
    <3>4. PICK u : Carries(c, u) /\ Carries(z, u)
      BY <1>2
    <3>5. Cell(u, m) = Cell(c, m) /\ Cell(u, m) = Cell(z, m)
      BY <2>1, <2>3, <3>3, <3>4 DEF Carries
    <3> QED
      BY <3>3, <3>5
  <2> QED
    BY <2>4, <2>5, <2>6, Zenon
<1>13. x.shrunk => y.shrunk
  BY <1>1, <1>2, <1>4, <1>6, Zenon
<1>14. y.low < LowUseCeil /\ y.active
  BY <1>1, <1>2, <1>4, <1>6 DEF Working
<1>15. Appended(x, d, n) = y
  BY DEF Appended, y, f, z, c
<1> QED
  BY <1>6, <1>7, <1>8, <1>9, <1>11, <1>12, <1>13, <1>14, <1>15, Zenon DEF Grown

(* Data put into the free space of either kind of buffer. *)
LEMMA FreshOrWorkingFilled ==
    ASSUME NEW x, Fresh(x) \/ Working(x), NEW d \in Seq(1..Values), NEW s, Held(x, s)
    PROVE  Fresh(Fill(x, d)) \/ Working(Fill(x, d))
<1> DEFINE f == Fill(x, d)
<1>1. CASE Fresh(x)
  <2>1. x \in Buffers(1) /\ Sound(x, 1)
    BY <1>1, FreshIsHeld DEF Held
  <2>2. /\ Sound(f, 1) /\ SamePlaces(x, f) /\ Len(f.blocks) = Len(x.blocks)
        /\ f.writable = x.writable /\ f.total = x.total
        /\ f.low = x.low /\ f.shrunk = x.shrunk /\ f.active = x.active
    BY <2>1, FillDoes
  <2> HIDE DEF f
  <2>3. Fresh(f)
    BY <1>1, <2>2 DEF Sound, Fresh, SamePlaces, SameIndexes
  <2> QED
    BY <2>3 DEF f
<1>2. CASE Working(x)
  <2>1. x \in Buffers(BlockSize) /\ Sound(x, BlockSize)
    BY <1>2 DEF Working
  <2>2. /\ Sound(f, BlockSize) /\ SamePlaces(x, f) /\ Len(f.blocks) = Len(x.blocks)
        /\ f.writable = x.writable /\ f.total = x.total
        /\ f.low = x.low /\ f.shrunk = x.shrunk /\ f.active = x.active
    BY <2>1, FillDoes, Constants
  <2> HIDE DEF f
  <2>3. Working(f)
    BY <1>2, <2>2 DEF Sound, Working, InList, SamePlaces, SameIndexes
  <2> QED
    BY <2>3 DEF f
<1> QED
  BY <1>1, <1>2

(* has_written grows the content by the data that was put there. *)
LEMMA HasWrittenDoes ==
    ASSUME NEW x, Fresh(x) \/ Working(x), NEW d \in Seq(1..Values), NEW n \in Nat, n = Len(d),
           n <= Capacity(x)
    PROVE  Grown(x, Written(x, d, n), d)
<1> USE Constants
<1> DEFINE f == Fill(x, d)
           c == CheckActive(f)
           z == AdjustBuffer(c, n)
           y == WriteBytes(z, n)
<1>1. PICK s \in Nat \ {0} : Held(x, s)
  BY HeldSomehow
<1>2. x \in Buffers(s) /\ Sound(x, s) /\ InList(x)
  BY <1>1 DEF Held
<1>3. /\ SamePlaces(x, f) /\ f.shrunk = x.shrunk
      /\ \A m \in Nat \ {0} :
            /\ Reaches(f, m) <=> Reaches(x, m)
            /\ Reaches(x, m) => Cell(f, m) = IF m - x.readable \in 1..Len(d)
                                             THEN d[m - x.readable] ELSE Cell(x, m)
  BY <1>2, FillDoes
<1>4. Fresh(f) \/ Working(f)
  BY <1>1, FreshOrWorkingFilled
<1> HIDE DEF f
<1>5. Working(c) /\ Carries(f, c) /\ c.shrunk = f.shrunk
  BY <1>4, CheckActiveDoes
<1> HIDE DEF c
<1>6. /\ Sound(z, BlockSize) /\ z.writable > n /\ z.low < LowUseCeil
      /\ (c.shrunk => z.shrunk) /\ z.active = c.active
      /\ \E u : Carries(c, u) /\ Carries(z, u)
  BY <1>5, AdjustBufferDoes DEF Working
<1> HIDE DEF z
<1>7. z \in Buffers(BlockSize) /\ n < z.writable
  <2>1. z \in Buffers(BlockSize)
    BY <1>6 DEF Sound
  <2>2. z.writable \in Nat
    BY <2>1, Numbers
  <2> QED
    BY <1>6, <2>1, <2>2
<1>8. /\ Sound(y, BlockSize) /\ y.readable = z.readable + n /\ y.writable > 0
      /\ y.low = z.low /\ y.shrunk = z.shrunk /\ y.active = z.active
      /\ y.blocks = z.blocks
      /\ \A m \in Nat \ {0} : Reaches(y, m) = Reaches(z, m) /\ Cell(y, m) = Cell(z, m)
  BY <1>6, <1>7, WriteBytesDoes
<1> HIDE DEF y
<1>9. y \in Buffers(BlockSize)
  BY <1>8 DEF Sound
<1>10. ~y.shrunk => InList(y)
  BY <1>8, <1>9, RoomInList DEF Sound
<1>11. z.readable = x.readable /\ y.readable = x.readable + Len(d)
  BY <1>3, <1>5, <1>6, <1>8 DEF Carries, SamePlaces, SameIndexes
<1>12. PICK r \in Nat : r = x.readable
  BY <1>2, Numbers
<1>13. ASSUME InList(y), NEW m \in 1..r + n
       PROVE  Cell(y, m) = IF m - r \in 1..n THEN d[m - r] ELSE Cell(x, m)
  <2>1. m \in Nat \ {0} /\ m <= y.readable + 0 /\ y.readable \in Nat /\ m <= x.readable + n
    BY <1>11, <1>12
  <2>2. Reaches(y, m)
    BY <1>8, <1>9, <1>13, <2>1, Reached
  <2>3. Reaches(z, m) /\ Cell(y, m) = Cell(z, m)
    BY <1>8, <2>1, <2>2
  <2>4. Reaches(x, m)
    BY <1>2, <2>1, Reached
  <2>5. /\ Reaches(f, m)
        /\ Cell(f, m) = IF m - r \in 1..n THEN d[m - r] ELSE Cell(x, m)
    BY <1>3, <1>12, <2>1, <2>4, Zenon
  <2>6. Reaches(c, m) /\ Cell(c, m) = Cell(f, m)
    BY <1>5, <2>1, <2>5 DEF Carries
  <2>7. PICK u : Carries(c, u) /\ Carries(z, u)
    BY <1>6
  <2>8. Cell(u, m) = Cell(c, m) /\ Cell(u, m) = Cell(z, m)
    BY <2>1, <2>3, <2>6, <2>7 DEF Carries
  <2> QED
    BY <2>3, <2>5, <2>6, <2>8, Zenon
<1>14. x.shrunk => y.shrunk
  BY <1>3, <1>5, <1>6, <1>8, Zenon
<1>15. y.low < LowUseCeil /\ y.active
  BY <1>5, <1>6, <1>8 DEF Working
<1>16. Written(x, d, n) = y
  BY DEF Written, y, z, c, f
<1> QED
  BY <1>8, <1>9, <1>10, <1>11, <1>12, <1>13, <1>14, <1>15, <1>16, Zenon DEF Grown

-----------------------------------------------------------------------------
(* The inductive invariant.  An undefined operation leaves the buffer as   *)
(* it was, and only a list that was shrunk can meet one.                   *)
BInv ==
    /\ Fresh(b) \/ Working(b)
    /\ next \in 0..Values - 1 /\ ub \in BOOLEAN
    /\ ub => b.shrunk

(* Remainders by Values. *)
LEMMA Remainder ==
    ASSUME NEW a \in Nat PROVE a % Values \in 0..Values - 1
BY DivMod, Constants

(* The producer makes values. *)
LEMMA ProducedIs ==
    ASSUME next \in 0..Values - 1, NEW n \in Nat
    PROVE  Produced(n) \in Seq(1..Values) /\ Len(Produced(n)) = n
<1>1. ASSUME NEW i \in 1..n PROVE ((next + i - 1) % Values) + 1 \in 1..Values
  <2>1. next + i - 1 \in Nat
    BY Constants
  <2>2. (next + i - 1) % Values \in 0..Values - 1
    BY <2>1, Remainder
  <2>3. \A r \in 0..Values - 1 : r + 1 \in 1..Values
    BY Constants
  <2> QED
    BY <2>2, <2>3
<1> DEFINE e(i) == ((next + i - 1) % Values) + 1
<1>2. \A i \in 1..n : e(i) \in 1..Values
  BY <1>1
<1>3. Produced(n) = [i \in 1..n |-> e(i)]
  BY DEF Produced
<1> HIDE DEF e
<1> QED
  BY <1>2, <1>3

(* Undefined keeps the buffer but for its history. *)
LEMMA StaysWhenUndefined ==
    ASSUME BInv, NEW h, h \in BOOLEAN, b.shrunk => h,
           b' = [b EXCEPT !.shrunk = h]
    PROVE  /\ Fresh(b)' \/ Working(b)'
           /\ b'.shrunk = h /\ b'.readable = b.readable
           /\ \A m : Cell(b, m)' = Cell(b, m)
<1>1. PICK s \in Nat \ {0} : Held(b, s)
  BY HeldSomehow DEF BInv
<1>2. b \in Buffers(s)
  BY <1>1 DEF Held
<1>3. /\ b'.blocks = b.blocks /\ b'.rb = b.rb /\ b'.ri = b.ri /\ b'.wb = b.wb /\ b'.wi = b.wi
      /\ b'.readable = b.readable /\ b'.writable = b.writable /\ b'.total = b.total
      /\ b'.low = b.low /\ b'.active = b.active /\ b'.shrunk = h
  BY <1>2 DEF Buffers
<1>4. ASSUME NEW t, b \in Buffers(t) PROVE b' \in Buffers(t)
  BY <1>4 DEF Buffers
<1>5. \A m : Cell(b, m)' = Cell(b, m)
  BY <1>3 DEF Cell, Block, Index, Size
<1>6. CASE Fresh(b)
  <2>1. b' \in Buffers(1)
    BY <1>4, <1>6 DEF Fresh
  <2>2. Fresh(b)'
    BY <1>3, <1>6, <2>1, Zenon DEF Fresh
  <2> QED
    BY <1>3, <1>5, <2>2, Zenon
<1>7. CASE Working(b)
  <2>1. b' \in Buffers(BlockSize)
    BY <1>4, <1>7 DEF Working
  <2>2. Sound(b, BlockSize)'
    BY <1>3, <1>7, <2>1, Zenon DEF Working, Sound, Placed, Room
  <2> QED
    <3>1. Working(b)'
      BY <1>3, <1>7, <2>1, <2>2, Zenon DEF Working, InList
    <3> QED
      BY <1>3, <1>5, <3>1, Zenon
<1> QED
  BY <1>6, <1>7 DEF BInv

(* A write: y is what it makes of b. *)
LEMMA WritesDoes ==
    ASSUME BInv, ~ub, NEW n \in Nat, NEW y, Grown(b, y, Produced(n)), Writes(y, n)
    PROVE  BInv'
<1>1. y \in Buffers(BlockSize) /\ y.shrunk \in BOOLEAN
  BY DEF Grown, Buffers
<1>2. CASE y.wb > Len(y.blocks) /\ Undefined(y)
  <2>1. ~InList(y)
    <3>1. y.wb \in Nat /\ Len(y.blocks) \in Nat
      BY <1>1, Constants, Numbers, Lists
    <3> QED
      BY <1>2, <3>1 DEF InList
  <2>2. y.shrunk
    BY <2>1 DEF Grown
  <2>3. b' = [b EXCEPT !.shrunk = y.shrunk] /\ ub' = TRUE /\ next' = next
    BY <1>2 DEF Undefined
  <2>4. (Fresh(b)' \/ Working(b)') /\ b'.shrunk = y.shrunk
    BY <1>1, <2>2, <2>3, StaysWhenUndefined
  <2> QED
    BY <2>2, <2>3, <2>4 DEF BInv
<1>3. CASE /\ y.wb <= Len(y.blocks)
           /\ b' = y /\ next' = (next + n) % Values /\ UNCHANGED ub
  <2>1. Working(y)
    BY <1>3 DEF Grown, Working, InList
  <2>2. next' \in 0..Values - 1
    <3>1. next + n \in Nat
      BY Constants DEF BInv
    <3> QED
      BY <1>3, <3>1, Remainder
  <2>3. ub' = FALSE
    BY <1>3 DEF BInv
  <2> QED
    BY <1>3, <2>1, <2>2, <2>3 DEF BInv
<1> QED
  BY <1>2, <1>3 DEF Writes

(* retrieve takes the first n bytes. *)
LEMMA RetrieveDoes ==
    ASSUME BInv, ~ub, NEW n \in Nat, n <= b.readable
    PROVE  /\ Block(b, b.rb, b.ri, n) <= Len(b.blocks)
           /\ ~(Block(b, b.rb, b.ri, n) > Len(b.blocks))
           /\ Fresh(Unread(b, n)) \/ Working(Unread(b, n))
           /\ Unread(b, n).readable = b.readable - n
           /\ \A m \in 1..b.readable - n : Cell(Unread(b, n), m) = Cell(b, m + n)
<1>1. PICK s \in Nat \ {0} : Held(b, s)
  BY HeldSomehow DEF BInv
<1> DEFINE y == Unread(b, n)
<1>2. /\ Sound(y, s) /\ InList(y) /\ Block(b, b.rb, b.ri, n) <= Len(b.blocks)
      /\ y.readable = b.readable - n /\ y.writable = b.writable /\ y.total = b.total
      /\ y.wb = b.wb /\ y.wi = b.wi /\ Len(y.blocks) = Len(b.blocks)
      /\ y.low = b.low /\ y.shrunk = b.shrunk /\ y.active = b.active
      /\ \A m \in 1..b.readable - n : Cell(y, m) = Cell(b, m + n)
  BY <1>1, UnreadDoes DEF Held
<1>3. ~(Block(b, b.rb, b.ri, n) > Len(b.blocks))
  <2>1. b \in Buffers(s) /\ Size(b) = s /\ Len(b.blocks) \in Nat
    BY <1>1, SizeIs, Lists DEF Held, Sound, Room
  <2>2. b.rb \in Nat /\ b.ri \in 0..s - 1
    BY <2>1, Numbers
  <2>3. Block(b, b.rb, b.ri, n) \in Nat
    BY <2>1, <2>2, Further
  <2> QED
    BY <1>2, <2>1, <2>3
<1>4. CASE Fresh(b)
  <2>1. Held(b, 1)
    BY <1>4, FreshIsHeld
  <2>2. Sound(y, 1) /\ n = 0
    BY <1>4, <2>1, UnreadDoes DEF Held, Fresh
  <2>3. y.rb = 1 /\ y.ri = 0
    <3>1. y \in Buffers(1) /\ Placed(y, 1)
      BY <2>2 DEF Sound
    <3>2. Cells(1, 1) = 1 /\ y.wb = 1 /\ y.wi = 0 /\ y.readable = 0
      BY <1>2, <1>4, <2>2, FewCells DEF Fresh
    <3>3. y.rb \in Nat /\ y.ri \in 0..1 - 1
      BY <3>1, Numbers
    <3>4. Cells(y.rb, 1) = y.rb
      BY <3>3 DEF Cells
    <3>5. Cells(y.wb, 1) + y.wi = Cells(y.rb, 1) + y.ri + y.readable
      BY <3>1 DEF Placed
    <3> HIDE DEF y
    <3> QED
      BY <3>2, <3>3, <3>4, <3>5
  <2> HIDE DEF y
  <2>4. Fresh(y)
    BY <1>2, <1>4, <2>2, <2>3 DEF Fresh, Sound
  <2> QED
    BY <1>2, <1>3, <2>4, Zenon DEF y
<1>5. CASE Working(b)
  <2>1. Held(b, BlockSize)
    BY <1>5, Constants DEF Working, Held
  <2>2. Sound(y, BlockSize)
    BY <2>1, UnreadDoes DEF Held
  <2> HIDE DEF y
  <2>3. Working(y)
    BY <1>2, <1>5, <2>2 DEF Working, Sound
  <2> QED
    BY <1>2, <1>3, <2>3, Zenon DEF y
<1> QED
  BY <1>4, <1>5 DEF BInv

-----------------------------------------------------------------------------
(* BInv holds at first. *)
LEMMA BInvHoldsInitially == ASSUME Init PROVE BInv
<1>1. <<0>> \in BlocksOf(1)
  BY Constants DEF BlocksOf
<1>2. << <<0>> >> \in Seq(BlocksOf(1)) /\ Len(<< <<0>> >>) = 1
  BY <1>1
<1>3. Fresh(b)
  BY <1>2 DEF Init, Fresh, Buffers
<1> QED
  <2>1. next = 0 /\ ub = FALSE
    BY DEF Init
  <2>2. 0 \in 0..Values - 1
    BY Constants
  <2> QED
    BY <1>3, <2>1, <2>2, Zenon DEF BInv

(* Every step keeps BInv. *)
LEMMA BInvIsKept == ASSUME BInv, [Next]_vars PROVE BInv'
<1>1. ASSUME NEW n \in 0..MaxLen, AppendData(n) PROVE BInv'
  <2>1. n \in Nat /\ Produced(n) \in Seq(1..Values) /\ Len(Produced(n)) = n
    BY ProducedIs, Constants DEF BInv
  <2>2. Grown(b, Appended(b, Produced(n), n), Produced(n))
    BY <2>1, AppendDoes DEF BInv
  <2>3. ~ub /\ Writes(Appended(b, Produced(n), n), n)
    BY <1>1 DEF AppendData, Appended
  <2> QED
    BY <2>1, <2>2, <2>3, WritesDoes
<1>2. ASSUME NEW n \in 0..MaxLen, HasWritten(n) PROVE BInv'
  <2>1. n \in Nat /\ Produced(n) \in Seq(1..Values) /\ Len(Produced(n)) = n
    BY ProducedIs, Constants DEF BInv
  <2>2. ~ub /\ n <= Capacity(b) /\ Writes(Written(b, Produced(n), n), n)
    BY <1>2 DEF HasWritten, Written
  <2>3. Grown(b, Written(b, Produced(n), n), Produced(n))
    BY <2>1, <2>2, HasWrittenDoes DEF BInv
  <2> QED
    BY <2>1, <2>2, <2>3, WritesDoes
<1>3. ASSUME NEW n \in 0..MaxLen, Retrieve(n) PROVE BInv'
  <2>1. ~ub /\ n \in Nat /\ n <= b.readable
    BY <1>3, Constants DEF Retrieve
  <2>2. /\ ~(Block(b, b.rb, b.ri, n) > Len(b.blocks))
        /\ Fresh(Unread(b, n)) \/ Working(Unread(b, n))
    BY <2>1, RetrieveDoes
  <2>3. b' = Unread(b, n) /\ next' = next /\ ub' = ub
    BY <1>3, <2>2 DEF Retrieve
  <2> QED
    BY <2>1, <2>2, <2>3 DEF BInv
<1>4. CASE UNCHANGED vars
  BY <1>4 DEF vars, BInv, Fresh, Working, Sound, Placed, Room, InList
<1> QED
  BY <1>1, <1>2, <1>3, <1>4 DEF Next

(* BInv holds always. *)
LEMMA BInvAlways == Spec => []BInv
BY BInvHoldsInitially, BInvIsKept, PTL DEF Spec

-----------------------------------------------------------------------------
(* The members have their types, and the low-use counter stays within its  *)
(* ceiling: asio_buffer.h's members, for blocks of every size.             *)
THEOREM BufferTypeOK == Spec => []TypeOK
<1>1. ASSUME BInv PROVE TypeOK
  <2>1. PICK s \in Nat \ {0} : Held(b, s)
    BY <1>1, HeldSomehow DEF BInv
  <2>2. b \in Buffers(s) /\ Size(b) = s
    BY <2>1, SizeIs DEF Held, Sound, Room
  <2>3. b.blocks \in Seq([1..Size(b) -> 0..Values])
    BY <2>2, Lists DEF BlocksOf
  <2>4. {b.rb, b.ri, b.wb, b.wi, b.readable, b.writable, b.total} \subseteq Nat
    BY <2>2, Numbers
  <2>5. b.low \in 0..LowUseCeil
    <3>1. b.low \in Nat
      BY <2>2, Numbers
    <3>2. b.low = 0 \/ b.low < LowUseCeil
      BY <1>1 DEF BInv, Fresh, Working
    <3> QED
      BY <3>1, <3>2, Constants
  <2> QED
    BY <1>1, <2>3, <2>4, <2>5 DEF TypeOK, BInv
<1> QED
  BY <1>1, BInvAlways, PTL

(* As long as adjust_buffer dropped no block, has_written and append can   *)
(* rely on the counters: writable_bytes_ is the room behind the write      *)
(* position, total_bytes_ the length of the list, and no operation walks   *)
(* off the list.                                                           *)
THEOREM BufferSoundUntilShrunk == Spec => []SoundUntilShrunk
<1>1. ASSUME BInv PROVE SoundUntilShrunk
  <2> SUFFICES ASSUME ~b.shrunk
               PROVE  /\ ~ub /\ b.writable = Capacity(b)
                      /\ b.total = Len(b.blocks) * Size(b)
    BY DEF SoundUntilShrunk
  <2>1. PICK s \in Nat \ {0} : Held(b, s)
    BY <1>1, HeldSomehow DEF BInv
  <2>2. b \in Buffers(s) /\ Size(b) = s /\ Room(b, s)
    BY <2>1, SizeIs DEF Held, Sound, Room
  <2>3. b.writable > 0
    BY <1>1 DEF BInv, Fresh, Working
  <2>4. b.writable = Cells(Len(b.blocks) - b.wb, s) + s - b.wi
    BY <2>2, <2>3, RoomInList
  <2>5. b.writable = Capacity(b)
    BY <2>2, <2>4, Zenon DEF Capacity, Cells
  <2>6. b.total = Len(b.blocks) * Size(b)
    BY <2>2, Zenon DEF Room, Cells
  <2>7. ~ub
    BY <1>1, Zenon DEF BInv
  <2> QED
    BY <2>5, <2>6, <2>7, Zenon
<1> QED
  BY <1>1, BInvAlways, PTL

-----------------------------------------------------------------------------
(* readable_bytes_ is the distance of the positions, and each of the bytes *)
(* between them is in the list.                                            *)
LEMMA LiveIs ==
    ASSUME NEW x, Fresh(x) \/ Working(x)
    PROVE  /\ x.readable \in Nat
           /\ (x.wb - x.rb) * Size(x) + x.wi - x.ri = x.readable
           /\ \A m \in 1..x.readable : Cell(x, m) \in 0..Values
<1>1. PICK s \in Nat \ {0} : Held(x, s)
  BY HeldSomehow
<1>2. x \in Buffers(s) /\ Sound(x, s) /\ InList(x) /\ Size(x) = s /\ Len(x.blocks) >= 1
  BY <1>1, SizeIs DEF Held, Sound, Room
<1>3. PICK w \in Nat, i \in Nat, r \in Nat, p \in Nat, h \in Nat :
         w = x.wb /\ i = x.wi /\ r = x.readable /\ p = x.rb /\ h = x.ri
  <2>1. /\ x.wb \in Nat /\ x.wi \in 0..s - 1 /\ x.readable \in Nat
        /\ x.rb \in Nat /\ x.ri \in 0..s - 1
    BY <1>2, Numbers
  <2>2. \A k \in 0..s - 1 : k \in Nat
    OBVIOUS
  <2> QED
    BY <2>1, <2>2
<1>4. PICK cw \in Nat, cp \in Nat : cw = Cells(w, s) /\ cp = Cells(p, s)
  BY CellsNat
<1>5. cw + i = cp + h + r
  BY <1>2, <1>3, <1>4, Zenon DEF Sound, Placed
<1>6. cw - cp + i - h = r
  BY <1>5
<1>7. Cells(w - p, s) = cw - cp
  BY <1>4, CellsDiff
<1>8. (x.wb - x.rb) * Size(x) + x.wi - x.ri = x.readable
  BY <1>2, <1>3, <1>6, <1>7, Zenon DEF Cells
<1>9. ASSUME NEW m \in 1..r PROVE Cell(x, m) \in 0..Values
  <2>1. m \in Nat \ {0} /\ m <= x.readable + 0
    BY <1>3
  <2>2. Reaches(x, m)
    BY <1>2, <2>1, Reached
  <2>3. /\ BlockOf(x, m) \in 1..Len(x.blocks) /\ IndexOf(x, m) \in 0..s - 1
        /\ Cell(x, m) = x.blocks[BlockOf(x, m)][IndexOf(x, m) + 1]
    BY <1>2, <2>1, <2>2, PlaceOf
  <2>4. x.blocks[BlockOf(x, m)] \in [1..s -> 0..Values]
    BY <1>2, <2>3, Lists DEF BlocksOf
  <2>5. IndexOf(x, m) + 1 \in 1..s
    BY <2>3
  <2> QED
    BY <2>3, <2>4, <2>5
<1> QED
  BY <1>3, <1>8, <1>9

Shown(x) == [m \in 1..x.readable |-> Cell(x, m)]

(* The content is a sequence of values. *)
LEMMA ShownIs ==
    ASSUME NEW x, Fresh(x) \/ Working(x)
    PROVE  /\ Shown(x) \in Seq(0..Values) /\ Len(Shown(x)) = x.readable /\ x.readable \in Nat
           /\ \A m \in 1..x.readable : Shown(x)[m] = Cell(x, m)
<1>1. x.readable \in Nat /\ \A m \in 1..x.readable : Cell(x, m) \in 0..Values
  BY LiveIs
<1>2. PICK r \in Nat : r = x.readable
  BY <1>1
<1> DEFINE e(m) == Cell(x, m)
<1>3. Shown(x) = [m \in 1..r |-> e(m)] /\ \A m \in 1..r : e(m) \in 0..Values
  BY <1>1, <1>2 DEF Shown
<1> HIDE DEF e
<1>4. /\ Shown(x) \in Seq(0..Values) /\ Len(Shown(x)) = r
      /\ \A m \in 1..r : Shown(x)[m] = e(m)
  BY <1>3
<1> QED
  BY <1>2, <1>4 DEF e

(* When a sequence is two, one behind the other. *)
LEMMA OneBehindOther ==
    ASSUME NEW S, NEW f \in Seq(S), NEW g \in Seq(S), NEW d \in Seq(S),
           Len(f) = Len(g) + Len(d),
           \A m \in 1..Len(g) : f[m] = g[m],
           \A m \in 1..Len(f) : m > Len(g) => f[m] = d[m - Len(g)]
    PROVE  f = g \o d
<1>1. PICK k \in Nat, l \in Nat : k = Len(g) /\ l = Len(d) /\ Len(f) = k + l
  OBVIOUS
<1>2. /\ g \o d \in Seq(S) /\ Len(g \o d) = Len(g) + Len(d)
      /\ \A m \in 1..Len(g) + Len(d) :
            (g \o d)[m] = IF m <= Len(g) THEN g[m] ELSE d[m - Len(g)]
  BY ConcatProperties
<1>3. ASSUME NEW m \in 1..k + l PROVE f[m] = (g \o d)[m]
  <2>1. CASE m <= k
    BY <1>1, <1>2, <2>1
  <2>2. CASE ~(m <= k)
    BY <1>1, <1>2, <2>2
  <2> QED
    BY <2>1, <2>2
<1>4. Len(f) = Len(g \o d) /\ \A m \in 1..Len(f) : f[m] = (g \o d)[m]
  BY <1>1, <1>2, <1>3
<1> QED
  BY <1>2, <1>4, SeqEqual

(* When a sequence is another without its first n. *)
LEMMA WithoutFirst ==
    ASSUME NEW S, NEW f \in Seq(S), NEW g \in Seq(S), NEW n \in Nat, n <= Len(g),
           Len(f) = Len(g) - n,
           \A m \in 1..Len(f) : f[m] = g[m + n]
    PROVE  f = SubSeq(g, n + 1, Len(g))
OBVIOUS

-----------------------------------------------------------------------------
(* Refinement of ByteQueue.  What is shown grows by what was produced and  *)
(* loses what was retrieved.                                               *)
LEMMA ContentsAre ==
    ASSUME Fresh(b) \/ Working(b)
    PROVE  Contents = Shown(b)
<1>1. Live = b.readable
  BY LiveIs DEF Live
<1> QED
  BY <1>1, Zenon DEF Contents, Shown

(* The same of the next state. *)
LEMMA ContentsAreThen ==
    ASSUME Fresh(b)' \/ Working(b)'
    PROVE  Contents' = Shown(b')
<1>1. Fresh(b') \/ Working(b')
  OBVIOUS
<1>2. Live' = b'.readable
  BY <1>1, LiveIs DEF Live
<1> QED
  BY <1>2, Zenon DEF Contents, Shown

(* What grows the buffer appends to the content. *)
LEMMA ShownGrows ==
    ASSUME NEW x, Fresh(x) \/ Working(x), NEW d \in Seq(1..Values),
           NEW y, Grown(x, y, d), InList(y)
    PROVE  Shown(y) = Shown(x) \o d
<1>1. Working(y)
  BY DEF Grown, Working
<1>2. /\ Shown(y) \in Seq(0..Values) /\ Len(Shown(y)) = y.readable
      /\ \A m \in 1..y.readable : Shown(y)[m] = Cell(y, m)
  BY <1>1, ShownIs
<1>3. /\ Shown(x) \in Seq(0..Values) /\ Len(Shown(x)) = x.readable /\ x.readable \in Nat
      /\ \A m \in 1..x.readable : Shown(x)[m] = Cell(x, m)
  BY ShownIs
<1>4. d \in Seq(0..Values)
  BY Constants
<1>5. PICK r \in Nat, l \in Nat : r = x.readable /\ l = Len(d) /\ y.readable = r + l
  BY <1>3 DEF Grown
<1>6. ASSUME NEW m \in 1..r PROVE Shown(y)[m] = Shown(x)[m]
  <2>1. m \in 1..r + l /\ m - r \notin 1..l
    OBVIOUS
  <2>2. Cell(y, m) = Cell(x, m)
    BY <1>5, <2>1 DEF Grown
  <2> QED
    BY <1>2, <1>3, <1>5, <2>1, <2>2
<1>7. ASSUME NEW m \in 1..r + l, m > r PROVE Shown(y)[m] = d[m - r]
  <2>1. m - r \in 1..l
    BY <1>7
  <2>2. Cell(y, m) = d[m - r]
    BY <1>5, <2>1 DEF Grown
  <2> QED
    BY <1>2, <1>5, <2>2
<1>8. Len(Shown(x)) = r /\ Len(d) = l /\ Len(Shown(y)) = r + l
  BY <1>2, <1>3, <1>5
<1>9. \A m \in 1..Len(Shown(x)) : Shown(y)[m] = Shown(x)[m]
  BY <1>6, <1>8
<1>10. \A m \in 1..Len(Shown(y)) : m > Len(Shown(x)) => Shown(y)[m] = d[m - Len(Shown(x))]
  BY <1>7, <1>8
<1>11. Len(Shown(y)) = Len(Shown(x)) + Len(d)
  BY <1>8
<1>12. Shown(y) \in Seq(0..Values) /\ Shown(x) \in Seq(0..Values)
  BY <1>2, <1>3
<1>13. PICK f \in Seq(0..Values), g \in Seq(0..Values), e \in Seq(0..Values) :
          f = Shown(y) /\ g = Shown(x) /\ e = d
  BY <1>4, <1>12
<1>14. /\ Len(f) = Len(g) + Len(e)
       /\ \A m \in 1..Len(g) : f[m] = g[m]
       /\ \A m \in 1..Len(f) : m > Len(g) => f[m] = e[m - Len(g)]
  BY <1>9, <1>10, <1>11, <1>13, Zenon
<1>15. f = g \o e
  BY <1>14, OneBehindOther
<1> QED
  BY <1>13, <1>15, Zenon

(* What takes from the buffer takes from the front of the content. *)
LEMMA ShownShrinks ==
    ASSUME NEW x, Fresh(x) \/ Working(x), NEW y, Fresh(y) \/ Working(y),
           NEW n \in Nat, n <= x.readable, y.readable = x.readable - n,
           \A m \in 1..x.readable - n : Cell(y, m) = Cell(x, m + n)
    PROVE  Shown(y) = SubSeq(Shown(x), n + 1, Len(Shown(x))) /\ n <= Len(Shown(x))
<1>1. /\ Shown(y) \in Seq(0..Values) /\ Len(Shown(y)) = y.readable
      /\ \A m \in 1..y.readable : Shown(y)[m] = Cell(y, m)
  BY ShownIs
<1>2. /\ Shown(x) \in Seq(0..Values) /\ Len(Shown(x)) = x.readable /\ x.readable \in Nat
      /\ \A m \in 1..x.readable : Shown(x)[m] = Cell(x, m)
  BY ShownIs
<1>3. PICK r \in Nat : r = x.readable /\ n <= r /\ y.readable = r - n
  BY <1>2
<1>4. ASSUME NEW m \in 1..r - n PROVE Shown(y)[m] = Shown(x)[m + n]
  <2>1. m + n \in 1..r
    BY <1>3
  <2> QED
    BY <1>1, <1>2, <1>3, <2>1
<1>5. Len(Shown(y)) = Len(Shown(x)) - n /\ n <= Len(Shown(x))
  BY <1>1, <1>2, <1>3
<1>6. \A m \in 1..Len(Shown(y)) : Shown(y)[m] = Shown(x)[m + n]
  BY <1>1, <1>3, <1>4
<1> QED
  BY <1>1, <1>2, <1>5, <1>6, WithoutFirst

(* A write is a Put of the queue. *)
LEMMA WritePuts ==
    ASSUME BInv, BInv', ~ub, NEW n \in 0..MaxLen, NEW y, Grown(b, y, Produced(n)), Writes(y, n)
    PROVE  Queue!Next \/ UNCHANGED Queue!vars
<1>1. Contents = Shown(b) /\ Contents' = Shown(b')
  BY ContentsAre, ContentsAreThen DEF BInv
<1>2. n \in Nat /\ Produced(n) \in Seq(1..Values)
  BY ProducedIs, Constants DEF BInv
<1>3. CASE y.wb > Len(y.blocks) /\ Undefined(y)
  <2>1. y \in Buffers(BlockSize) /\ y.shrunk \in BOOLEAN
    BY DEF Grown, Buffers
  <2>2. b.shrunk => y.shrunk
    BY DEF Grown
  <2>3. b' = [b EXCEPT !.shrunk = y.shrunk] /\ next' = next
    BY <1>3 DEF Undefined
  <2>4. b'.readable = b.readable /\ \A m : Cell(b, m)' = Cell(b, m)
    BY <2>1, <2>2, <2>3, StaysWhenUndefined
  <2>5. Shown(b') = Shown(b)
    BY <2>4, Zenon DEF Shown
  <2> QED
    BY <1>1, <2>3, <2>5, Zenon DEF Queue!vars
<1>4. CASE /\ y.wb <= Len(y.blocks)
           /\ b' = y /\ next' = (next + n) % Values /\ UNCHANGED ub
  <2>1. InList(y)
    BY <1>4 DEF InList
  <2>2. Shown(b') = Shown(b) \o Produced(n)
    BY <1>2, <1>4, <2>1, ShownGrows DEF BInv
  <2>3. Queue!Put(n)
    BY <1>1, <1>4, <2>2, Zenon DEF Queue!Put, Produced
  <2> QED
    BY <2>3, Zenon DEF Queue!Next
<1> QED
  BY <1>3, <1>4 DEF Writes

(* Every step is a step of the queue, or none. *)
LEMMA StepImplementsQueue ==
    ASSUME BInv, BInv', [Next]_vars
    PROVE  [Queue!Next]_Queue!vars
<1>1. ASSUME NEW n \in 0..MaxLen, AppendData(n) PROVE Queue!Next \/ UNCHANGED Queue!vars
  <2>1. n \in Nat /\ Produced(n) \in Seq(1..Values) /\ Len(Produced(n)) = n
    BY ProducedIs, Constants DEF BInv
  <2>2. Grown(b, Appended(b, Produced(n), n), Produced(n))
    BY <2>1, AppendDoes DEF BInv
  <2>3. ~ub /\ Writes(Appended(b, Produced(n), n), n)
    BY <1>1 DEF AppendData, Appended
  <2> QED
    BY <2>2, <2>3, WritePuts
<1>2. ASSUME NEW n \in 0..MaxLen, HasWritten(n) PROVE Queue!Next \/ UNCHANGED Queue!vars
  <2>1. n \in Nat /\ Produced(n) \in Seq(1..Values) /\ Len(Produced(n)) = n
    BY ProducedIs, Constants DEF BInv
  <2>2. ~ub /\ n <= Capacity(b) /\ Writes(Written(b, Produced(n), n), n)
    BY <1>2 DEF HasWritten, Written
  <2>3. Grown(b, Written(b, Produced(n), n), Produced(n))
    BY <2>1, <2>2, HasWrittenDoes DEF BInv
  <2> QED
    BY <2>2, <2>3, WritePuts
<1>3. ASSUME NEW n \in 0..MaxLen, Retrieve(n) PROVE Queue!Next \/ UNCHANGED Queue!vars
  <2>1. ~ub /\ n \in Nat /\ n <= b.readable
    BY <1>3, Constants DEF Retrieve
  <2>2. /\ ~(Block(b, b.rb, b.ri, n) > Len(b.blocks))
        /\ Fresh(Unread(b, n)) \/ Working(Unread(b, n))
        /\ Unread(b, n).readable = b.readable - n
        /\ \A m \in 1..b.readable - n : Cell(Unread(b, n), m) = Cell(b, m + n)
    BY <2>1, RetrieveDoes
  <2>3. b' = Unread(b, n) /\ next' = next
    BY <1>3, <2>2 DEF Retrieve
  <2>4. Shown(b') = SubSeq(Shown(b), n + 1, Len(Shown(b))) /\ n <= Len(Shown(b))
    BY <2>1, <2>2, <2>3, ShownShrinks DEF BInv
  <2>5. Contents = Shown(b) /\ Contents' = Shown(b')
    BY ContentsAre, ContentsAreThen DEF BInv
  <2>6. Queue!Get(n)
    BY <2>3, <2>4, <2>5, Zenon DEF Queue!Get
  <2> QED
    BY <2>6, Zenon DEF Queue!Next
<1>4. CASE UNCHANGED vars
  BY <1>4 DEF vars, Queue!vars, Contents, Live, Cell, Size, Block, Index
<1> QED
  BY <1>1, <1>2, <1>3, <1>4 DEF Next

(* asio_buffer keeps the stream: whatever it is asked to do, however its   *)
(* list grows, is recycled and shrinks, the bytes leave it as they came,   *)
(* in that order, each once, for blocks of every size.                     *)
THEOREM BufferIsByteQueue == Spec => ImplementsByteQueue
<1>1. ASSUME Init PROVE Queue!Init
  <2>1. Live = 0
    <3>1. b.rb = 1 /\ b.ri = 0 /\ b.wb = 1 /\ b.wi = 0 /\ Size(b) = 1
      BY <1>1 DEF Init, Size
    <3> QED
      BY <3>1 DEF Live
  <2> QED
    BY <1>1, <2>1 DEF Queue!Init, Contents, Init
<1>2. ASSUME BInv, BInv', [Next]_vars PROVE [Queue!Next]_Queue!vars
  BY <1>2, StepImplementsQueue
<1> QED
  BY <1>1, <1>2, BInvAlways, PTL DEF Spec, ImplementsByteQueue, Queue!Spec

-----------------------------------------------------------------------------
(* Induction.  A set of naturals that is not empty has a least element;    *)
(* what fails for no least number fails for none.                          *)
LEMMA Least ==
    ASSUME NEW T, T \subseteq Nat, T # {}
    PROVE  \E x \in T : \A y \in T : x <= y
<1> DEFINE R == OpToRel(<, Nat)
<1>1. R = {ss \in Nat \X Nat : ss[1] < ss[2]}
  BY DEF OpToRel
<1>2. IsWellFoundedOn(R, Nat)
  BY NatLessThanWellFounded
<1> HIDE DEF R
<1>3. PICK x \in T : \A y \in T : ~ (<<y, x>> \in R)
  BY <1>2, WFMin
<1>4. \A y \in T : ~(y < x)
  BY <1>1, <1>3
<1> QED
  BY <1>3, <1>4

(* f is what FlattenSeq computes on its way through n pieces of p. *)
Joins(f, p, n) == f = [i \in 1..n |-> IF i = 1 THEN p[i] ELSE f[i - 1] \o p[i]]

(* There is one for every number of pieces. *)
LEMMA JoinsExists == ASSUME NEW p, NEW n \in Nat PROVE \E f : Joins(f, p, n)
<1> DEFINE T == {m \in Nat : ~ \E f : Joins(f, p, m)}
<1>1. ASSUME T # {} PROVE FALSE
  <2>1. PICK m \in T : \A y \in T : m <= y
    BY <1>1, Least
  <2>2. m \in Nat /\ ~ \E f : Joins(f, p, m)
    OBVIOUS
  <2>3. m # 0
    <3>1. Joins([i \in 1..0 |-> 0], p, 0)
      BY DEF Joins
    <3> QED
      BY <2>2, <3>1
  <2>4. m - 1 \in Nat /\ ~(m <= m - 1)
    BY <2>2, <2>3
  <2>5. PICK g : Joins(g, p, m - 1)
    BY <2>1, <2>4
  <2> DEFINE e == IF m = 1 THEN p[m] ELSE g[m - 1] \o p[m]
             f == [i \in 1..m |-> IF i = m THEN e ELSE g[i]]
  <2>6. ASSUME NEW i \in 1..m PROVE f[i] = IF i = 1 THEN p[i] ELSE f[i - 1] \o p[i]
    <3>1. i # 1 => i - 1 \in 1..m /\ i - 1 # m
      BY <2>2
    <3>2. i # 1 => f[i - 1] = g[i - 1]
      BY <3>1
    <3>3. CASE i = m
      <4>1. f[i] = e
        BY <3>3
      <4> HIDE DEF f
      <4> QED
        BY <3>2, <3>3, <4>1
    <3>4. CASE i # m
      <4>1. i \in 1..m - 1
        BY <2>2, <3>4
      <4>2. g[i] = IF i = 1 THEN p[i] ELSE g[i - 1] \o p[i]
        BY <2>5, <4>1 DEF Joins
      <4>3. f[i] = g[i]
        BY <3>4
      <4> HIDE DEF f
      <4> QED
        BY <3>2, <4>2, <4>3, Zenon
    <3> QED
      BY <3>3, <3>4
  <2>7. Joins(f, p, m)
    <3> HIDE DEF e
    <3>1. f = [i \in 1..m |-> f[i]]
      OBVIOUS
    <3> HIDE DEF f
    <3>2. [i \in 1..m |-> f[i]] = [i \in 1..m |-> IF i = 1 THEN p[i] ELSE f[i - 1] \o p[i]]
      BY <2>6
    <3> QED
      BY <3>1, <3>2, Zenon DEF Joins
  <2> QED
    BY <2>2, <2>7
<1>2. n \notin T
  BY <1>1
<1> QED
  BY <1>2

(* g is p flattened if piece i is what g holds behind its first a[i - 1].  *)
Assembles(a, p, g) ==
    /\ a \in [0..Len(p) -> Nat] /\ a[0] = 0 /\ a[Len(p)] = Len(g)
    /\ \A i \in 1..Len(p) :
          /\ a[i] = a[i - 1] + Len(p[i])
          /\ \A m \in 1..Len(p[i]) : p[i][m] = g[a[i - 1] + m]

(* Pieces that lie end to end flatten to the whole. *)
LEMMA Flattened ==
    ASSUME NEW S, NEW p \in Seq(Seq(S)), Len(p) # 0, NEW g \in Seq(S),
           NEW a, Assembles(a, p, g)
    PROVE  FlattenSeq(p) = g
<1> USE DEF Assembles
<1>1. PICK n \in Nat : n = Len(p) /\ n # 0
  OBVIOUS
<1> DEFINE f == CHOOSE f : Joins(f, p, n)
<1>2. Joins(f, p, n)
  BY JoinsExists
<1>3. FlattenSeq(p) = f[n]
  BY <1>1 DEF FlattenSeq, Joins
<1> HIDE DEF f
<1> DEFINE Good(i) == /\ f[i] \in Seq(S) /\ Len(f[i]) = a[i]
                      /\ \A m \in 1..a[i] : f[i][m] = g[m]
           T == {i \in Nat : i \in 1..n /\ ~Good(i)}
<1>4. ASSUME T # {} PROVE FALSE
  <2>1. PICK i \in T : \A y \in T : i <= y
    BY <1>4, Least
  <2>2. i \in 1..n /\ ~Good(i)
    OBVIOUS
  <2>3. f[i] = IF i = 1 THEN p[i] ELSE f[i - 1] \o p[i]
    BY <1>2, <2>2 DEF Joins
  <2>4. /\ p[i] \in Seq(S) /\ a[i] = a[i - 1] + Len(p[i])
        /\ \A m \in 1..Len(p[i]) : p[i][m] = g[a[i - 1] + m]
    BY <1>1, <2>2
  <2>5. CASE i = 1
    <3>1. f[i] = p[i] /\ a[i - 1] = 0
      BY <2>3, <2>5
    <3>2. Len(p[i]) \in Nat
      BY <2>4
    <3>3. a[i] = Len(p[i]) /\ \A m \in 1..Len(p[i]) : p[i][m] = g[m]
      BY <2>4, <3>1, <3>2
    <3> QED
      BY <2>2, <2>4, <3>1, <3>3, Zenon
  <2>6. CASE i # 1
    <3>1. i - 1 \in 1..n /\ i - 1 \in Nat /\ ~(i <= i - 1)
      BY <2>2, <2>6
    <3>2. Good(i - 1)
      BY <2>1, <3>1
    <3>3. PICK q \in Seq(S), r \in Seq(S), k \in Nat, l \in Nat :
             q = f[i - 1] /\ r = p[i] /\ k = a[i - 1] /\ l = Len(r) /\ k = Len(q)
      BY <2>4, <3>2
    <3>4. f[i] = q \o r /\ a[i] = k + l
      BY <2>3, <2>4, <2>6, <3>3
    <3>5. /\ q \o r \in Seq(S) /\ Len(q \o r) = Len(q) + Len(r)
          /\ \A m \in 1..Len(q) + Len(r) :
                (q \o r)[m] = IF m <= Len(q) THEN q[m] ELSE r[m - Len(q)]
      BY ConcatProperties
    <3>6. ASSUME NEW m \in 1..k + l PROVE (q \o r)[m] = g[m]
      <4>1. CASE m <= k
        <5>1. m \in 1..k /\ m <= Len(q) /\ m \in 1..Len(q) + Len(r)
          <6>1. m \in 1..k
            BY <4>1
          <6>2. Len(q) = k /\ Len(r) = l
            BY <3>3, Zenon
          <6> QED
            BY <4>1, <6>1, <6>2, Zenon
        <5>2. q[m] = g[m]
          <6>1. m \in 1..a[i - 1]
            BY <3>3, <5>1
          <6>2. f[i - 1][m] = g[m]
            BY <3>2, <6>1
          <6> QED
            BY <3>3, <6>2
        <5>3. (q \o r)[m] = q[m]
          BY <3>5, <5>1
        <5> QED
          BY <5>2, <5>3
      <4>2. CASE ~(m <= k)
        <5>1. m - k \in 1..l /\ k + (m - k) = m
          BY <4>2
        <5>2. r[m - k] = g[k + (m - k)]
          BY <2>4, <3>3, <5>1
        <5> QED
          BY <3>3, <3>5, <4>2, <5>1, <5>2
      <4> QED
        BY <4>1, <4>2
    <3> QED
      BY <2>2, <3>3, <3>4, <3>5, <3>6
  <2> QED
    BY <2>5, <2>6
<1>5. Good(n)
  <2>1. n \notin T
    BY <1>4
  <2> QED
    BY <1>1, <2>1
<1>6. /\ f[n] \in Seq(S) /\ Len(f[n]) = Len(g)
      /\ \A m \in 1..Len(f[n]) : f[n][m] = g[m]
  BY <1>1, <1>5
<1>7. f[n] = g
  BY <1>6, SeqEqual
<1> QED
  BY <1>3, <1>7

-----------------------------------------------------------------------------
(* const_buffer.  The piece of block j shows what is behind Before(j, s)   *)
(* bytes of the buffer and not behind Through(j, s).                       *)
FirstIn(j) == IF j = b.rb THEN b.ri + 1 ELSE 1
LastIn(j) == IF j = b.wb THEN b.wi ELSE Size(b)

Before(j, s) == IF j = b.rb THEN 0 ELSE Cells(j, s) - Cells(b.rb, s) - b.ri
Through(j, s) ==
    IF j = b.wb THEN b.readable ELSE Cells(j, s) + s - Cells(b.rb, s) - b.ri

(* Where the piece of a block begins and ends. *)
LEMMA Bounds ==
    ASSUME NEW s, Held(b, s), NEW j \in b.rb..b.wb
    PROVE  /\ FirstIn(j) \in 1..s /\ LastIn(j) \in 0..s /\ FirstIn(j) <= LastIn(j) + 1
           /\ Before(j, s) \in Nat /\ Through(j, s) \in Nat /\ Through(j, s) <= b.readable
           /\ Cells(b.rb, s) + b.ri + Before(j, s) = Cells(j, s) + FirstIn(j) - 1
           /\ Cells(b.rb, s) + b.ri + Through(j, s) = Cells(j, s) + LastIn(j)
<1>1. s \in Nat \ {0} /\ b \in Buffers(s) /\ Placed(b, s) /\ Size(b) = s
  BY SizeIs DEF Held, Sound, Room
<1>2. PICK w \in Nat, wi \in Nat, r \in Nat, p \in Nat, ri \in Nat :
         /\ w = b.wb /\ wi = b.wi /\ r = b.readable /\ p = b.rb /\ ri = b.ri
         /\ wi \in 0..s - 1 /\ ri \in 0..s - 1
  <2>1. /\ b.wb \in Nat /\ b.wi \in 0..s - 1 /\ b.readable \in Nat
        /\ b.rb \in Nat /\ b.ri \in 0..s - 1
    BY <1>1, Numbers
  <2>2. \A k \in 0..s - 1 : k \in Nat
    BY <1>1
  <2> QED
    BY <2>1, <2>2
<1>3. j \in Nat /\ p <= j /\ j <= w
  BY <1>2
<1>4. PICK cw \in Nat, cp \in Nat, cj \in Nat :
         cw = Cells(w, s) /\ cp = Cells(p, s) /\ cj = Cells(j, s)
  BY <1>1, <1>2, <1>3, CellsNat
<1>5. cw + wi = cp + ri + r
  BY <1>1, <1>2, <1>4, Zenon DEF Placed
<1>6. /\ p < j => cp + s <= cj
      /\ j < w => cj + s <= cw
      /\ j = p => cj = cp
      /\ j = w => cj = cw
  BY <1>1, <1>2, <1>3, <1>4, CellsOrder
<1>7. PICK f \in Int, l \in Int, m \in Int, t \in Int :
         /\ f = (IF j = p THEN ri + 1 ELSE 1) /\ l = (IF j = w THEN wi ELSE s)
         /\ m = (IF j = p THEN 0 ELSE cj - cp - ri)
         /\ t = (IF j = w THEN r ELSE cj + s - cp - ri)
  <2>1. /\ (IF j = p THEN ri + 1 ELSE 1) \in Int /\ (IF j = w THEN wi ELSE s) \in Int
        /\ (IF j = p THEN 0 ELSE cj - cp - ri) \in Int
        /\ (IF j = w THEN r ELSE cj + s - cp - ri) \in Int
    BY <1>1
  <2> QED
    BY <2>1
<1>8. f = FirstIn(j) /\ l = LastIn(j) /\ m = Before(j, s) /\ t = Through(j, s)
  BY <1>1, <1>2, <1>4, <1>7, Zenon DEF FirstIn, LastIn, Before, Through
<1>9. /\ f \in 1..s /\ l \in 0..s /\ f <= l + 1
      /\ m \in Nat /\ t \in Nat /\ t <= r
      /\ cp + ri + m = cj + f - 1 /\ cp + ri + t = cj + l
  BY <1>1, <1>2, <1>3, <1>5, <1>6, <1>7
<1> QED
  BY <1>2, <1>4, <1>8, <1>9, Zenon

(* A function on 1..n is a sequence. *)
LEMMA AsSeq ==
    ASSUME NEW S, NEW n \in Nat, NEW d \in [1..n -> S]
    PROVE  d \in Seq(S) /\ Len(d) = n
OBVIOUS

(* A piece is the part of the content that lies in its block. *)
LEMMA PieceIs ==
    ASSUME NEW s, Held(b, s), NEW j \in b.rb..b.wb
    PROVE  /\ Piece(j) \in Seq(0..Values)
           /\ Through(j, s) = Before(j, s) + Len(Piece(j))
           /\ \A m \in 1..Len(Piece(j)) : /\ Before(j, s) + m \in 1..b.readable
                                          /\ Piece(j)[m] = Cell(b, Before(j, s) + m)
<1>1. s \in Nat \ {0} /\ b \in Buffers(s) /\ Len(b.blocks) >= 1 /\ InList(b) /\ Size(b) = s
  BY SizeIs DEF Held, Sound, Room
<1>2. PICK f \in 1..s, l \in 0..s, k \in Nat, t \in Nat, r \in Nat, c \in Nat, cj \in Nat, ri \in Nat :
         /\ f = FirstIn(j) /\ l = LastIn(j) /\ k = Before(j, s) /\ t = Through(j, s)
         /\ r = b.readable /\ c = Cells(b.rb, s) /\ cj = Cells(j, s) /\ ri = b.ri
  <2>1. /\ FirstIn(j) \in 1..s /\ LastIn(j) \in 0..s /\ Before(j, s) \in Nat /\ Through(j, s) \in Nat
    BY Bounds
  <2>2. /\ b.rb \in Nat \ {0} /\ b.wb \in Nat \ {0} /\ b.readable \in Nat /\ Cells(b.rb, s) \in Nat
        /\ b.ri \in 0..s - 1
    BY <1>1, Numbers
  <2>3. j \in Nat
    BY <2>2
  <2>4. Cells(j, s) \in Nat
    BY <1>1, <2>3, CellsNat
  <2>5. \A x \in 0..s - 1 : x \in Nat
    BY <1>1
  <2> QED
    BY <2>1, <2>2, <2>4, <2>5
<1>3. f <= l + 1 /\ t <= r /\ c + ri + k = cj + f - 1 /\ c + ri + t = cj + l
  BY <1>2, Bounds, Zenon
<1>4. f \in Nat /\ l \in Nat /\ f >= 1 /\ l <= s
  BY <1>1
<1>5. j \in 1..Len(b.blocks) /\ j \in Nat
  <2>1. b.rb \in Nat \ {0} /\ b.wb \in Nat \ {0} /\ Len(b.blocks) \in Nat
    BY <1>1, Numbers, Lists
  <2> QED
    BY <1>1, <2>1 DEF InList
<1>6. PICK d \in [1..s -> 0..Values] : d = b.blocks[j]
  BY <1>1, <1>5, Lists DEF BlocksOf
<1>7. d \in Seq(0..Values) /\ Len(d) = s
  <2>1. s \in Nat
    BY <1>1
  <2> QED
    BY <2>1, AsSeq
<1>8. Piece(j) = SubSeq(d, f, l)
  BY <1>2, <1>6, Zenon DEF Piece, FirstIn, LastIn
<1>9. PICK n \in Nat : n = l - f + 1
  BY <1>3, <1>4
<1>10. /\ SubSeq(d, f, l) \in Seq(0..Values) /\ Len(SubSeq(d, f, l)) = n
       /\ \A m \in 1..n : SubSeq(d, f, l)[m] = d[f + m - 1]
  <2>1. f \in 1..s + 1 /\ l \in f - 1..s
    BY <1>1, <1>3, <1>4
  <2>2. CASE l = f - 1
    BY <1>4, <1>7, <1>9, <2>1, <2>2
  <2>3. CASE l # f - 1
    BY <1>4, <1>7, <1>9, <2>1, <2>3
  <2> QED
    BY <2>2, <2>3
<1>11. t = k + n
  BY <1>3, <1>4, <1>9
<1>12. ASSUME NEW m \in 1..n PROVE k + m \in 1..r /\ d[f + m - 1] = Cell(b, k + m)
  <2>1. PICK q \in 0..s - 1 : q = f + m - 2
    BY <1>1, <1>4, <1>9
  <2>2. PICK i \in Nat \ {0} : i = k + m
    OBVIOUS
  <2>3. i \in 1..r
    BY <1>3, <1>11, <2>2
  <2>4. /\ BlockOf(b, i) \in Nat \ {0} /\ IndexOf(b, i) \in 0..s - 1
        /\ Cell(b, i) = b.blocks[BlockOf(b, i)][IndexOf(b, i) + 1]
        /\ Cells(BlockOf(b, i), s) + IndexOf(b, i) + 1 = Cells(b.rb, s) + b.ri + i
        /\ Reaches(b, i) => BlockOf(b, i) \in 1..Len(b.blocks)
    <3>1. s \in Nat \ {0} /\ b \in Buffers(s) /\ Len(b.blocks) >= 1
      BY <1>1, Zenon
    <3> QED
      BY <3>1, PlaceOf, Zenon
  <2>5. PICK p \in Nat \ {0}, h \in 0..s - 1 : p = BlockOf(b, i) /\ h = IndexOf(b, i)
    BY <2>4
  <2>6. Cells(p, s) + h + 1 = c + ri + i
    BY <1>2, <2>4, <2>5, Zenon
  <2>7. Cells(p, s) \in Nat
    BY <1>1, CellsNat
  <2>8. Cells(p, s) + h = cj + q
    BY <1>3, <1>4, <2>1, <2>2, <2>6, <2>7
  <2>9. p = j /\ h = q
    <3>1. s \in Nat \ {0} /\ j \in Nat /\ p \in Nat
      BY <1>1, <1>5
    <3>2. Cells(p, s) + h = Cells(j, s) + q
      BY <1>2, <2>8, Zenon
    <3> QED
      BY <3>1, <3>2, Places
  <2>10. h + 1 = f + m - 1
    BY <1>4, <2>1, <2>9
  <2>11. Cell(b, i) = d[h + 1]
    BY <1>6, <2>4, <2>5, <2>9
  <2> QED
    BY <2>2, <2>3, <2>10, <2>11
<1> QED
  BY <1>2, <1>8, <1>10, <1>11, <1>12

(* What the write side gathers for the socket is what readable_bytes says: *)
(* the bytes between the positions, each once and in their order.          *)
THEOREM BufferGathersAll == Spec => []GathersAll
<1>1. ASSUME BInv PROVE GathersAll
  <2>1. Fresh(b) \/ Working(b)
    BY <1>1 DEF BInv
  <2>2. PICK s \in Nat \ {0} : Held(b, s)
    BY <2>1, HeldSomehow
  <2>3. s \in Nat \ {0} /\ b \in Buffers(s) /\ Placed(b, s)
    BY <2>2 DEF Held, Sound
  <2>4. PICK u \in Nat \ {0}, w \in Nat \ {0}, r \in Nat :
           u = b.rb /\ w = b.wb /\ r = b.readable /\ u <= w
    BY <2>3, Numbers, PlacesInOrder
  <2>5. PICK n \in Nat \ {0} : n = w - u + 1
    BY <2>4
  <2>6. \A i \in 1..n : /\ u + i - 1 \in b.rb..b.wb /\ u + i - 1 \in Nat
                        /\ (u + i - 1 = w) <=> (i = n)
                        /\ (u + i - 1 = u) <=> (i = 1)
    BY <2>4, <2>5
  <2> DEFINE p == [i \in 1..n |-> Piece(u + i - 1)]
             a == [i \in 0..n |-> IF i = 0 THEN 0 ELSE Through(u + i - 1, s)]
  <2>7. ConstBuffer = FlattenSeq(p)
    BY <2>4, <2>5, Zenon DEF ConstBuffer
  <2>8. Contents = Shown(b) /\ Live = b.readable
    BY <2>1, ContentsAre, LiveIs DEF Live
  <2>9. /\ Shown(b) \in Seq(0..Values) /\ Len(Shown(b)) = r
        /\ \A m \in 1..r : Shown(b)[m] = Cell(b, m)
    BY <2>1, <2>4, ShownIs
  <2>10. /\ p \in Seq(Seq(0..Values)) /\ Len(p) = n
         /\ \A i \in 1..n : p[i] = Piece(u + i - 1)
    <3> DEFINE e(i) == Piece(u + i - 1)
    <3>1. p = [i \in 1..n |-> e(i)] /\ \A i \in 1..n : e(i) \in Seq(0..Values)
      BY <2>2, <2>6, PieceIs
    <3> HIDE DEF e, p
    <3>2. /\ p \in Seq(Seq(0..Values)) /\ Len(p) = n
          /\ \A i \in 1..n : p[i] = e(i)
      BY <3>1
    <3> QED
      BY <3>2 DEF e
  <2>11. /\ a \in [0..n -> Nat] /\ a[0] = 0
         /\ \A i \in 1..n : a[i] = Through(u + i - 1, s)
    <3>1. \A i \in 1..n : Through(u + i - 1, s) \in Nat
      BY <2>2, <2>6, Bounds
    <3> DEFINE e(i) == Through(u + i - 1, s)
    <3>2. a = [i \in 0..n |-> IF i = 0 THEN 0 ELSE e(i)] /\ \A i \in 1..n : e(i) \in Nat
      BY <3>1
    <3> HIDE DEF e, a
    <3>3. a \in [0..n -> Nat] /\ a[0] = 0 /\ \A i \in 1..n : a[i] = e(i)
      BY <3>2
    <3> QED
      BY <3>3 DEF e
  <2> HIDE DEF p, a
  <2>12. a[n] = r
    BY <2>4, <2>6, <2>11 DEF Through
  <2>13. ASSUME NEW i \in 1..n PROVE a[i - 1] = Before(u + i - 1, s)
    <3>1. CASE i = 1
      BY <2>4, <2>11, <3>1 DEF Before
    <3>2. CASE i # 1
      <4>1. PICK k \in 1..n : k = i - 1 /\ k # n
        BY <3>2
      <4>2. a[k] = Through(u + k - 1, s) /\ u + k - 1 # w /\ u + i - 1 # u
        BY <2>6, <2>11, <3>2, <4>1
      <4>3. PICK j \in Nat : j = u + k - 1 /\ j + 1 = u + i - 1
        BY <4>1
      <4>4. /\ Through(j, s) = Cells(j, s) + s - Cells(b.rb, s) - b.ri
            /\ Before(j + 1, s) = Cells(j + 1, s) - Cells(b.rb, s) - b.ri
        <5>1. j # w /\ j + 1 # u
          BY <4>2, <4>3, Zenon
        <5> QED
          BY <2>4, <5>1, Zenon DEF Through, Before
      <4>5. Cells(j + 1, s) = Cells(j, s) + s
        BY <2>3, CellsSum, FewCells
      <4>6. Through(j, s) = Before(j + 1, s)
        <5>1. b.ri \in 0..s - 1 /\ Cells(b.rb, s) \in Nat /\ Cells(j, s) \in Nat
          BY <2>3, Numbers, CellsNat
        <5> QED
          BY <4>4, <4>5, <5>1
      <4>7. a[k] = Before(j + 1, s)
        BY <4>2, <4>3, <4>6, Zenon
      <4> QED
        BY <4>1, <4>3, <4>7, Zenon
    <3> QED
      BY <3>1, <3>2
  <2>14. ASSUME NEW i \in 1..n
         PROVE  /\ a[i] = a[i - 1] + Len(p[i])
                /\ \A m \in 1..Len(p[i]) : p[i][m] = Shown(b)[a[i - 1] + m]
    <3>1. /\ Through(u + i - 1, s) = Before(u + i - 1, s) + Len(p[i])
          /\ \A m \in 1..Len(p[i]) : /\ Before(u + i - 1, s) + m \in 1..b.readable
                                     /\ p[i][m] = Cell(b, Before(u + i - 1, s) + m)
      <4>1. p[i] = Piece(u + i - 1) /\ u + i - 1 \in b.rb..b.wb
        BY <2>6, <2>10
      <4> QED
        BY <2>2, <4>1, PieceIs, Zenon
    <3>2. a[i] = Through(u + i - 1, s) /\ a[i - 1] = Before(u + i - 1, s)
      BY <2>11, <2>13
    <3>3. \A m \in 1..b.readable : Shown(b)[m] = Cell(b, m)
      BY <2>4, <2>9
    <3> QED
      BY <3>1, <3>2, <3>3, Zenon
  <2>15. FlattenSeq(p) = Shown(b)
    <3>1. /\ a \in [0..Len(p) -> Nat] /\ a[0] = 0 /\ a[Len(p)] = Len(Shown(b))
      BY <2>9, <2>10, <2>11, <2>12
    <3>2. \A i \in 1..Len(p) :
             /\ a[i] = a[i - 1] + Len(p[i])
             /\ \A m \in 1..Len(p[i]) : p[i][m] = Shown(b)[a[i - 1] + m]
      BY <2>10, <2>14
    <3>3. Assembles(a, p, Shown(b))
      BY <3>1, <3>2, Zenon DEF Assembles
    <3>4. Len(p) # 0
      BY <2>10
    <3> QED
      BY <2>9, <2>10, <3>3, <3>4, Flattened
  <2> QED
    BY <2>7, <2>8, <2>15 DEF GathersAll
<1> QED
  BY <1>1, BInvAlways, PTL
=============================================================================
