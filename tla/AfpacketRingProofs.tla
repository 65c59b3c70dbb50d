------------------------- MODULE AfpacketRingProofs -------------------------
(***************************************************************************)
(* Proofs about AfpacketRing, for a ring of any number of blocks of any    *)
(* size.  The invariant gives every block from the reader's offset up to   *)
(* the kernel's its place in the sequence of the packets that were kept.   *)
(***************************************************************************)
EXTENDS AfpacketRing, SequenceTheorems, TLAPS

\* The block i places on from offset o.
Pos(o, i) == IF o + i < NumBlocks THEN o + i ELSE (o + i) - NumBlocks

\* A block, and the kernel's cursor.
BlockRec == [user : BOOLEAN, pkts : Seq(Packet), left : 0..MaxPackets]
KernelRec == [cur : Block, open : BOOLEAN, empties : BOOLEAN]
USE DEF BlockRec, KernelRec

\* TypeOK, with the ghost variables and what fits into a block.
Types ==
    /\ blocks \in [Block -> BlockRec]
    /\ kernel \in KernelRec
    /\ h \in [offset : Block, current : Block \cup {NoBlock}, used : 0..(BlockCap - 1),
              shouldReleasePacket : BOOLEAN, headerNextNeeded : BOOLEAN]
    /\ pc \in {"idle", "retry", "poll", "closed"}
    /\ arrived \in 0..MaxPackets /\ kept \in Seq(Packet) /\ read \in Seq(Packet)
    /\ \A b \in Block : Len(blocks[b].pkts) <= BlockCap

\* The block at the reader's offset.
First == blocks[h.offset]

\* What the reader's flags mean: it waits for a block, has an empty one, has
\* returned its packet number used or the one left in it, or has none after an
\* error.
ReaderAt ==
    /\ pc = "poll" => ~h.shouldReleasePacket /\ h.current = h.offset /\ h.used = 0
    /\ pc = "retry" => /\ h.shouldReleasePacket /\ h.current = h.offset
                       /\ First.user /\ First.pkts = <<>>
    /\ pc \in {"idle", "closed"} =>
        \/ ~h.shouldReleasePacket /\ ~h.headerNextNeeded
        \/ /\ h.shouldReleasePacket /\ h.headerNextNeeded /\ h.current = h.offset
           /\ First.user /\ h.used < Len(Headers(First))
    /\ data # NoData => /\ pc = "idle" /\ h.shouldReleasePacket
                        /\ data.block = h.offset /\ data.at = h.used + 1
                        /\ data.packet = Headers(First)[h.used + 1]

\* How many packets of the first block were returned.
Taken == IF pc \in {"idle", "closed"} /\ h.shouldReleasePacket /\ First.pkts # <<>>
         THEN h.used + 1 ELSE 0

\* The blocks that hold packets to be returned, when n were handed over.
Live(n) == IF kernel.open THEN n + 1 ELSE n

\* n blocks from the offset on were handed over, the kernel is at the next.
Handed(n) ==
    /\ n \in 0..NumBlocks
    /\ kernel.open => n < NumBlocks
    /\ kernel.cur = Pos(h.offset, n)
    /\ \A i \in 0..(NumBlocks - 1) : blocks[Pos(h.offset, i)].user <=> i < n

\* f[i] packets were kept before the i-th of these blocks.
Places(n, f) ==
    /\ f \in [0..Live(n) -> Nat]
    /\ f[0] + Taken = Len(read)
    /\ f[Live(n)] = Len(kept)
    /\ \A i \in 0..Live(n) : f[i] <= Len(kept)
    /\ \A i \in 0..(Live(n) - 1) :
        /\ f[i + 1] = f[i] + Len(blocks[Pos(h.offset, i)].pkts)
        /\ \A j \in 1..Len(blocks[Pos(h.offset, i)].pkts) :
            blocks[Pos(h.offset, i)].pkts[j] = kept[f[i] + j]

\* What was read is where what was kept begins.
ReadFirst ==
    /\ Len(read) <= Len(kept)
    /\ \A i \in 1..Len(read) : read[i] = kept[i]

\* Packet p was returned.
Was(p) == \E i \in 1..Len(read) : read[i] = p

\* What is left in the first place of a block was returned, and so was all that
\* is in a block that was given back and is not opened yet; where the kernel
\* hands over no empty block, the reader has none.
Spent ==
    /\ \A b \in Block : blocks[b].left = 0 \/ Was(blocks[b].left)
    /\ \A b \in Block : ~blocks[b].user /\ ~(kernel.open /\ b = kernel.cur) =>
                         \A j \in 1..Len(blocks[b].pkts) : Was(blocks[b].pkts[j])
    /\ \A b \in Block : blocks[b].user => kernel.empties \/ blocks[b].pkts # <<>>

\* The inductive invariant.
RingInv == /\ Types /\ ReaderAt /\ ReadFirst
           /\ \E n \in 0..NumBlocks : Handed(n) /\ \E f \in [0..Live(n) -> Nat] : Places(n, f)

-----------------------------------------------------------------------------
(* Arithmetic of the ring, and facts that every step needs.                *)

\* Pos counts around the ring, passes every block, and is the offset again
\* after NumBlocks.
LEMMA PosFacts ==
    ASSUME NEW o \in Block
    PROVE  /\ NumBlocks \in Nat \ {0}
           /\ \A i \in 0..NumBlocks : Pos(o, i) \in Block /\ Pos(o, i) = (o + i) % NumBlocks
           /\ \A i, j \in 0..(NumBlocks - 1) : Pos(o, i) = Pos(o, j) => i = j
           /\ Pos(o, 0) = o /\ Pos(o, NumBlocks) = o
           /\ \A i \in 0..(NumBlocks - 1) : Pos(Pos(o, 1), i) = Pos(o, i + 1)
           /\ \A i \in 0..(NumBlocks - 1) : (Pos(o, i) + 1) % NumBlocks = Pos(o, i + 1)
           /\ \A b \in Block : \E i \in 0..(NumBlocks - 1) : Pos(o, i) = b
  <1>0. NumBlocks \in Nat \ {0}
    BY RingAssumption
  <1>1. \A x \in 0..(2 * NumBlocks - 1) : x % NumBlocks = IF x < NumBlocks THEN x ELSE x - NumBlocks
    BY <1>0
  <1>2. \A i \in 0..NumBlocks : Pos(o, i) \in Block /\ Pos(o, i) = (o + i) % NumBlocks
    BY <1>0, <1>1 DEF Pos, Block
  <1>3. \A i, j \in 0..(NumBlocks - 1) : Pos(o, i) = Pos(o, j) => i = j
    BY <1>0 DEF Pos, Block
  <1>4. Pos(o, 0) = o /\ Pos(o, NumBlocks) = o
    BY <1>0 DEF Pos, Block
  <1>5. \A i \in 0..(NumBlocks - 1) : Pos(Pos(o, 1), i) = Pos(o, i + 1)
    BY <1>0 DEF Pos, Block
  <1>6. \A i \in 0..(NumBlocks - 1) : (Pos(o, i) + 1) % NumBlocks = Pos(o, i + 1)
    BY <1>0, <1>1 DEF Pos, Block
  <1>7. ASSUME NEW b \in Block PROVE \E i \in 0..(NumBlocks - 1) : Pos(o, i) = b
    <2>1. CASE b >= o
      <3>1. b - o \in 0..(NumBlocks - 1) /\ Pos(o, b - o) = b
        BY <1>0, <2>1 DEF Pos, Block
      <3> QED BY <3>1
    <2>2. CASE b < o
      <3>1. (b + NumBlocks) - o \in 0..(NumBlocks - 1) /\ Pos(o, (b + NumBlocks) - o) = b
        BY <1>0, <2>2 DEF Pos, Block
      <3> QED BY <3>1
    <2> QED BY <2>1, <2>2 DEF Block
  <1> QED BY <1>0, <1>2, <1>3, <1>4, <1>5, <1>6, <1>7

\* The parts of the state have their types.
LEMMA TypeParts ==
    ASSUME Types
    PROVE  /\ h.offset \in Block /\ h.used \in 0..(BlockCap - 1) /\ h.used \in Nat
           /\ h.shouldReleasePacket \in BOOLEAN /\ h.headerNextNeeded \in BOOLEAN
           /\ kernel.cur \in Block /\ kernel.open \in BOOLEAN
           /\ \A b \in Block : /\ blocks[b] \in BlockRec
                               /\ blocks[b].user \in BOOLEAN /\ blocks[b].pkts \in Seq(Packet)
                               /\ Len(blocks[b].pkts) \in Nat /\ Len(blocks[b].pkts) <= BlockCap
           /\ kept \in Seq(Packet) /\ Len(kept) \in Nat /\ read \in Seq(Packet) /\ Len(read) \in Nat
           /\ BlockCap \in Nat \ {0} /\ MaxPackets \in Nat
  <1>1. BlockCap \in Nat \ {0} /\ MaxPackets \in Nat
    BY RingAssumption
  <1>2. /\ h.offset \in Block /\ h.used \in 0..(BlockCap - 1) /\ h.used \in Nat
        /\ h.shouldReleasePacket \in BOOLEAN /\ h.headerNextNeeded \in BOOLEAN
    BY <1>1 DEF Types
  <1>3. kernel.cur \in Block /\ kernel.open \in BOOLEAN
    BY DEF Types
  <1>4. ASSUME NEW b \in Block
        PROVE  /\ blocks[b] \in BlockRec
               /\ blocks[b].user \in BOOLEAN /\ blocks[b].pkts \in Seq(Packet)
               /\ Len(blocks[b].pkts) \in Nat /\ Len(blocks[b].pkts) <= BlockCap
    BY DEF Types
  <1>5. kept \in Seq(Packet) /\ Len(kept) \in Nat /\ read \in Seq(Packet) /\ Len(read) \in Nat
    BY DEF Types
  <1> QED BY <1>1, <1>2, <1>3, <1>4, <1>5

\* An emptied block has no packets; its first packet is the one that is left.
LEMMA EmptiedBlock ==
    ASSUME NEW blk \in BlockRec, NEW e, e = Emptied(blk)
    PROVE  /\ e \in BlockRec /\ e.user = blk.user /\ e.pkts = <<>>
           /\ \/ e.left = blk.left
              \/ 1 \in 1..Len(blk.pkts) /\ e.left = blk.pkts[1]
  <1>1. <<>> \in Seq(Packet)
    BY EmptySeq
  <1>2. CASE blk.pkts = <<>>
    <2>1. e = [blk EXCEPT !.pkts = <<>>, !.left = blk.left]
      BY <1>2 DEF Emptied
    <2> QED BY <1>1, <2>1
  <1>3. CASE blk.pkts # <<>>
    <2>1. e = [blk EXCEPT !.pkts = <<>>, !.left = blk.pkts[1]]
      BY <1>3 DEF Emptied
    <2>2. blk.pkts \in Seq(Packet) /\ Len(blk.pkts) \in Nat \ {0} /\ 1 \in 1..Len(blk.pkts)
      BY <1>3, EmptySeq
    <2>3. blk.pkts[1] \in Packet
      BY <2>2, ElementOfSeq
    <2>4. blk.pkts[1] \in 0..MaxPackets
      BY <2>3, RingAssumption DEF Packet
    <2>5. PICK u \in BOOLEAN, q \in Seq(Packet), l \in 0..MaxPackets :
              blk = [user |-> u, pkts |-> q, left |-> l]
      OBVIOUS
    <2>6. e = [user |-> u, pkts |-> <<>>, left |-> q[1]]
      BY <2>1, <2>5
    <2>7. blk.user = u /\ blk.pkts = q /\ e.user = u /\ e.pkts = <<>> /\ e.left = q[1]
      BY <2>5, <2>6
    <2>8. q[1] \in 0..MaxPackets
      BY <2>4, <2>7
    <2>9. e \in BlockRec
      BY <1>1, <2>6, <2>8
    <2> QED BY <2>2, <2>7, <2>9
  <1> QED BY <1>2, <1>3

\* The packets in a block that has some are the ones its headers show.
LEMMA HeadersFacts ==
    ASSUME NEW blk \in BlockRec
    PROVE  /\ blk.pkts # <<>> => Headers(blk) = blk.pkts
           /\ blk.pkts = <<>> => IF blk.left = 0 THEN Headers(blk) = <<>>
                                 ELSE Headers(blk) = <<blk.left>>
           /\ Len(Headers(blk)) \in Nat /\ Len(blk.pkts) \in Nat
           /\ Headers(blk) = <<>> <=> blk.pkts = <<>> /\ blk.left = 0
           /\ blk.pkts = <<>> <=> Len(blk.pkts) = 0
  <1>1. blk.pkts # <<>> => Headers(blk) = blk.pkts
    BY DEF Headers
  <1>2. blk.pkts = <<>> => IF blk.left = 0 THEN Headers(blk) = <<>> ELSE Headers(blk) = <<blk.left>>
    BY DEF Headers
  <1>3. Len(<<blk.left>>) = 1 /\ Len(<<>>) = 0 /\ <<blk.left>> # <<>> /\ Len(blk.pkts) \in Nat
    OBVIOUS
  <1>4. blk.pkts = <<>> <=> Len(blk.pkts) = 0
    BY EmptySeq
  <1>5. CASE blk.pkts # <<>>
    BY <1>1, <1>3, <1>4, <1>5
  <1>6. CASE blk.pkts = <<>> /\ blk.left = 0
    BY <1>2, <1>3, <1>4, <1>6
  <1>7. CASE blk.pkts = <<>> /\ blk.left # 0
    <2>1. Headers(blk) = <<blk.left>>
      BY <1>2, <1>7
    <2>2. Headers(blk) # <<>> /\ Len(Headers(blk)) = 1
      BY <1>3, <2>1
    <2>3. Len(Headers(blk)) \in Nat
      BY <2>2
    <2> QED BY <1>3, <1>4, <1>7, <2>1, <2>2, <2>3
  <1> QED BY <1>5, <1>6, <1>7

\* Of the first k packets, those with the numbers behind a that a block holds
\* are l at most.
LEMMA PlaceInside ==
    ASSUME NEW a \in Nat, NEW l \in Nat, NEW k \in Nat, a + l <= k
    PROVE  \A j \in 1..l : a + j \in 1..k
  OBVIOUS

\* A reader that has the first block keeps its count while that block stands.
LEMMA SameTaken ==
    ASSUME ReaderAt, First.user => First' = First, h' = h, pc' = pc
    PROVE  Taken' = Taken
  <1>1. pc \in {"idle", "closed"} /\ h.shouldReleasePacket => First.user
    BY DEF ReaderAt
  <1> QED BY <1>1 DEF Taken

\* At the start the kernel has opened the block at the reader's offset.
LEMMA InitRing == Init => RingInv
  <1> SUFFICES ASSUME Init PROVE RingInv
    OBVIOUS
  <1>0. NumBlocks \in Nat \ {0} /\ BlockCap \in Nat \ {0} /\ MaxPackets \in Nat /\ 0 \in Block
    BY RingAssumption DEF Block
  <1>1. <<>> \in Seq(Packet) /\ Len(<<>>) = 0
    BY EmptySeq
  <1>2. Types
    <2>1. blocks \in [Block -> BlockRec]
      BY <1>0, <1>1 DEF Init
    <2>2. kernel \in KernelRec
      BY <1>0, RingAssumption DEF Init
    <2>3. h \in [offset : Block, current : Block \cup {NoBlock}, used : 0..(BlockCap - 1),
                 shouldReleasePacket : BOOLEAN, headerNextNeeded : BOOLEAN]
      BY <1>0 DEF Init
    <2>4. \A b \in Block : Len(blocks[b].pkts) <= BlockCap
      BY <1>0, <1>1 DEF Init
    <2> QED BY <1>0, <1>1, <2>1, <2>2, <2>3, <2>4 DEF Init, Types
  <1>3. ReaderAt
    BY DEF Init, ReaderAt
  <1>4. ReadFirst
    BY <1>1 DEF Init, ReadFirst
  <1>5. h.offset = 0 /\ kernel.open /\ kernel.cur = 0 /\ Live(0) = 1 /\ Taken = 0
    BY DEF Init, Live, Taken
  <1>6. \A i \in 0..NumBlocks : Pos(0, i) \in Block /\ Pos(0, 0) = 0
    BY <1>0, PosFacts
  <1>7. Handed(0)
    BY <1>0, <1>5, <1>6 DEF Init, Handed
  <1>8. PICK f \in [0..1 -> Nat] : f = [i \in 0..1 |-> 0]
    OBVIOUS
  <1>9. Places(0, f)
    BY <1>0, <1>1, <1>5, <1>6, <1>8 DEF Init, Places
  <1>10. 0 \in 0..NumBlocks /\ f \in [0..Live(0) -> Nat]
    BY <1>0, <1>5
  <1> QED BY <1>2, <1>3, <1>4, <1>7, <1>9, <1>10 DEF RingInv

-----------------------------------------------------------------------------
(* The kernel.                                                             *)

\* A block the reader has was handed over.
LEMMA FirstHanded ==
    ASSUME Types, NEW n, Handed(n), First.user
    PROVE  n > 0
  <1>1. h.offset \in Block
    BY TypeParts
  <1>2. Pos(h.offset, 0) = h.offset /\ 0 \in 0..(NumBlocks - 1)
    BY <1>1, PosFacts
  <1> QED BY <1>2 DEF Handed, First

\* A packet goes into the kernel's block, or is dropped.
LEMMA ArriveKeeps == ASSUME RingInv, Arrive PROVE RingInv'
  <1>0. Types /\ ReaderAt /\ ReadFirst
    BY DEF RingInv
  <1>1. PICK n \in 0..NumBlocks : Handed(n) /\ \E f \in [0..Live(n) -> Nat] : Places(n, f)
    BY DEF RingInv
  <1>2. PICK f \in [0..Live(n) -> Nat] : Places(n, f)
    BY <1>1
  <1>3. /\ UNCHANGED <<kernel, h, pc, data, read>> /\ arrived' = arrived + 1
        /\ arrived \in 0..MaxPackets /\ MaxPackets \in Nat /\ arrived < MaxPackets
    BY <1>0, RingAssumption DEF Arrive, Types
  <1>4. PICK o \in Block : o = h.offset
    BY <1>0, TypeParts
  <1>5. Live(n)' = Live(n)
    BY <1>3 DEF Live
  <1>6. CASE ~kernel.open /\ UNCHANGED <<blocks, kept>>
    <2>0. Taken' = Taken
      BY <1>3, <1>6 DEF Taken, First
    <2>1. Types'
      BY <1>0, <1>3, <1>6 DEF Types
    <2>2. ReaderAt' /\ ReadFirst'
      BY <1>0, <1>3, <1>6 DEF ReaderAt, ReadFirst, First
    <2>3. Handed(n)' /\ Places(n, f)'
      BY <1>1, <1>2, <1>3, <1>5, <1>6, <2>0 DEF Handed, Places
    <2>4. f \in [0..Live(n)' -> Nat]
      BY <1>5
    <2> QED BY <2>1, <2>2, <2>3, <2>4 DEF RingInv
  <1>7. CASE /\ kernel.open /\ Len(blocks[kernel.cur].pkts) < BlockCap
             /\ blocks' = [blocks EXCEPT ![kernel.cur].pkts = Append(@, arrived + 1)]
             /\ kept' = Append(kept, arrived + 1)
    <2>0. PICK b \in Block : b = kernel.cur
      BY <1>0, TypeParts
    <2>1. PICK p \in Packet : p = arrived + 1
      BY <1>3 DEF Packet
    <2>2. /\ blocks \in [Block -> BlockRec] /\ blocks[b].pkts \in Seq(Packet)
          /\ blocks[b] \in BlockRec
          /\ Len(blocks[b].pkts) \in Nat /\ kept \in Seq(Packet) /\ Len(kept) \in Nat
      BY <1>0, TypeParts DEF Types
    <2>3. PICK q \in Seq(Packet) : q = Append(blocks[b].pkts, p)
      BY <2>2, AppendProperties
    <2>4. /\ Len(q) = Len(blocks[b].pkts) + 1 /\ q[Len(blocks[b].pkts) + 1] = p
          /\ \A j \in 1..Len(blocks[b].pkts) : q[j] = blocks[b].pkts[j]
      BY <2>2, <2>3, AppendProperties
    <2>5. blocks' = [blocks EXCEPT ![b] = [blocks[b] EXCEPT !.pkts = q]]
      BY <1>7, <2>0, <2>1, <2>3
    <2>6. /\ blocks'[b].pkts = q /\ blocks'[b].user = blocks[b].user
          /\ \A d \in Block : d # b => blocks'[d] = blocks[d]
          /\ blocks' \in [Block -> BlockRec]
      BY <2>2, <2>5
    <2>7. /\ kept' \in Seq(Packet) /\ Len(kept') = Len(kept) + 1 /\ kept'[Len(kept) + 1] = p
          /\ \A j \in 1..Len(kept) : kept'[j] = kept[j]
      BY <1>7, <2>1, <2>2, AppendProperties
    <2>8. Types'
      <3>1. \A d \in Block : Len(blocks'[d].pkts) <= BlockCap
        <4>1. BlockCap \in Nat /\ Len(q) <= BlockCap
          BY <1>7, <2>0, <2>2, <2>4, RingAssumption
        <4> QED BY <1>0, <2>6, <4>1 DEF Types
      <3>2. arrived' \in 0..MaxPackets
        BY <1>3
      <3> QED BY <1>0, <1>3, <2>6, <2>7, <3>1, <3>2 DEF Types
    <2>9. n \in 0..(NumBlocks - 1) /\ NumBlocks \in Nat \ {0} /\ b = Pos(o, n) /\ Live(n) = n + 1
      <3>1. n < NumBlocks /\ kernel.cur = Pos(h.offset, n)
        BY <1>1, <1>7 DEF Handed
      <3> QED BY <1>4, <1>7, <2>0, <3>1, RingAssumption DEF Live
    <2>22. Pos(o, 0) = o /\ \A i \in 0..(NumBlocks - 1) : Pos(o, i) \in Block /\ (i # n => Pos(o, i) # b)
      <3>1. \A i, j \in 0..(NumBlocks - 1) : Pos(o, i) = Pos(o, j) => i = j
        BY PosFacts
      <3>2. Pos(o, 0) = o /\ \A i \in 0..(NumBlocks - 1) : Pos(o, i) \in Block
        BY <2>9, PosFacts
      <3> QED BY <2>9, <3>1, <3>2
    <2>10. \A d \in Block : blocks'[d].user = blocks[d].user
      BY <2>6
    <2>11. First.user => First' = First
      <3> SUFFICES ASSUME First.user PROVE First' = First
        OBVIOUS
      <3>1. n > 0
        BY <1>0, <1>1, FirstHanded
      <3>2. o # b
        <4>1. 0 \in 0..(NumBlocks - 1) /\ 0 # n
          BY <2>9, <3>1
        <4> QED BY <2>22, <4>1
      <3> QED BY <1>3, <1>4, <2>6, <3>2 DEF First
    <2>12. First'.user = First.user
      BY <1>3, <1>4, <2>10 DEF First
    <2>23. Taken' = Taken
      BY <1>0, <1>3, <2>11, SameTaken
    <2>13. ReaderAt'
      <3>1. data # NoData => First.user
        BY <1>0 DEF ReaderAt
      <3> QED BY <1>0, <1>3, <2>11, <2>12, <3>1 DEF ReaderAt
    <2>14. ReadFirst'
      <3>1. Len(read) \in Nat
        BY <1>0, TypeParts
      <3>2. Len(read) <= Len(kept) /\ \A i \in 1..Len(read) : read[i] = kept[i]
        BY <1>0 DEF ReadFirst
      <3>3. \A i \in 1..Len(read) : i \in 1..Len(kept) /\ read[i] = kept'[i]
        BY <2>2, <2>7, <3>1, <3>2
      <3>4. Len(read) <= Len(kept')
        BY <2>2, <2>7, <3>1, <3>2
      <3> QED BY <1>3, <3>3, <3>4 DEF ReadFirst
    <2>15. Handed(n)'
      <3>1. \A i \in 0..(NumBlocks - 1) : Pos(o, i) \in Block
        BY <2>9, PosFacts
      <3> QED BY <1>1, <1>3, <1>4, <2>10, <3>1 DEF Handed
    <2>16. PICK g : g = [f EXCEPT ![n + 1] = f[n + 1] + 1]
      OBVIOUS
    <2>17. /\ f \in [0..(n + 1) -> Nat] /\ n \in Nat /\ f[n + 1] = Len(kept)
           /\ f[0] + Taken = Len(read)
           /\ \A i \in 0..(n + 1) : f[i] \in Nat /\ f[i] <= Len(kept)
           /\ \A i \in 0..n :
                /\ f[i + 1] = f[i] + Len(blocks[Pos(o, i)].pkts)
                /\ \A j \in 1..Len(blocks[Pos(o, i)].pkts) : blocks[Pos(o, i)].pkts[j] = kept[f[i] + j]
      <3>1. (n + 1) - 1 = n /\ n \in Nat /\ \A i \in 0..(n + 1) : f[i] \in Nat
        BY <2>9
      <3> QED BY <1>2, <1>4, <2>9, <3>1 DEF Places
    <2>18. /\ g \in [0..(n + 1) -> Nat] /\ g[n + 1] = Len(kept) + 1
           /\ \A i \in 0..n : g[i] = f[i]
      <3>1. n + 1 \in 0..(n + 1) /\ f[n + 1] + 1 \in Nat /\ \A i \in 0..n : i \in 0..(n + 1) /\ i # n + 1
        BY <2>17
      <3>2. g \in [0..(n + 1) -> Nat]
        BY <2>16, <2>17, <3>1
      <3>3. g[n + 1] = f[n + 1] + 1 /\ \A i \in 0..n : g[i] = f[i]
        BY <2>16, <2>17, <3>1
      <3> QED BY <2>17, <3>2, <3>3
    <2>19. ASSUME NEW i \in 0..n
           PROVE  /\ g[i + 1] = g[i] + Len(blocks'[Pos(o, i)].pkts)
                  /\ \A j \in 1..Len(blocks'[Pos(o, i)].pkts) : blocks'[Pos(o, i)].pkts[j] = kept'[g[i] + j]
      <3>1. CASE i = n
        <4>1. f[n + 1] = f[n] + Len(blocks[b].pkts) /\ f[n] \in Nat /\ f[n + 1] = Len(kept)
          <5>1. n \in 0..n /\ n \in 0..(n + 1)
            BY <2>17
          <5> QED BY <2>9, <2>17, <5>1
        <4>a. /\ f[n] \in Nat /\ Len(blocks[b].pkts) \in Nat /\ Len(kept) \in Nat
              /\ f[n] + Len(blocks[b].pkts) <= Len(kept)
          BY <2>2, <4>1
        <4>b. PICK a \in Nat, l \in Nat, k \in Nat :
                  a = f[n] /\ l = Len(blocks[b].pkts) /\ k = Len(kept)
          BY <4>a
        <4>c. a + l = k
          BY <4>1, <4>b
        <4>d. a + (l + 1) = k + 1 /\ k + 1 = a + (l + 1)
          BY <4>c
        <4>2. g[n + 1] = g[n] + Len(q) /\ g[n] = f[n]
          <5>1. n \in 0..n
            BY <2>17
          <5>2. g[n] = f[n] /\ g[n + 1] = k + 1 /\ Len(q) = l + 1
            BY <2>4, <2>18, <4>b, <5>1
          <5> QED BY <4>b, <4>d, <5>2
        <4>3. ASSUME NEW j \in 1..Len(q) PROVE q[j] = kept'[f[n] + j]
          <5>1. CASE j \in 1..Len(blocks[b].pkts)
            <6>1. f[n] + j \in 1..Len(kept)
              BY <4>a, <5>1, PlaceInside
            <6>2. q[j] = kept[f[n] + j]
              <7>1. n \in 0..n
                BY <2>17
              <7>2. \A t \in 1..Len(blocks[b].pkts) : blocks[b].pkts[t] = kept[f[n] + t]
                BY <2>9, <2>17, <7>1
              <7> QED BY <2>4, <5>1, <7>2
            <6> QED BY <2>7, <6>1, <6>2
          <5>2. CASE j = Len(blocks[b].pkts) + 1
            <6>1. f[n] + j = Len(kept) + 1
              BY <4>b, <4>d, <5>2
            <6> QED BY <2>4, <2>7, <5>2, <6>1
          <5> QED BY <2>2, <2>4, <5>1, <5>2
        <4> QED BY <2>6, <2>9, <3>1, <4>2, <4>3
      <3>2. CASE i # n
        <4>1. i \in 0..(NumBlocks - 1) /\ Pos(o, i) # b /\ Pos(o, i) \in Block /\ i + 1 \in 0..n
          <5>1. n \in Nat /\ n < NumBlocks /\ i < n
            BY <2>9, <2>17, <3>2
          <5>2. i \in 0..(NumBlocks - 1) /\ i + 1 \in 0..n
            BY <2>9, <5>1
          <5> QED BY <2>22, <3>2, <5>2
        <4>2. PICK l \in Nat : l = Len(blocks[Pos(o, i)].pkts)
          BY <1>0, <4>1, TypeParts
        <4>3. f[i + 1] = f[i] + l /\ f[i] \in Nat /\ f[i + 1] <= Len(kept)
          BY <2>17, <4>1, <4>2
        <4>a. f[i] \in Nat /\ Len(kept) \in Nat /\ f[i] + l <= Len(kept)
          BY <2>2, <4>3
        <4>4. \A j \in 1..l : f[i] + j \in 1..Len(kept)
          BY <4>a, PlaceInside
        <4>5. blocks'[Pos(o, i)] = blocks[Pos(o, i)] /\ g[i + 1] = f[i + 1] /\ g[i] = f[i]
          BY <2>6, <2>18, <4>1
        <4>6. ASSUME NEW j \in 1..l PROVE blocks[Pos(o, i)].pkts[j] = kept'[f[i] + j]
          <5>1. blocks[Pos(o, i)].pkts[j] = kept[f[i] + j]
            BY <2>17, <4>2
          <5> QED BY <2>7, <4>4, <5>1
        <4> QED BY <4>2, <4>3, <4>5, <4>6
      <3> QED BY <3>1, <3>2
    <2>20. Places(n, g)'
      <3>1. \A i \in 0..(n + 1) : g[i] <= Len(kept')
        <4> SUFFICES ASSUME NEW i \in 0..(n + 1) PROVE g[i] <= Len(kept) + 1
          BY <2>7
        <4>1. i \in 0..n \/ i = n + 1
          BY <2>17
        <4>2. i \in 0..n => g[i] = f[i] /\ f[i] \in Nat /\ f[i] <= Len(kept)
          BY <2>17, <2>18
        <4> QED BY <2>2, <2>18, <4>1, <4>2
      <3>2. Live(n)' = n + 1 /\ (n + 1) - 1 = n /\ h'.offset = o /\ 0 \in 0..n
        BY <1>3, <1>4, <1>5, <2>9, <2>17
      <3> QED BY <1>3, <1>5, <2>7, <2>17, <2>18, <2>19, <2>23, <3>1, <3>2 DEF Places
    <2>21. g \in [0..Live(n)' -> Nat]
      BY <1>5, <2>9, <2>18
    <2> QED BY <2>8, <2>13, <2>14, <2>15, <2>20, <2>21 DEF RingInv
  <1> QED BY <1>6, <1>7 DEF Arrive

\* The places stand while the packets in the blocks do.
LEMMA SamePlaces ==
    ASSUME NEW n, NEW k, NEW f, Places(n, f), NEW m \in Nat, Live(n) = m, Live(k)' = m,
           NEW o, h.offset = o, h'.offset = o, kept' = kept, f[0] + Taken' = Len(read'),
           \A i \in 0..(m - 1) : blocks'[Pos(o, i)].pkts = blocks[Pos(o, i)].pkts
    PROVE  Places(k, f)'
  <1>1. /\ f \in [0..m -> Nat] /\ f[m] = Len(kept') /\ \A i \in 0..m : f[i] <= Len(kept')
        /\ \A i \in 0..(m - 1) :
            /\ f[i + 1] = f[i] + Len(blocks[Pos(o, i)].pkts)
            /\ \A j \in 1..Len(blocks[Pos(o, i)].pkts) : blocks[Pos(o, i)].pkts[j] = kept'[f[i] + j]
    BY DEF Places
  <1>2. ASSUME NEW i \in 0..(m - 1)
        PROVE  /\ f[i + 1] = f[i] + Len(blocks'[Pos(o, i)].pkts)
               /\ \A j \in 1..Len(blocks'[Pos(o, i)].pkts) : blocks'[Pos(o, i)].pkts[j] = kept'[f[i] + j]
    <2>1. PICK q : q = blocks[Pos(o, i)].pkts
      OBVIOUS
    <2>2. blocks'[Pos(o, i)].pkts = q
      BY <2>1
    <2>3. f[i + 1] = f[i] + Len(q) /\ \A j \in 1..Len(q) : q[j] = kept'[f[i] + j]
      BY <1>1, <2>1
    <2> QED BY <2>2, <2>3
  <1> QED BY <1>1, <1>2 DEF Places

\* An empty block is added at the end.
LEMMA Opened ==
    ASSUME Types, NEW n \in Nat, NEW m \in Nat, NEW f \in [0..m -> Nat], Places(n, f), Live(n) = m,
           NEW k \in Nat, Live(k)' = m + 1, UNCHANGED <<h, kept, read>>, Taken' = Taken,
           blocks'[Pos(h.offset, m)].pkts = <<>>,
           \A i \in 0..(m - 1) : blocks'[Pos(h.offset, i)].pkts = blocks[Pos(h.offset, i)].pkts
    PROVE  \E g \in [0..Live(k)' -> Nat] : Places(k, g)'
  <1>0. Len(kept) \in Nat /\ Len(<<>>) = 0
    BY TypeParts
  <1>1. PICK g : g = [i \in 0..(m + 1) |-> IF i = m + 1 THEN Len(kept) ELSE f[i]]
    OBVIOUS
  <1>2. /\ g \in [0..(m + 1) -> Nat] /\ g[m + 1] = Len(kept) /\ \A i \in 0..m : g[i] = f[i]
    <2>1. \A i \in 0..(m + 1) : i # m + 1 => i \in 0..m
      OBVIOUS
    <2>2. g \in [0..(m + 1) -> Nat]
      BY <1>0, <1>1, <2>1
    <2>3. \A i \in 0..m : i \in 0..(m + 1) /\ i # m + 1
      OBVIOUS
    <2> QED BY <1>1, <2>2, <2>3
  <1>3. /\ f[0] + Taken = Len(read) /\ f[m] = Len(kept) /\ \A i \in 0..m : f[i] <= Len(kept)
        /\ \A i \in 0..(m - 1) :
            /\ f[i + 1] = f[i] + Len(blocks[Pos(h.offset, i)].pkts)
            /\ \A j \in 1..Len(blocks[Pos(h.offset, i)].pkts) :
                blocks[Pos(h.offset, i)].pkts[j] = kept[f[i] + j]
    BY DEF Places
  <1>5. ASSUME NEW i \in 0..m
        PROVE  /\ g[i + 1] = g[i] + Len(blocks'[Pos(h.offset, i)].pkts)
               /\ \A j \in 1..Len(blocks'[Pos(h.offset, i)].pkts) :
                    blocks'[Pos(h.offset, i)].pkts[j] = kept[g[i] + j]
    <2>1. CASE i = m
      <3>1. Len(blocks'[Pos(h.offset, i)].pkts) = 0
        BY <1>0, <2>1
      <3>2. g[m + 1] = Len(kept) /\ g[m] = Len(kept) /\ Len(kept) \in Nat
        <4>1. m \in 0..m
          OBVIOUS
        <4> QED BY <1>0, <1>2, <1>3, <4>1
      <3>3. g[i + 1] = g[i] + 0
        BY <2>1, <3>2
      <3>4. 1..0 = {}
        OBVIOUS
      <3> QED BY <3>1, <3>3, <3>4
    <2>2. CASE i # m
      <3>1. i \in 0..(m - 1) /\ i + 1 \in 0..m
        BY <2>2
      <3>2. g[i] = f[i] /\ g[i + 1] = f[i + 1]
        BY <1>2, <3>1
      <3>3. PICK q : q = blocks[Pos(h.offset, i)].pkts
        OBVIOUS
      <3>4. blocks'[Pos(h.offset, i)].pkts = q
        BY <3>1, <3>3
      <3>5. f[i + 1] = f[i] + Len(q) /\ \A j \in 1..Len(q) : q[j] = kept[f[i] + j]
        BY <1>3, <3>1, <3>3
      <3> QED BY <3>2, <3>4, <3>5
    <2> QED BY <2>1, <2>2
  <1>6. \A i \in 0..(m + 1) : g[i] <= Len(kept)
    <2>1. \A i \in 0..(m + 1) : i = m + 1 \/ i \in 0..m
      OBVIOUS
    <2>2. \A i \in 0..m : g[i] <= Len(kept)
      BY <1>2, <1>3
    <2>3. g[m + 1] <= Len(kept)
      BY <1>0, <1>2
    <2> QED BY <2>1, <2>2, <2>3
  <1>7. Places(k, g)'
    <2>1. (m + 1) - 1 = m /\ h'.offset = h.offset /\ 0 \in 0..m
      OBVIOUS
    <2> QED BY <1>2, <1>3, <1>5, <1>6, <2>1 DEF Places
  <1> QED BY <1>2, <1>7

\* The kernel hands its block over.
LEMMA RetireKeeps == ASSUME RingInv, Retire PROVE RingInv'
  <1>0. Types /\ ReaderAt /\ ReadFirst
    BY DEF RingInv
  <1>1. PICK n \in 0..NumBlocks : Handed(n) /\ \E f \in [0..Live(n) -> Nat] : Places(n, f)
    BY DEF RingInv
  <1>2. PICK f \in [0..Live(n) -> Nat] : Places(n, f)
    BY <1>1
  <1>3. UNCHANGED <<arrived, kept, h, pc, data, read>> /\ kernel.open
    BY DEF Retire
  <1>4. PICK o \in Block, b \in Block : o = h.offset /\ b = kernel.cur
    BY <1>0, TypeParts
  <1>5. /\ n \in 0..(NumBlocks - 1) /\ NumBlocks \in Nat \ {0} /\ b = Pos(o, n) /\ Live(n) = n + 1
        /\ n \in Nat
    <2>1. n < NumBlocks /\ kernel.cur = Pos(h.offset, n)
      BY <1>1, <1>3 DEF Handed
    <2> QED BY <1>3, <1>4, <2>1, RingAssumption DEF Live
  <1>6. PICK next \in Block : next = Pos(o, n + 1) /\ next = (b + 1) % NumBlocks
    <2>1. n + 1 \in 0..NumBlocks
      BY <1>5
    <2> QED BY <1>5, <2>1, PosFacts
  <1>7. PICK handed : handed = [blocks EXCEPT ![b].user = TRUE]
    OBVIOUS
  <1>8. /\ blocks \in [Block -> BlockRec]
        /\ blocks[b] \in BlockRec
    BY <1>0 DEF Types
  <1>9. /\ handed \in [Block -> BlockRec]
        /\ handed[b].user /\ handed[b].pkts = blocks[b].pkts
        /\ \A d \in Block : d # b => handed[d] = blocks[d]
    BY <1>7, <1>8
  <1>10. /\ kernel' = [kernel EXCEPT !.cur = next, !.open = ~handed[next].user]
         /\ kernel \in KernelRec /\ kernel' \in KernelRec
         /\ blocks' = IF handed[next].user THEN handed ELSE [handed EXCEPT ![next] = Emptied(@)]
    <2>1. /\ kernel' = [kernel EXCEPT !.cur = next, !.open = ~handed[next].user]
          /\ blocks' = IF handed[next].user THEN handed ELSE [handed EXCEPT ![next] = Emptied(@)]
      BY <1>4, <1>6, <1>7 DEF Retire
    <2>2. kernel \in KernelRec
      BY <1>0 DEF Types
    <2> QED BY <2>1, <2>2
  <1>11. /\ Pos(o, 0) = o /\ Pos(o, NumBlocks) = o
         /\ \A i, j \in 0..(NumBlocks - 1) : Pos(o, i) = Pos(o, j) => i = j
         /\ \A i \in 0..(NumBlocks - 1) : Pos(o, i) \in Block
    <2>1. \A i \in 0..NumBlocks : Pos(o, i) \in Block
      BY PosFacts
    <2>2. \A i, j \in 0..(NumBlocks - 1) : Pos(o, i) = Pos(o, j) => i = j
      BY PosFacts
    <2>3. Pos(o, 0) = o /\ Pos(o, NumBlocks) = o
      BY PosFacts
    <2>4. \A i \in 0..(NumBlocks - 1) : i \in 0..NumBlocks
      BY <1>5
    <2> QED BY <2>1, <2>2, <2>3, <2>4
  <1>12. \A i \in 0..(NumBlocks - 1) : blocks[Pos(o, i)].user <=> i < n
    BY <1>1, <1>4 DEF Handed
  <1>13. \A i \in 0..(NumBlocks - 1) : handed[Pos(o, i)].user <=> i < n + 1
    <2> SUFFICES ASSUME NEW i \in 0..(NumBlocks - 1) PROVE handed[Pos(o, i)].user <=> i < n + 1
      OBVIOUS
    <2>1. CASE i = n
      BY <1>5, <1>9, <2>1
    <2>2. CASE i # n
      <3>1. Pos(o, i) # b
        BY <1>5, <1>11, <2>2
      <3>2. handed[Pos(o, i)] = blocks[Pos(o, i)]
        BY <1>9, <1>11, <3>1
      <3> QED BY <1>5, <1>12, <2>2, <3>2
    <2> QED BY <2>1, <2>2
  <1>14. h'.offset = o /\ ReadFirst'
    BY <1>0, <1>3, <1>4 DEF ReadFirst
  <1>15. \A d \in Block : handed[d].pkts = blocks[d].pkts
    BY <1>9
  <1>16. First.user => n > 0 /\ o # b
    <2>1. First.user => n > 0
      BY <1>0, <1>1, FirstHanded
    <2>2. n > 0 => o # b
      BY <1>5, <1>11
    <2> QED BY <2>1, <2>2
  <1>17. ASSUME First.user => blocks'[o] = blocks[o] PROVE ReaderAt' /\ Taken' = Taken
    <2>1. First.user => First' = First
      BY <1>4, <1>14, <1>17 DEF First
    <2>2. data # NoData => First.user
      BY <1>0 DEF ReaderAt
    <2>3. Taken' = Taken
      BY <1>0, <1>3, <2>1, SameTaken
    <2> QED BY <1>0, <1>3, <2>1, <2>2, <2>3 DEF ReaderAt
  <1>18. CASE n + 1 < NumBlocks
    <2>1. n + 1 \in 0..(NumBlocks - 1) /\ ~handed[next].user /\ next # o /\ next # b
      <3>1. n + 1 \in 0..(NumBlocks - 1) /\ n + 1 # 0 /\ n + 1 # n /\ 0 \in 0..(NumBlocks - 1)
        BY <1>5, <1>18
      <3> QED BY <1>5, <1>6, <1>11, <1>13, <3>1
    <2>2. kernel'.open /\ kernel'.cur = next /\ blocks' = [handed EXCEPT ![next] = Emptied(@)]
          /\ kernel' \in KernelRec
      BY <1>10, <2>1
    <2>3. /\ blocks' \in [Block -> BlockRec]
          /\ blocks'[next].pkts = <<>> /\ blocks'[next].user = handed[next].user
          /\ \A d \in Block : d # next => blocks'[d] = handed[d]
      <3>1. PICK e : e = Emptied(handed[next])
        OBVIOUS
      <3>2. blocks' = [handed EXCEPT ![next] = e]
        BY <2>2, <3>1
      <3>3. e \in BlockRec /\ e.pkts = <<>> /\ e.user = handed[next].user
        BY <1>9, <3>1, EmptiedBlock
      <3> QED BY <1>9, <3>2, <3>3
    <2>4. Types'
      <3>1. \A d \in Block : Len(blocks'[d].pkts) <= BlockCap
        <4>1. BlockCap \in Nat /\ Len(<<>>) = 0
          BY RingAssumption
        <4>2. blocks'[next].pkts = <<>> /\ \A d \in Block : d # next => blocks'[d].pkts = blocks[d].pkts
          BY <1>15, <2>3
        <4>3. \A d \in Block : Len(blocks[d].pkts) <= BlockCap
          BY <1>0 DEF Types
        <4> QED BY <4>1, <4>2, <4>3
      <3> QED BY <1>0, <1>3, <2>2, <2>3, <3>1 DEF Types
    <2>5. First.user => blocks'[o] = blocks[o]
      BY <1>9, <1>16, <2>1, <2>3
    <2>6. Handed(n + 1)'
      <3>1. \A d \in Block : blocks'[d].user = handed[d].user
        BY <2>3
      <3>2. n + 1 \in 0..NumBlocks
        BY <1>5
      <3> QED BY <1>6, <1>11, <1>13, <1>14, <1>18, <2>2, <3>1, <3>2 DEF Handed
    <2>7. \E g \in [0..Live(n + 1)' -> Nat] : Places(n + 1, g)'
      <3>1. \A i \in 0..((n + 1) - 1) : blocks'[Pos(h.offset, i)].pkts = blocks[Pos(h.offset, i)].pkts
        <4> SUFFICES ASSUME NEW i \in 0..n PROVE blocks'[Pos(o, i)].pkts = blocks[Pos(o, i)].pkts
          BY <1>4, <1>5
        <4>1. i \in 0..(NumBlocks - 1) /\ i # n + 1
          BY <1>5
        <4>2. Pos(o, i) # next /\ Pos(o, i) \in Block
          BY <1>6, <1>11, <2>1, <4>1
        <4> QED BY <1>15, <2>3, <4>2
      <3>2. Live(n + 1)' = (n + 1) + 1 /\ n + 1 \in Nat
        BY <1>5, <2>2 DEF Live
      <3>3. blocks'[Pos(h.offset, n + 1)].pkts = <<>>
        BY <1>4, <1>6, <2>3
      <3>4. f \in [0..(n + 1) -> Nat]
        BY <1>5
      <3> QED BY <1>0, <1>2, <1>3, <1>5, <1>17, <2>5, <3>1, <3>2, <3>3, <3>4, Opened
    <2>8. n + 1 \in 0..NumBlocks
      BY <1>5
    <2> QED BY <1>14, <1>17, <2>4, <2>5, <2>6, <2>7, <2>8 DEF RingInv
  <1>19. CASE n + 1 = NumBlocks
    <2>1. handed[next].user /\ next = o
      <3>1. next = o /\ 0 \in 0..(NumBlocks - 1) /\ 0 < n + 1
        BY <1>5, <1>6, <1>11, <1>19
      <3> QED BY <1>11, <1>13, <3>1
    <2>2. ~kernel'.open /\ kernel'.cur = o /\ blocks' = handed /\ kernel' \in KernelRec
      BY <1>10, <2>1
    <2>3. Types'
      BY <1>0, <1>3, <1>9, <1>15, <2>2 DEF Types
    <2>4. First.user => blocks'[o] = blocks[o]
      BY <1>9, <1>16, <2>2
    <2>5. Handed(n + 1)'
      <3>1. n + 1 \in 0..NumBlocks
        BY <1>5
      <3> QED BY <1>11, <1>13, <1>14, <1>19, <2>2, <3>1 DEF Handed
    <2>6. Live(n + 1)' = Live(n)
      BY <1>5, <2>2 DEF Live
    <2>7. Places(n + 1, f)'
      <3>1. \A i \in 0..(Live(n) - 1) : blocks'[Pos(o, i)].pkts = blocks[Pos(o, i)].pkts
        <4>1. \A i \in 0..(Live(n) - 1) : i \in 0..(NumBlocks - 1)
          BY <1>5
        <4> QED BY <1>11, <1>15, <2>2, <4>1
      <3>2. Live(n) = n + 1 /\ Live(n + 1)' = n + 1 /\ n + 1 \in Nat
        BY <1>5, <2>6
      <3>3. f[0] + Taken' = Len(read')
        BY <1>2, <1>3, <1>17, <2>4 DEF Places
      <3> QED BY <1>2, <1>3, <1>4, <1>5, <1>14, <3>1, <3>2, <3>3, SamePlaces
    <2>8. n + 1 \in 0..NumBlocks /\ f \in [0..Live(n + 1)' -> Nat]
      BY <1>5, <2>6
    <2> QED BY <1>14, <1>17, <2>3, <2>4, <2>5, <2>7, <2>8 DEF RingInv
  <1> QED BY <1>5, <1>18, <1>19

\* The kernel opens the block it waited for.
LEMMA ThawKeeps == ASSUME RingInv, Thaw PROVE RingInv'
  <1>0. Types /\ ReaderAt /\ ReadFirst
    BY DEF RingInv
  <1>1. PICK n \in 0..NumBlocks : Handed(n) /\ \E f \in [0..Live(n) -> Nat] : Places(n, f)
    BY DEF RingInv
  <1>2. PICK f \in [0..Live(n) -> Nat] : Places(n, f)
    BY <1>1
  <1>3. /\ UNCHANGED <<arrived, kept, h, pc, data, read>> /\ ~kernel.open /\ ~blocks[kernel.cur].user
        /\ kernel' = [kernel EXCEPT !.open = TRUE]
        /\ blocks' = [blocks EXCEPT ![kernel.cur] = Emptied(@)]
    BY DEF Thaw
  <1>4. PICK o \in Block, b \in Block : o = h.offset /\ b = kernel.cur
    BY <1>0, TypeParts
  <1>5. /\ Pos(o, 0) = o /\ Pos(o, NumBlocks) = o
        /\ \A i, j \in 0..(NumBlocks - 1) : Pos(o, i) = Pos(o, j) => i = j
        /\ \A i \in 0..NumBlocks : Pos(o, i) \in Block
        /\ NumBlocks \in Nat \ {0}
    <2>1. \A i \in 0..NumBlocks : Pos(o, i) \in Block
      BY PosFacts
    <2>2. \A i, j \in 0..(NumBlocks - 1) : Pos(o, i) = Pos(o, j) => i = j
      BY PosFacts
    <2>3. Pos(o, 0) = o /\ Pos(o, NumBlocks) = o /\ NumBlocks \in Nat \ {0}
      BY PosFacts
    <2> QED BY <2>1, <2>2, <2>3
  <1>6. b = Pos(o, n) /\ Live(n) = n /\ \A i \in 0..(NumBlocks - 1) : blocks[Pos(o, i)].user <=> i < n
    BY <1>1, <1>3, <1>4 DEF Handed, Live
  <1>7. n \in 0..(NumBlocks - 1) /\ n \in Nat
    <2>1. 0 \in 0..(NumBlocks - 1) /\ (n = NumBlocks => 0 < n)
      BY <1>5
    <2>2. n = NumBlocks => blocks[b].user
      BY <1>5, <1>6, <2>1
    <2> QED BY <1>3, <1>4, <1>5, <2>2
  <1>8. \A i \in 0..(NumBlocks - 1) : Pos(o, i) \in Block /\ (i # n => Pos(o, i) # b)
    BY <1>5, <1>6, <1>7
  <1>9. /\ blocks' \in [Block -> BlockRec]
        /\ blocks'[b].pkts = <<>> /\ blocks'[b].user = blocks[b].user
        /\ \A d \in Block : d # b => blocks'[d] = blocks[d]
    <2>1. blocks \in [Block -> BlockRec]
      BY <1>0 DEF Types
    <2>2. PICK e : e = Emptied(blocks[b])
      OBVIOUS
    <2>3. blocks' = [blocks EXCEPT ![b] = e]
      BY <1>3, <1>4, <2>2
    <2>4. e \in BlockRec /\ e.pkts = <<>> /\ e.user = blocks[b].user
      BY <2>1, <2>2, EmptiedBlock
    <2> QED BY <2>1, <2>3, <2>4
  <1>10. kernel' \in KernelRec /\ kernel'.cur = b /\ kernel'.open
    <2>1. kernel \in KernelRec
      BY <1>0 DEF Types
    <2> QED BY <1>3, <1>4, <2>1
  <1>11. Types'
    <2>1. \A d \in Block : Len(blocks'[d].pkts) <= BlockCap
      <3>1. BlockCap \in Nat /\ Len(<<>>) = 0
        BY RingAssumption
      <3>2. \A d \in Block : Len(blocks[d].pkts) <= BlockCap
        BY <1>0 DEF Types
      <3>3. \A d \in Block : d # b => blocks'[d].pkts = blocks[d].pkts
        BY <1>9
      <3>4. Len(blocks'[b].pkts) <= BlockCap
        BY <1>9, <3>1
      <3>5. ASSUME NEW d \in Block, d # b PROVE Len(blocks'[d].pkts) <= BlockCap
        BY <3>2, <3>3, <3>5
      <3> QED BY <3>4, <3>5
    <2> QED BY <1>0, <1>3, <1>9, <1>10, <2>1 DEF Types
  <1>12. ReadFirst' /\ h'.offset = o
    BY <1>0, <1>3, <1>4 DEF ReadFirst
  <1>13. ReaderAt' /\ Taken' = Taken
    <2>1. First.user => First' = First
      <3>1. First.user => o # b
        BY <1>3, <1>4 DEF First
      <3> QED BY <1>4, <1>9, <1>12, <3>1 DEF First
    <2>2. data # NoData => First.user
      BY <1>0 DEF ReaderAt
    <2>3. Taken' = Taken
      BY <1>0, <1>3, <2>1, SameTaken
    <2> QED BY <1>0, <1>3, <2>1, <2>2, <2>3 DEF ReaderAt
  <1>14. Handed(n)'
    <2>1. \A d \in Block : blocks'[d].user = blocks[d].user
      BY <1>9
    <2>2. \A i \in 0..(NumBlocks - 1) : blocks'[Pos(o, i)].user <=> i < n
      BY <1>6, <1>8, <2>1
    <2>3. n < NumBlocks
      BY <1>5, <1>7
    <2> QED BY <1>6, <1>10, <1>12, <2>2, <2>3 DEF Handed
  <1>15. \E g \in [0..Live(n)' -> Nat] : Places(n, g)'
    <2>1. \A i \in 0..(n - 1) : blocks'[Pos(h.offset, i)].pkts = blocks[Pos(h.offset, i)].pkts
      <3> SUFFICES ASSUME NEW i \in 0..(n - 1) PROVE blocks'[Pos(o, i)].pkts = blocks[Pos(o, i)].pkts
        BY <1>4
      <3>1. i \in 0..(NumBlocks - 1) /\ i # n
        BY <1>5, <1>7
      <3> QED BY <1>8, <1>9, <3>1
    <2>2. Live(n)' = n + 1 /\ f \in [0..n -> Nat]
      BY <1>6, <1>10 DEF Live
    <2>3. blocks'[Pos(h.offset, n)].pkts = <<>>
      BY <1>4, <1>6, <1>9
    <2> QED BY <1>0, <1>2, <1>3, <1>6, <1>7, <1>13, <2>1, <2>2, <2>3, Opened
  <1> QED BY <1>11, <1>12, <1>13, <1>14, <1>15 DEF RingInv

-----------------------------------------------------------------------------
(* The reader.                                                             *)

\* What the cursor of a TPacket ranges over.
Handles == [offset : Block, current : Block \cup {NoBlock}, used : 0..(BlockCap - 1),
            shouldReleasePacket : BOOLEAN, headerNextNeeded : BOOLEAN]

\* The packet after those taken from the first block is the one after those read.
LEMMA NextOfFirst ==
    ASSUME Types, ReadFirst, NEW n \in 0..NumBlocks, Handed(n), NEW f, Places(n, f), First.user
    PROVE  /\ Live(n) \in Nat \ {0} /\ n \in Nat \ {0} /\ f[0] \in Nat /\ f[1] \in Nat
           /\ f[1] = f[0] + Len(First.pkts) /\ f[1] <= Len(kept)
           /\ \A j \in 1..Len(First.pkts) : First.pkts[j] = kept[f[0] + j]
  <1>1. n > 0 /\ NumBlocks \in Nat
    BY FirstHanded, RingAssumption
  <1>2. Live(n) \in Nat \ {0} /\ n \in Nat \ {0}
    BY <1>1 DEF Live
  <1>3. 0 \in 0..(Live(n) - 1) /\ 1 \in 0..Live(n) /\ 0 \in 0..Live(n) /\ 0 + 1 = 1
    BY <1>2
  <1>4. Pos(h.offset, 0) = h.offset
    BY TypeParts, PosFacts
  <1>5. f[0] \in Nat /\ f[1] \in Nat /\ f[1] <= Len(kept)
    BY <1>3 DEF Places
  <1>6. /\ f[0 + 1] = f[0] + Len(blocks[Pos(h.offset, 0)].pkts)
        /\ \A j \in 1..Len(blocks[Pos(h.offset, 0)].pkts) :
            blocks[Pos(h.offset, 0)].pkts[j] = kept[f[0] + j]
    BY <1>3 DEF Places
  <1> QED BY <1>2, <1>3, <1>4, <1>5, <1>6 DEF First

\* A call returns the next packet of the first block.
LEMMA ReturnKeeps ==
    ASSUME RingInv, NEW t \in Handles, t.offset = h.offset, t.current = h.offset, t.used = Taken,
           t.shouldReleasePacket, First.user, Taken < Len(First.pkts),
           Return(t), UNCHANGED blocks, UNCHANGED kernelVars
    PROVE  RingInv'
  <1>0. Types /\ ReaderAt /\ ReadFirst
    BY DEF RingInv
  <1>1. PICK n \in 0..NumBlocks : Handed(n) /\ \E f \in [0..Live(n) -> Nat] : Places(n, f)
    BY DEF RingInv
  <1>2. PICK f \in [0..Live(n) -> Nat] : Places(n, f)
    BY <1>1
  <1>3. UNCHANGED <<kernel, arrived, kept>>
    BY DEF kernelVars
  <1>4. PICK o \in Block, u \in 0..(BlockCap - 1) : o = h.offset /\ u = Taken
    BY <1>0, TypeParts DEF Handles
  <1>5. h' \in Handles /\ h'.offset = o /\ h'.current = o /\ h'.used = u /\ h'.shouldReleasePacket
        /\ h'.headerNextNeeded
    <2>1. h' = [t EXCEPT !.headerNextNeeded = TRUE]
      BY DEF Return
    <2> QED BY <1>4, <2>1 DEF Handles
  <1>6. First' = First /\ pc' = "idle" /\ u \in Nat /\ BlockCap \in Nat
    BY <1>4, <1>5, RingAssumption DEF First, Return
  <1>a. First \in BlockRec /\ First.pkts # <<>> /\ Headers(First) = First.pkts
    <2>1. First \in BlockRec
      BY <1>0, TypeParts DEF First
    <2>2. First.pkts # <<>>
      BY <1>4, <1>6, <2>1, HeadersFacts
    <2> QED BY <2>1, <2>2, HeadersFacts
  <1>7. Taken' = u + 1
    BY <1>5, <1>6, <1>a DEF Taken
  <1>8. PICK p : p = First.pkts[u + 1]
    OBVIOUS
  <1>9. read' = Append(read, p) /\ data' = [block |-> o, at |-> u + 1, packet |-> p]
    BY <1>4, <1>8, <1>a DEF Return, First
  <1>10. First.pkts \in Seq(Packet) /\ Len(First.pkts) \in Nat /\ u + 1 \in 1..Len(First.pkts)
         /\ read \in Seq(Packet) /\ Len(read) \in Nat /\ Len(kept) \in Nat
    <2>1. First.pkts \in Seq(Packet) /\ Len(First.pkts) \in Nat
      BY <1>0, TypeParts DEF First
    <2> QED BY <1>0, <1>4, <1>6, <2>1, TypeParts
  <1>11. p \in Packet
    BY <1>8, <1>10, ElementOfSeq
  <1>12. /\ read' \in Seq(Packet) /\ Len(read') = Len(read) + 1 /\ read'[Len(read) + 1] = p
         /\ \A i \in 1..Len(read) : read'[i] = read[i]
    BY <1>9, <1>10, <1>11, AppendProperties
  <1>13. /\ Live(n) \in Nat \ {0} /\ f[0] \in Nat /\ f[1] \in Nat /\ f[1] = f[0] + Len(First.pkts)
         /\ f[1] <= Len(kept) /\ \A j \in 1..Len(First.pkts) : First.pkts[j] = kept[f[0] + j]
    BY <1>0, <1>1, <1>2, NextOfFirst
  <1>14. f[0] + u = Len(read)
    BY <1>2, <1>4 DEF Places
  <1>15. p = kept[Len(read) + 1] /\ Len(read) + 1 <= Len(kept)
    <2>1. p = kept[f[0] + (u + 1)] /\ f[0] + (u + 1) = Len(read) + 1
      BY <1>6, <1>8, <1>10, <1>13, <1>14
    <2>2. f[0] + (u + 1) \in 1..Len(kept)
      BY <1>10, <1>13, PlaceInside
    <2> QED BY <1>10, <2>1, <2>2
  <1>16. ReadFirst'
    <2>1. \A i \in 1..Len(read) : read'[i] = kept[i]
      BY <1>0, <1>12 DEF ReadFirst
    <2>2. \A i \in 1..(Len(read) + 1) : i \in 1..Len(read) \/ i = Len(read) + 1
      BY <1>10
    <2> QED BY <1>3, <1>12, <1>15, <2>1, <2>2 DEF ReadFirst
  <1>17. Types'
    BY <1>0, <1>3, <1>5, <1>6, <1>12 DEF Types, Handles
  <1>18. ReaderAt'
    <2>1. h'.used < Len(Headers(First')) /\ First'.user
          /\ data'.packet = Headers(First')[h'.used + 1]
          /\ data'.block = h'.offset /\ data'.at = h'.used + 1
      BY <1>4, <1>5, <1>6, <1>8, <1>9, <1>a
    <2> QED BY <1>5, <1>6, <2>1 DEF ReaderAt
  <1>19. Handed(n)' /\ Live(n)' = Live(n)
    BY <1>1, <1>3, <1>4, <1>5 DEF Handed, Live
  <1>20. Places(n, f)'
    <2>1. f[0] + Taken' = Len(read')
      <3>1. PICK x \in Nat : x = f[0]
        BY <1>13
      <3>2. x + (u + 1) = Len(read) + 1
        <4>1. x + u = Len(read)
          BY <1>14, <3>1
        <4>2. u \in Nat
          BY <1>6
        <4> QED BY <4>1, <4>2
      <3> QED BY <1>7, <1>12, <3>1, <3>2
    <2>2. Live(n)' = Live(n) /\ Live(n) \in Nat
      BY <1>13, <1>19
    <2> QED BY <1>2, <1>3, <1>4, <1>5, <2>1, <2>2, SamePlaces
  <1>21. f \in [0..Live(n)' -> Nat]
    BY <1>19
  <1> QED BY <1>16, <1>17, <1>18, <1>19, <1>20, <1>21 DEF RingInv

\* The places when the first block is gone.
LEMMA Shifted ==
    ASSUME NEW n, NEW k, NEW f, Places(n, f), NEW m \in Nat, m > 0, Live(n) = m, Live(k)' = m - 1,
           NEW o, h.offset = o, NEW r, h'.offset = r, kept' = kept, f[1] + Taken' = Len(read'),
           \A i \in 0..(m - 2) : blocks'[Pos(r, i)].pkts = blocks[Pos(o, i + 1)].pkts
    PROVE  \E g \in [0..Live(k)' -> Nat] : Places(k, g)'
  <1>1. /\ f \in [0..m -> Nat] /\ f[m] = Len(kept') /\ \A i \in 0..m : f[i] <= Len(kept')
        /\ \A i \in 0..(m - 1) :
            /\ f[i + 1] = f[i] + Len(blocks[Pos(o, i)].pkts)
            /\ \A j \in 1..Len(blocks[Pos(o, i)].pkts) : blocks[Pos(o, i)].pkts[j] = kept'[f[i] + j]
    BY DEF Places
  <1>2. PICK g : g = [i \in 0..(m - 1) |-> f[i + 1]]
    OBVIOUS
  <1>3. g \in [0..(m - 1) -> Nat] /\ \A i \in 0..(m - 1) : i + 1 \in 0..m /\ g[i] = f[i + 1]
    <2>1. \A i \in 0..(m - 1) : i + 1 \in 0..m
      OBVIOUS
    <2> QED BY <1>1, <1>2, <2>1
  <1>4. g[m - 1] = Len(kept') /\ g[0] = f[1] /\ \A i \in 0..(m - 1) : g[i] <= Len(kept')
    <2>1. m - 1 \in 0..(m - 1) /\ (m - 1) + 1 = m /\ 0 \in 0..(m - 1) /\ 0 + 1 = 1
      OBVIOUS
    <2> QED BY <1>1, <1>3, <2>1
  <1>5. ASSUME NEW i \in 0..((m - 1) - 1)
        PROVE  /\ g[i + 1] = g[i] + Len(blocks'[Pos(r, i)].pkts)
               /\ \A j \in 1..Len(blocks'[Pos(r, i)].pkts) : blocks'[Pos(r, i)].pkts[j] = kept'[g[i] + j]
    <2>1. i \in 0..(m - 2) /\ i \in 0..(m - 1) /\ i + 1 \in 0..(m - 1)
      OBVIOUS
    <2>2. PICK q : q = blocks[Pos(o, i + 1)].pkts
      OBVIOUS
    <2>3. blocks'[Pos(r, i)].pkts = q
      BY <2>1, <2>2
    <2>4. f[(i + 1) + 1] = f[i + 1] + Len(q) /\ \A j \in 1..Len(q) : q[j] = kept'[f[i + 1] + j]
      BY <1>1, <2>1, <2>2
    <2>5. g[i] = f[i + 1] /\ g[i + 1] = f[(i + 1) + 1]
      BY <1>3, <2>1
    <2> QED BY <2>3, <2>4, <2>5
  <1>6. Places(k, g)'
    BY <1>3, <1>4, <1>5 DEF Places
  <1> QED BY <1>3, <1>6

\* A block is released when all its packets were taken.
LEMMA AllTaken ==
    ASSUME RingInv, pc \in {"idle", "retry"}, ~HasNext, h.shouldReleasePacket
    PROVE  /\ h.current = h.offset /\ First.user
           /\ Taken = Len(First.pkts)
           /\ \A j \in 1..Len(First.pkts) : Was(First.pkts[j])
  <1>0. Types /\ ReaderAt /\ ReadFirst
    BY DEF RingInv
  <1>1. h.current = h.offset /\ First.user
    BY <1>0 DEF ReaderAt
  <1>2. First \in BlockRec /\ h.used \in Nat
    BY <1>0, TypeParts DEF First
  <1>3. Taken = Len(First.pkts)
    <2>1. CASE First.pkts = <<>>
      BY <2>1 DEF Taken
    <2>2. CASE First.pkts # <<>>
      <3>1. pc = "idle" /\ h.headerNextNeeded /\ h.used < Len(First.pkts)
        BY <1>0, <1>2, <2>2, HeadersFacts DEF ReaderAt
      <3>2. ~(h.used + 1 < Len(First.pkts))
        BY <1>1, <3>1 DEF HasNext, First
      <3>3. Taken = h.used + 1 /\ Len(First.pkts) \in Nat
        BY <1>2, <2>2, <3>1, HeadersFacts DEF Taken
      <3> QED BY <1>2, <3>1, <3>2, <3>3
    <2> QED BY <2>1, <2>2
  <1>4. PICK n \in 0..NumBlocks : Handed(n) /\ \E f \in [0..Live(n) -> Nat] : Places(n, f)
    BY DEF RingInv
  <1>5. PICK f \in [0..Live(n) -> Nat] : Places(n, f)
    BY <1>4
  <1>6. /\ f[0] \in Nat /\ f[0] + Taken = Len(read) /\ Len(First.pkts) \in Nat
        /\ \A j \in 1..Len(First.pkts) : First.pkts[j] = kept[f[0] + j]
    <2>1. Len(First.pkts) \in Nat
      BY <1>2, HeadersFacts
    <2>2. f[0] + Taken = Len(read)
      BY <1>5 DEF Places
    <2>3. f[0] \in Nat /\ \A j \in 1..Len(First.pkts) : First.pkts[j] = kept[f[0] + j]
      BY <1>0, <1>1, <1>4, <1>5, NextOfFirst
    <2> QED BY <2>1, <2>2, <2>3
  <1>7. ASSUME NEW j \in 1..Len(First.pkts) PROVE Was(First.pkts[j])
    <2>1. f[0] + j \in 1..Len(read)
      BY <1>3, <1>6
    <2>2. read[f[0] + j] = First.pkts[j]
      BY <1>0, <1>6, <2>1 DEF ReadFirst
    <2> QED BY <2>1, <2>2 DEF Was
  <1> QED BY <1>1, <1>3, <1>7

\* The block whose packets were returned goes back, or there is none.
LEMMA ReleaseKeeps ==
    ASSUME RingInv, pc \in {"idle", "retry"}, ~HasNext, releaseCurrentPacket,
           pc' = "poll", data' = NoData, UNCHANGED read, UNCHANGED kernelVars
    PROVE  RingInv'
  <1>0. Types /\ ReaderAt /\ ReadFirst
    BY DEF RingInv
  <1>1. PICK n \in 0..NumBlocks : Handed(n) /\ \E f \in [0..Live(n) -> Nat] : Places(n, f)
    BY DEF RingInv
  <1>2. PICK f \in [0..Live(n) -> Nat] : Places(n, f)
    BY <1>1
  <1>3. UNCHANGED <<kernel, arrived, kept>>
    BY DEF kernelVars
  <1>4. PICK o \in Block : o = h.offset
    BY <1>0, TypeParts
  <1>5. Taken' = 0 /\ ReadFirst' /\ h \in Handles /\ 0 \in 0..(BlockCap - 1) /\ NumBlocks \in Nat \ {0}
    BY <1>0, <1>3, RingAssumption DEF Taken, ReadFirst, Types, Handles
  <1>6. CASE h.shouldReleasePacket
    <2>1. /\ blocks' = [blocks EXCEPT ![h.current].user = FALSE]
          /\ h' = getTPacketHeader([h EXCEPT !.offset = @ + 1, !.shouldReleasePacket = FALSE])
      BY <1>6 DEF releaseCurrentPacket
    <2>2. h.current = o /\ First.user
      BY <1>0, <1>4, <1>6 DEF ReaderAt
    <2>3. PICK r \in Block : r = Pos(o, 1)
      <3>1. 1 \in 0..NumBlocks
        BY <1>5
      <3> QED BY <3>1, PosFacts
    <2>4. /\ h' \in Handles /\ h'.offset = r /\ h'.current = r /\ h'.used = 0
          /\ ~h'.shouldReleasePacket
      <3>1. r = IF o + 1 >= NumBlocks THEN 0 ELSE o + 1
        BY <1>5, <2>3 DEF Pos, Block
      <3>2. PICK t : t = [h EXCEPT !.offset = @ + 1, !.shouldReleasePacket = FALSE]
        OBVIOUS
      <3>3. h' = [t EXCEPT !.offset = r, !.current = r, !.used = 0]
        <4>1. t.offset = o + 1
          BY <1>4, <1>5, <3>2 DEF Handles
        <4> QED BY <2>1, <3>1, <3>2, <4>1 DEF getTPacketHeader
      <3>4. h' = [h EXCEPT !.offset = r, !.current = r, !.used = 0, !.shouldReleasePacket = FALSE]
        BY <1>5, <3>2, <3>3 DEF Handles
      <3> QED BY <1>5, <3>4 DEF Handles
    <2>5. /\ blocks' \in [Block -> BlockRec]
          /\ ~blocks'[o].user /\ \A d \in Block : d # o => blocks'[d] = blocks[d]
          /\ \A d \in Block : blocks'[d].pkts = blocks[d].pkts
      <3>1. /\ blocks \in [Block -> BlockRec]
            /\ blocks[o] \in BlockRec
        BY <1>0 DEF Types
      <3>2. blocks' = [blocks EXCEPT ![o] = [blocks[o] EXCEPT !.user = FALSE]]
        BY <2>1, <2>2
      <3> QED BY <3>1, <3>2
    <2>6. Types'
      BY <1>0, <1>3, <2>4, <2>5 DEF Types, Handles
    <2>7. ReaderAt'
      BY <2>4 DEF ReaderAt
    <2>8. /\ Live(n) \in Nat \ {0} /\ n \in Nat \ {0} /\ f[0] \in Nat /\ f[1] \in Nat
          /\ f[1] = f[0] + Len(First.pkts)
      BY <1>0, <1>1, <1>2, <2>2, NextOfFirst
    <2>9. Taken = Len(First.pkts)
      BY <1>6, AllTaken
    <2>10. f[1] = Len(read)
      BY <1>2, <2>8, <2>9 DEF Places
    <2>11. \A i \in 0..(NumBlocks - 1) : Pos(r, i) = Pos(o, i + 1)
      BY <2>3, PosFacts
    <2>12. PICK k \in Nat : k = n - 1 /\ k + 1 = n /\ k \in 0..NumBlocks /\ k \in 0..(NumBlocks - 1)
      BY <1>5, <2>8
    <2>13. Handed(k)'
      <3>1. kernel'.cur = Pos(r, k) /\ (kernel'.open => k < NumBlocks)
        BY <1>1, <1>3, <1>4, <1>5, <2>11, <2>12 DEF Handed
      <3>2. ASSUME NEW i \in 0..(NumBlocks - 1) PROVE blocks'[Pos(r, i)].user <=> i < k
        <4>1. CASE i = NumBlocks - 1
          <5>1. Pos(r, i) = Pos(o, NumBlocks) /\ ~(i < k)
            BY <1>5, <2>11, <2>12, <4>1
          <5>2. Pos(o, NumBlocks) = o
            BY PosFacts
          <5> QED BY <2>5, <5>1, <5>2
        <4>2. CASE i # NumBlocks - 1
          <5>1. i + 1 \in 0..(NumBlocks - 1) /\ i + 1 # 0 /\ 0 \in 0..(NumBlocks - 1)
                /\ i + 1 \in 0..NumBlocks
            BY <1>5, <4>2
          <5>2. Pos(o, i + 1) # o
            <6>1. \A x, y \in 0..(NumBlocks - 1) : Pos(o, x) = Pos(o, y) => x = y
              BY PosFacts
            <6>2. Pos(o, 0) = o
              BY PosFacts
            <6> QED BY <5>1, <6>1, <6>2
          <5>3. Pos(o, i + 1) \in Block
            BY <5>1, PosFacts
          <5>4. blocks[Pos(o, i + 1)].user <=> i + 1 < n
            BY <1>1, <1>4, <5>1 DEF Handed
          <5>5. blocks'[Pos(r, i)] = blocks[Pos(o, i + 1)]
            BY <2>5, <2>11, <5>2, <5>3
          <5> QED BY <2>12, <5>4, <5>5
        <4> QED BY <4>1, <4>2
      <3> QED BY <2>4, <2>12, <3>1, <3>2 DEF Handed
    <2>14. \E g \in [0..Live(k)' -> Nat] : Places(k, g)'
      <3>1. PICK m \in Nat : m = Live(n) /\ m > 0
        BY <2>8
      <3>2. Live(k)' = m - 1 /\ m <= NumBlocks
        <4>1. kernel.open => n < NumBlocks
          BY <1>1 DEF Handed
        <4> QED BY <1>3, <1>5, <2>12, <3>1, <4>1 DEF Live
      <3>3. ASSUME NEW i \in 0..(m - 2)
            PROVE  blocks'[Pos(r, i)].pkts = blocks[Pos(o, i + 1)].pkts
        <4>1. i \in 0..(NumBlocks - 1) /\ i + 1 \in 0..NumBlocks
          BY <1>5, <3>1, <3>2
        <4>2. Pos(o, i + 1) \in Block
          BY <4>1, PosFacts
        <4> QED BY <2>5, <2>11, <4>1, <4>2
      <3>4. f[1] + Taken' = Len(read')
        <4>1. f[1] + 0 = Len(read)
          BY <2>8, <2>10
        <4> QED BY <1>5, <4>1
      <3> QED BY <1>2, <1>3, <1>4, <2>4, <3>1, <3>2, <3>3, <3>4, Shifted
    <2> QED BY <1>5, <2>6, <2>7, <2>12, <2>13, <2>14 DEF RingInv
  <1>7. CASE ~h.shouldReleasePacket
    <2>1. h' = getTPacketHeader(h) /\ UNCHANGED blocks
      BY <1>7 DEF releaseCurrentPacket
    <2>2. h' \in Handles /\ h'.offset = o /\ h'.current = o /\ h'.used = 0 /\ ~h'.shouldReleasePacket
      <3>1. ~(o >= NumBlocks)
        BY <1>5 DEF Block
      <3>2. h' = [h EXCEPT !.offset = o, !.current = o, !.used = 0]
        BY <1>4, <2>1, <3>1 DEF getTPacketHeader
      <3> QED BY <1>5, <1>7, <3>2 DEF Handles
    <2>3. Types' /\ ReaderAt'
      BY <1>0, <1>3, <2>1, <2>2 DEF Types, ReaderAt, Handles
    <2>4. Handed(n)' /\ Live(n)' = Live(n) /\ Live(n) \in Nat
      <3>1. Handed(n)'
        BY <1>1, <1>3, <1>4, <2>1, <2>2 DEF Handed
      <3> QED BY <1>3, <1>5, <3>1 DEF Live
    <2>5. Taken = 0
      BY <1>7 DEF Taken
    <2>6. f[0] + Taken' = Len(read')
      BY <1>2, <1>5, <2>5 DEF Places
    <2>7. Places(n, f)'
      BY <1>2, <1>3, <1>4, <2>1, <2>2, <2>4, <2>6, SamePlaces
    <2>8. f \in [0..Live(n)' -> Nat]
      BY <2>4
    <2> QED BY <1>5, <2>3, <2>4, <2>7, <2>8 DEF RingInv
  <1> QED BY <1>6, <1>7

\* NextPacket, in a call and when an empty block is tried again.
LEMMA NextPacketKeeps ==
    ASSUME RingInv, pc \in {"idle", "retry"}, NextPacket, UNCHANGED kernelVars
    PROVE  RingInv'
  <1>0. Types /\ ReaderAt
    BY DEF RingInv
  <1>1. CASE HasNext /\ Return([h EXCEPT !.used = @ + 1]) /\ UNCHANGED blocks
    <2>1. h.headerNextNeeded /\ h.used + 1 < Len(blocks[h.current].pkts)
      BY <1>1 DEF HasNext
    <2>2. h.used \in Nat /\ BlockCap \in Nat
      BY <1>0, TypeParts
    <2>3. pc = "idle" /\ h.shouldReleasePacket /\ h.current = h.offset /\ First.user
      <3>1. CASE pc = "retry"
        <4>1. Len(blocks[h.current].pkts) = 0
          BY <1>0, <3>1 DEF ReaderAt, First
        <4> QED BY <2>1, <2>2, <4>1
      <3>2. CASE pc = "idle"
        BY <1>0, <2>1, <3>2 DEF ReaderAt
      <3> QED BY <3>1, <3>2
    <2>4. Taken = h.used + 1 /\ Taken < Len(First.pkts)
      <3>1. First \in BlockRec
        BY <1>0, TypeParts DEF First
      <3>2. h.used + 1 < Len(First.pkts)
        BY <2>1, <2>3 DEF First
      <3>3. First.pkts # <<>>
        BY <2>2, <3>1, <3>2, HeadersFacts
      <3> QED BY <2>3, <3>2, <3>3 DEF Taken
    <2>5. h.used + 1 \in 0..(BlockCap - 1)
      <3>1. Len(First.pkts) \in Nat /\ Len(First.pkts) <= BlockCap
        BY <1>0, TypeParts DEF First
      <3> QED BY <2>2, <2>4, <3>1
    <2>6. PICK t : t = [h EXCEPT !.used = @ + 1]
      OBVIOUS
    <2>7. t \in Handles /\ t.offset = h.offset /\ t.current = h.offset /\ t.used = Taken
          /\ t.shouldReleasePacket
      <3>1. h \in Handles
        BY <1>0 DEF Types, Handles
      <3> QED BY <2>3, <2>4, <2>5, <2>6, <3>1 DEF Handles
    <2>8. Return(t)
      BY <1>1, <2>6
    <2> QED BY <1>1, <2>3, <2>4, <2>7, <2>8, ReturnKeeps
  <1>2. CASE ~HasNext /\ releaseCurrentPacket /\ pc' = "poll" /\ data' = NoData /\ UNCHANGED read
    BY <1>2, ReleaseKeeps
  <1> QED BY <1>1, <1>2 DEF NextPacket

\* Nothing but the reader's flags changes.
LEMMA FlagsKeep ==
    ASSUME RingInv, UNCHANGED blocks, UNCHANGED kernelVars, UNCHANGED read,
           h' \in Handles, h'.offset = h.offset, ReaderAt', Taken' = Taken,
           pc' \in {"idle", "retry", "poll", "closed"}
    PROVE  RingInv'
  <1>0. Types /\ ReadFirst
    BY DEF RingInv
  <1>1. PICK n \in 0..NumBlocks : Handed(n) /\ \E f \in [0..Live(n) -> Nat] : Places(n, f)
    BY DEF RingInv
  <1>2. PICK f \in [0..Live(n) -> Nat] : Places(n, f)
    BY <1>1
  <1>3. UNCHANGED <<kernel, arrived, kept>>
    BY DEF kernelVars
  <1>4. Types' /\ ReadFirst'
    BY <1>0, <1>3 DEF Types, ReadFirst, Handles
  <1>5. Handed(n)'
    BY <1>1, <1>3 DEF Handed
  <1>6. Live(n)' = Live(n)
    BY <1>3 DEF Live
  <1>7. Live(n) \in Nat
    BY RingAssumption DEF Live
  <1>8. f[0] + Taken' = Len(read')
    BY <1>2 DEF Places
  <1>9. Places(n, f)'
    BY <1>2, <1>3, <1>6, <1>7, <1>8, SamePlaces
  <1>10. f \in [0..Live(n)' -> Nat]
    BY <1>6
  <1> QED BY <1>4, <1>5, <1>9, <1>10 DEF RingInv

\* The block the reader waited for is there.
LEMMA PollReadyKeeps == ASSUME RingInv, PollReady PROVE RingInv'
  <1>0. Types /\ ReaderAt
    BY DEF RingInv
  <1>1. /\ pc = "poll" /\ ~h.shouldReleasePacket /\ h.current = h.offset /\ h.used = 0 /\ First.user
        /\ UNCHANGED blocks /\ UNCHANGED kernelVars
    BY <1>0 DEF PollReady, ReaderAt, First
  <1>2. Taken = 0 /\ h \in Handles
    BY <1>0, <1>1 DEF Taken, Types, Handles
  <1>3. PICK t : t = [h EXCEPT !.shouldReleasePacket = TRUE]
    OBVIOUS
  <1>4. t \in Handles /\ t.offset = h.offset /\ t.current = h.offset /\ t.used = 0 /\ t.shouldReleasePacket
    BY <1>1, <1>2, <1>3 DEF Handles
  <1>5. First \in BlockRec /\ data = NoData
    BY <1>0, <1>1, TypeParts DEF First, ReaderAt
  <1>6. CASE First.pkts = <<>> /\ First.left = 0
    <2>1. h' = t /\ pc' = "retry" /\ UNCHANGED <<data, read>>
      BY <1>1, <1>3, <1>5, <1>6, HeadersFacts DEF PollReady, First
    <2>2. First' = First /\ Taken' = Taken
      BY <1>1, <1>2, <1>4, <2>1 DEF First, Taken
    <2>3. ReaderAt'
      BY <1>1, <1>4, <1>5, <1>6, <2>1, <2>2 DEF ReaderAt
    <2> QED BY <1>1, <1>4, <2>1, <2>2, <2>3, FlagsKeep
  <1>7. CASE First.pkts = <<>> /\ First.left # 0
    <2>1. Return(t)
      BY <1>1, <1>3, <1>5, <1>7, HeadersFacts DEF PollReady, First
    <2>2. /\ h' = [t EXCEPT !.headerNextNeeded = TRUE] /\ pc' = "idle" /\ UNCHANGED read
          /\ data' = [block |-> t.current, at |-> t.used + 1, packet |-> Headers(First)[t.used + 1]]
      BY <1>4, <1>7, <2>1 DEF Return, First
    <2>3. /\ h' \in Handles /\ h'.offset = h.offset /\ h'.current = h.offset /\ h'.used = 0
          /\ h'.shouldReleasePacket /\ h'.headerNextNeeded
      BY <1>4, <2>2 DEF Handles
    <2>4. First' = First /\ Taken' = Taken
      BY <1>1, <1>2, <1>7, <2>3 DEF First, Taken
    <2>5. Len(Headers(First)) = 1
      BY <1>5, <1>7, HeadersFacts
    <2>6. ReaderAt'
      BY <1>1, <1>4, <2>2, <2>3, <2>4, <2>5 DEF ReaderAt
    <2> QED BY <1>1, <2>2, <2>3, <2>4, <2>6, FlagsKeep
  <1>8. CASE First.pkts # <<>>
    <2>1. Return(t)
      BY <1>1, <1>3, <1>5, <1>8, HeadersFacts DEF PollReady, First
    <2>2. Taken < Len(First.pkts)
      BY <1>2, <1>5, <1>8, HeadersFacts
    <2> QED BY <1>1, <1>2, <1>4, <2>1, <2>2, ReturnKeeps
  <1> QED BY <1>6, <1>7, <1>8

\* The reader gives up waiting.
LEMMA PollErrorKeeps == ASSUME RingInv, PollError PROVE RingInv'
  <1>0. Types /\ ReaderAt
    BY DEF RingInv
  <1>1. /\ pc = "poll" /\ ~h.shouldReleasePacket /\ pc' = "idle"
        /\ h' = [h EXCEPT !.headerNextNeeded = FALSE]
        /\ UNCHANGED blocks /\ UNCHANGED kernelVars /\ UNCHANGED <<data, read>>
    BY <1>0 DEF PollError, ReaderAt
  <1>2. h' \in Handles /\ h'.offset = h.offset /\ ~h'.shouldReleasePacket /\ ~h'.headerNextNeeded
    BY <1>0, <1>1 DEF Types, Handles
  <1>3. Taken' = Taken
    BY <1>1, <1>2 DEF Taken
  <1>4. data = NoData
    BY <1>0, <1>1 DEF ReaderAt
  <1>5. ReaderAt'
    BY <1>1, <1>2, <1>4 DEF ReaderAt
  <1> QED BY <1>1, <1>2, <1>3, <1>5, FlagsKeep

\* The ring is closed.
LEMMA CloseKeeps == ASSUME RingInv, Close PROVE RingInv'
  <1>0. Types /\ ReaderAt
    BY DEF RingInv
  <1>1. /\ pc = "idle" /\ pc' = "closed" /\ data' = NoData
        /\ UNCHANGED blocks /\ UNCHANGED kernelVars /\ UNCHANGED <<h, read>>
    BY DEF Close
  <1>2. h' \in Handles /\ Taken' = Taken /\ First' = First
    BY <1>0, <1>1 DEF Types, Handles, Taken, First
  <1>3. ReaderAt'
    BY <1>0, <1>1, <1>2 DEF ReaderAt
  <1> QED BY <1>1, <1>2, <1>3, FlagsKeep

-----------------------------------------------------------------------------
\* Every step keeps each block from the reader's offset up to the kernel's at
\* its place among the packets that were kept.
THEOREM RingInductive == Spec => []RingInv
  <1>1. ASSUME RingInv, [Next]_vars PROVE RingInv'
    <2>1. CASE Arrive
      BY <1>1, <2>1, ArriveKeeps
    <2>2. CASE Retire
      BY <1>1, <2>2, RetireKeeps
    <2>3. CASE Thaw
      BY <1>1, <2>3, ThawKeeps
    <2>4. CASE ZeroCopyReadPacketData
      BY <1>1, <2>4, NextPacketKeeps DEF ZeroCopyReadPacketData
    <2>5. CASE Retry
      BY <1>1, <2>5, NextPacketKeeps DEF Retry
    <2>6. CASE PollReady
      BY <1>1, <2>6, PollReadyKeeps
    <2>7. CASE PollError
      BY <1>1, <2>7, PollErrorKeeps
    <2>8. CASE Close
      BY <1>1, <2>8, CloseKeeps
    <2>9. CASE UNCHANGED vars
      <3>1. Types /\ ReaderAt
        BY <1>1 DEF RingInv
      <3>2. UNCHANGED blocks /\ UNCHANGED kernelVars /\ UNCHANGED <<h, pc, data, read>>
        BY <2>9 DEF vars, kernelVars
      <3>3. h' \in Handles /\ pc' \in {"idle", "retry", "poll", "closed"}
        BY <3>1, <3>2 DEF Types, Handles
      <3>4. Taken' = Taken /\ First' = First
        BY <3>2 DEF Taken, First
      <3>5. ReaderAt'
        BY <3>1, <3>2, <3>4 DEF ReaderAt
      <3> QED BY <1>1, <3>2, <3>3, <3>4, <3>5, FlagsKeep
    <2> QED BY <1>1, <2>1, <2>2, <2>3, <2>4, <2>5, <2>6, <2>7, <2>8, <2>9 DEF Next, Reader
  <1> QED BY <1>1, InitRing, PTL DEF Spec

\* What was returned stays so while the calls return more.
LEMMA WasStays ==
    ASSUME NEW p, Was(p), read \in Seq(Packet), read' = read \/ \E q : read' = Append(read, q)
    PROVE  Was(p)'
  <1>1. PICK i \in 1..Len(read) : read[i] = p
    BY DEF Was
  <1>2. CASE read' = read
    BY <1>1, <1>2 DEF Was
  <1>3. ASSUME NEW q, read' = Append(read, q) PROVE Was(p)'
    <2>1. Len(read) \in Nat /\ Len(read') = Len(read) + 1 /\ read'[i] = read[i]
      BY <1>1, <1>3
    <2> QED BY <1>1, <2>1 DEF Was
  <1> QED BY <1>2, <1>3

\* A step of the reader that keeps the blocks.
LEMMA SpentStays ==
    ASSUME Spent, Types, UNCHANGED blocks, UNCHANGED kernel,
           read' = read \/ \E q : read' = Append(read, q)
    PROVE  Spent'
  <1>1. \A p : Was(p) => Was(p)'
    BY TypeParts, WasStays
  <1> QED BY <1>1 DEF Spent

\* Return keeps the blocks and adds to what was returned.
LEMMA ReturnSpends ==
    ASSUME Spent, Types, NEW t, Return(t), UNCHANGED blocks, UNCHANGED kernelVars
    PROVE  Spent'
  BY SpentStays DEF Return, kernelVars

\* The kernel and the reader leave in a block only what was returned.
LEMMA SpentInductive ==
    ASSUME RingInv, Spent, [Next]_vars
    PROVE  Spent'
  <1>0. Types /\ ReaderAt
    BY DEF RingInv
  <1>1. CASE Arrive
    <2>1. UNCHANGED <<kernel, read>>
      BY <1>1 DEF Arrive
    <2>2. \A p : Was(p)' <=> Was(p)
      BY <2>1 DEF Was
    <2>3. CASE UNCHANGED blocks
      BY <1>0, <2>1, <2>3, SpentStays
    <2>4. CASE /\ kernel.open
               /\ blocks' = [blocks EXCEPT ![kernel.cur].pkts = Append(@, arrived + 1)]
      <3>1. PICK b \in Block : b = kernel.cur
        BY <1>0, TypeParts
      <3>2. blocks \in [Block -> BlockRec] /\ blocks[b] \in BlockRec
        BY <1>0 DEF Types
      <3>3. /\ \A d \in Block \ {b} : blocks'[d] = blocks[d]
            /\ blocks'[b].left = blocks[b].left /\ blocks'[b].user = blocks[b].user
        BY <2>4, <3>1, <3>2
      <3>4. ~blocks[b].user
        <4>1. PICK n \in 0..NumBlocks : Handed(n)
          BY DEF RingInv
        <4>2. n \in 0..(NumBlocks - 1) /\ kernel.cur = Pos(h.offset, n)
          BY <2>4, <4>1, RingAssumption DEF Handed
        <4> QED BY <3>1, <4>1, <4>2 DEF Handed
      <3> QED BY <2>1, <2>2, <2>4, <3>1, <3>3, <3>4 DEF Spent
    <2> QED BY <1>1, <2>3, <2>4 DEF Arrive
  <1>2. CASE Retire
    <2>1. /\ read' = read /\ kernel.open
          /\ blocks[kernel.cur].pkts # <<>> \/ kernel.empties
      BY <1>2 DEF Retire
    <2>2. \A p : Was(p)' <=> Was(p)
      BY <2>1 DEF Was
    <2>3. PICK b \in Block, next \in Block :
              b = kernel.cur /\ next = (kernel.cur + 1) % NumBlocks
      <3>1. kernel.cur \in 0..(NumBlocks - 1) /\ NumBlocks \in Nat \ {0}
        BY <1>0, TypeParts, RingAssumption DEF Block
      <3> QED BY <3>1 DEF Block
    <2>4. PICK handed : handed = [blocks EXCEPT ![b].user = TRUE]
      OBVIOUS
    <2>5. blocks \in [Block -> BlockRec] /\ blocks[b] \in BlockRec
      BY <1>0 DEF Types
    <2>6. /\ handed \in [Block -> BlockRec] /\ \A d \in Block \ {b} : handed[d] = blocks[d]
          /\ handed[b].user /\ handed[b].pkts = blocks[b].pkts /\ handed[b].left = blocks[b].left
      BY <2>4, <2>5
    <2>7. /\ kernel' = [kernel EXCEPT !.cur = next, !.open = ~handed[next].user]
          /\ blocks' = IF handed[next].user THEN handed ELSE [handed EXCEPT ![next] = Emptied(@)]
      BY <1>2, <2>3, <2>4 DEF Retire
    <2>8. /\ kernel'.cur = next /\ kernel'.open = ~handed[next].user
          /\ kernel'.empties = kernel.empties
      <3>1. kernel \in KernelRec
        BY <1>0 DEF Types
      <3> QED BY <2>7, <3>1
    <2>9. CASE handed[next].user
      <3>1. blocks' = handed
        BY <2>7, <2>9
      <3>2. \A d \in Block : blocks'[d].left = 0 \/ Was(blocks'[d].left)
        BY <2>6, <3>1 DEF Spent
      <3>3. ASSUME NEW d \in Block, ~blocks'[d].user
            PROVE  \A j \in 1..Len(blocks'[d].pkts) : Was(blocks'[d].pkts[j])
        <4>1. d # b /\ blocks'[d] = blocks[d]
          BY <2>6, <3>1, <3>3
        <4> QED BY <2>3, <3>3, <4>1 DEF Spent
      <3>4. ASSUME NEW d \in Block, blocks'[d].user
            PROVE  kernel'.empties \/ blocks'[d].pkts # <<>>
        <4>1. CASE d = b
          BY <2>1, <2>3, <2>6, <2>8, <3>1, <4>1
        <4>2. CASE d # b
          BY <2>6, <2>8, <3>1, <3>4, <4>2 DEF Spent
        <4> QED BY <4>1, <4>2
      <3> QED BY <2>2, <3>2, <3>3, <3>4 DEF Spent
    <2>10. CASE ~handed[next].user
      <3>1. PICK e : e = Emptied(handed[next])
        OBVIOUS
      <3>2. blocks' = [handed EXCEPT ![next] = e]
        BY <2>7, <2>10, <3>1
      <3>3. next # b /\ handed[next] = blocks[next] /\ ~blocks[next].user
        BY <2>6, <2>10
      <3>4. /\ e.user = blocks[next].user
            /\ e.left = blocks[next].left
                 \/ (1 \in 1..Len(blocks[next].pkts) /\ e.left = blocks[next].pkts[1])
        <4>1. blocks[next] \in BlockRec /\ e = Emptied(blocks[next])
          BY <2>5, <3>1, <3>3
        <4> QED BY <4>1, EmptiedBlock
      <3>5. e.left = 0 \/ Was(e.left)
        BY <2>3, <3>3, <3>4 DEF Spent
      <3>6. blocks'[next] = e /\ \A d \in Block \ {next} : blocks'[d] = handed[d]
        BY <2>6, <3>2
      <3>7. blocks'[b] = handed[b] /\ \A d \in Block \ {b, next} : blocks'[d] = blocks[d]
        BY <2>6, <3>3, <3>6
      <3>8. \A d \in Block : blocks'[d].left = 0 \/ Was(blocks'[d].left)
        <4>1. ASSUME NEW d \in Block, d # next PROVE blocks'[d].left = blocks[d].left
          <5>1. CASE d = b
            BY <2>6, <3>7, <5>1
          <5>2. CASE d # b
            BY <3>7, <4>1, <5>2
          <5> QED BY <5>1, <5>2
        <4>2. \A d \in Block : blocks[d].left = 0 \/ Was(blocks[d].left)
          BY DEF Spent
        <4> QED BY <3>5, <3>6, <4>1, <4>2
      <3>9. kernel'.open /\ kernel'.cur = next
        BY <2>8, <2>10
      <3>10. ASSUME NEW d \in Block, ~blocks'[d].user, d # next
             PROVE  \A j \in 1..Len(blocks'[d].pkts) : Was(blocks'[d].pkts[j])
        <4>1. d # b /\ blocks'[d] = blocks[d]
          BY <2>6, <3>7, <3>10
        <4> QED BY <2>3, <3>10, <4>1 DEF Spent
      <3>11. ASSUME NEW d \in Block, blocks'[d].user
             PROVE  kernel'.empties \/ blocks'[d].pkts # <<>>
        <4>1. d # next
          BY <3>3, <3>4, <3>6, <3>11
        <4>2. CASE d = b
          BY <2>1, <2>3, <2>6, <2>8, <3>7, <4>2
        <4>3. CASE d # b
          BY <2>8, <3>7, <3>11, <4>1, <4>3 DEF Spent
        <4> QED BY <4>2, <4>3
      <3> QED BY <2>2, <3>8, <3>9, <3>10, <3>11 DEF Spent
    <2> QED BY <2>9, <2>10
  <1>3. CASE Thaw
    <2>1. /\ read' = read /\ ~kernel.open /\ ~blocks[kernel.cur].user
          /\ kernel' = [kernel EXCEPT !.open = TRUE]
          /\ blocks' = [blocks EXCEPT ![kernel.cur] = Emptied(@)]
      BY <1>3 DEF Thaw
    <2>2. \A p : Was(p)' <=> Was(p)
      BY <2>1 DEF Was
    <2>3. PICK b \in Block : b = kernel.cur
      BY <1>0, TypeParts
    <2>4. PICK e : e = Emptied(blocks[b])
      OBVIOUS
    <2>5. /\ e.user = blocks[b].user
          /\ e.left = blocks[b].left
               \/ (1 \in 1..Len(blocks[b].pkts) /\ e.left = blocks[b].pkts[1])
      BY <1>0, <2>4, TypeParts, EmptiedBlock
    <2>6. e.left = 0 \/ Was(e.left)
      BY <2>1, <2>3, <2>5 DEF Spent
    <2>7. blocks'[b] = e /\ \A d \in Block \ {b} : blocks'[d] = blocks[d]
      BY <1>0, <2>1, <2>3, <2>4 DEF Types
    <2>8. kernel'.cur = b /\ kernel'.open /\ kernel'.empties = kernel.empties
      BY <1>0, <2>1, <2>3 DEF Types
    <2> QED BY <2>1, <2>2, <2>3, <2>5, <2>6, <2>7, <2>8 DEF Spent
  <1>4. CASE pc \in {"idle", "retry"} /\ NextPacket /\ UNCHANGED kernelVars
    <2>1. CASE HasNext /\ Return([h EXCEPT !.used = @ + 1]) /\ UNCHANGED blocks
      BY <1>0, <1>4, <2>1, ReturnSpends
    <2>2. CASE ~HasNext /\ releaseCurrentPacket /\ UNCHANGED read
      <3>1. UNCHANGED kernel /\ \A p : Was(p)' <=> Was(p)
        BY <1>4, <2>2 DEF kernelVars, Was
      <3>2. CASE h.shouldReleasePacket
        <4>1. PICK o \in Block : o = h.offset
          BY <1>0, TypeParts
        <4>2. h.current = o /\ \A j \in 1..Len(blocks[o].pkts) : Was(blocks[o].pkts[j])
          BY <1>4, <2>2, <3>2, <4>1, AllTaken DEF First
        <4>3. blocks' = [blocks EXCEPT ![o].user = FALSE]
          BY <2>2, <3>2, <4>2 DEF releaseCurrentPacket
        <4>4. blocks \in [Block -> BlockRec] /\ blocks[o] \in BlockRec
          BY <1>0 DEF Types
        <4>5. /\ \A d \in Block \ {o} : blocks'[d] = blocks[d]
              /\ blocks'[o].left = blocks[o].left /\ blocks'[o].pkts = blocks[o].pkts
              /\ ~blocks'[o].user
          BY <4>3, <4>4
        <4> QED BY <3>1, <4>2, <4>5 DEF Spent
      <3>3. CASE ~h.shouldReleasePacket
        <4>1. UNCHANGED blocks
          BY <2>2, <3>3 DEF releaseCurrentPacket
        <4> QED BY <1>0, <2>2, <3>1, <4>1, SpentStays
      <3> QED BY <3>2, <3>3
    <2> QED BY <1>4, <2>1, <2>2 DEF NextPacket
  <1>5. CASE PollReady
    <2>1. UNCHANGED blocks /\ UNCHANGED kernelVars /\ UNCHANGED kernel
      BY <1>5 DEF PollReady, kernelVars
    <2>2. CASE UNCHANGED read
      BY <1>0, <2>1, <2>2, SpentStays
    <2>3. CASE Return([h EXCEPT !.shouldReleasePacket = TRUE])
      BY <1>0, <2>1, <2>3, ReturnSpends
    <2> QED BY <1>5, <2>2, <2>3 DEF PollReady
  <1>6. CASE PollError \/ Close \/ UNCHANGED vars
    <2>1. UNCHANGED blocks /\ UNCHANGED kernel /\ UNCHANGED read
      BY <1>6 DEF PollError, Close, vars, kernelVars
    <2> QED BY <1>0, <2>1, SpentStays
  <1> QED BY <1>1, <1>2, <1>3, <1>4, <1>5, <1>6
          DEF Next, Reader, ZeroCopyReadPacketData, Retry

\* A header that is left in a block is one of a packet that was returned.
THEOREM LeftWasRead == Spec => []Spent
  <1>1. Init => Spent
    <2> SUFFICES ASSUME Init PROVE Spent
      OBVIOUS
    <2>1. \A b \in Block : blocks[b] = [user |-> FALSE, pkts |-> <<>>, left |-> 0]
      BY DEF Init
    <2>2. \A b \in Block : ~blocks[b].user /\ Len(blocks[b].pkts) = 0 /\ blocks[b].left = 0
      BY <2>1
    <2> QED BY <2>2 DEF Spent
  <1>2. RingInv /\ Spent /\ [Next]_vars => Spent'
    BY SpentInductive
  <1> QED BY <1>1, <1>2, RingInductive, PTL DEF Spec

\* The slice that ZeroCopyReadPacketData returned is in a block that the kernel
\* has given up and that holds the packet it held then, until the next call.
THEOREM SlicesIntact == Spec => []DataIntact
  <1>1. ASSUME RingInv PROVE DataIntact
    <2>1. ReaderAt
      BY <1>1 DEF RingInv
    <2>2. data # NoData => First.user
      BY <2>1 DEF ReaderAt
    <2> QED BY <2>1, <2>2 DEF ReaderAt, DataIntact, First
  <1> QED BY <1>1, RingInductive, PTL

\* From the blocks that hold packets the calls return the packets that were kept
\* in their order, each once, and the offsets of the reader and of the kernel
\* stay in step, for a ring of any number of blocks of any size and with errors
\* of poll; from a block without packets a call returns, if anything, a packet
\* that was returned before, whose header was left there.
THEOREM ReadInOrder == Spec => []InOrder
  <1>1. ASSUME RingInv, Spent PROVE InOrder
    <2>1. Types /\ ReadFirst
      BY <1>1 DEF RingInv
    <2>2. PICK n \in 0..NumBlocks : Handed(n)
      BY <1>1 DEF RingInv
    <2>3. PICK o \in Block : o = h.offset
      BY <2>1, TypeParts
    <2>4. /\ \A i \in 0..NumBlocks : Pos(o, i) \in Block /\ Pos(o, i) = (o + i) % NumBlocks
          /\ NumBlocks \in Nat \ {0}
      BY PosFacts
    <2>5. \A b \in Block : \E i \in 0..(NumBlocks - 1) : Pos(o, i) = b
      BY PosFacts
    <2>6. {b \in Block : blocks[b].user} = {(o + i) % NumBlocks : i \in 0..(n - 1)}
      <3>1. ASSUME NEW b \in Block, blocks[b].user
            PROVE  \E i \in 0..(n - 1) : b = (o + i) % NumBlocks
        <4>1. PICK i \in 0..(NumBlocks - 1) : Pos(o, i) = b
          BY <2>5
        <4>2. i < n
          BY <2>2, <2>3, <3>1, <4>1 DEF Handed
        <4>3. i \in 0..(n - 1) /\ i \in 0..NumBlocks
          BY <2>4, <4>2
        <4> QED BY <2>4, <4>1, <4>3
      <3>2. ASSUME NEW i \in 0..(n - 1)
            PROVE  (o + i) % NumBlocks \in Block /\ blocks[(o + i) % NumBlocks].user
        <4>1. i \in 0..(NumBlocks - 1) /\ i \in 0..NumBlocks /\ i < n
          BY <2>4
        <4>2. blocks[Pos(o, i)].user
          BY <2>2, <2>3, <4>1 DEF Handed
        <4> QED BY <2>4, <4>1, <4>2
      <3> QED BY <3>1, <3>2
    <2>7. kernel.cur = (o + n) % NumBlocks
      BY <2>2, <2>3, <2>4 DEF Handed
    <2>8. TypeOK
      BY <2>1 DEF Types, TypeOK
    <2>9. InStep
      BY <2>3, <2>6, <2>7, <2>8 DEF InStep
    <2>10. read = SubSeq(kept, 1, Len(read))
      <3>1. PICK l \in Nat : l = Len(read)
        BY <2>1, TypeParts
      <3>2. kept \in Seq(Packet) /\ read \in Seq(Packet) /\ l <= Len(kept) /\ Len(kept) \in Nat
        BY <2>1, <3>1, TypeParts DEF ReadFirst
      <3>3. \A i \in 1..l : read[i] = kept[i]
        BY <2>1, <3>1 DEF ReadFirst
      <3>4. PICK s : s = SubSeq(kept, 1, l)
        OBVIOUS
      <3>5. s \in Seq(Packet) /\ Len(s) = l /\ \A i \in 1..l : s[i] = kept[i]
        BY <3>2, <3>4
      <3> QED BY <3>1, <3>2, <3>3, <3>4, <3>5, SeqEqual
    <2>11. ASSUME data # NoData
           PROVE  IF blocks[data.block].pkts = <<>>
                  THEN kernel.empties /\ \E i \in 1..Len(read) : read[i] = data.packet
                  ELSE read[Len(read)] = data.packet
      <3>1. /\ pc = "idle" /\ h.shouldReleasePacket /\ data.block = o /\ blocks[o] = First
            /\ data.packet = Headers(First)[h.used + 1] /\ First.user
            /\ h.used < Len(Headers(First))
        BY <1>1, <2>3, <2>11 DEF RingInv, ReaderAt, First
      <3>2. First \in BlockRec /\ h.used \in Nat
        BY <2>1, TypeParts DEF First
      <3>3. CASE First.pkts = <<>>
        <4>1. First.left # 0 /\ Headers(First) = <<First.left>>
          BY <3>1, <3>2, <3>3, HeadersFacts
        <4>2. h.used = 0 /\ data.packet = First.left
          BY <3>1, <3>2, <4>1
        <4>3. Was(First.left) /\ kernel.empties
          BY <1>1, <3>1, <3>3, <4>1 DEF Spent
        <4> QED BY <3>1, <3>3, <4>2, <4>3 DEF Was
      <3>4. CASE First.pkts # <<>>
        <4>1. Headers(First) = First.pkts /\ Taken = h.used + 1 /\ Len(First.pkts) \in Nat
          BY <3>1, <3>2, <3>4, HeadersFacts DEF Taken
        <4>2. PICK m \in 0..NumBlocks : Handed(m) /\ \E f \in [0..Live(m) -> Nat] : Places(m, f)
          BY <1>1 DEF RingInv
        <4>3. PICK f \in [0..Live(m) -> Nat] : Places(m, f)
          BY <4>2
        <4>4. f[0] \in Nat /\ \A j \in 1..Len(First.pkts) : First.pkts[j] = kept[f[0] + j]
          BY <2>1, <3>1, <4>2, <4>3, NextOfFirst
        <4>5. f[0] + Taken = Len(read)
          BY <4>3 DEF Places
        <4>6. h.used + 1 \in 1..Len(First.pkts) /\ f[0] + (h.used + 1) = Len(read)
          BY <3>1, <3>2, <4>1, <4>5
        <4>7. data.packet = kept[Len(read)]
          BY <3>1, <4>1, <4>4, <4>6
        <4>8. Len(read) \in 1..Len(read)
          BY <3>2, <4>4, <4>6
        <4> QED BY <2>1, <3>1, <3>4, <4>7, <4>8 DEF ReadFirst
      <3> QED BY <3>3, <3>4
    <2> QED BY <2>1, <2>9, <2>10, <2>11 DEF InOrder, ReadFirst
  <1> QED BY <1>1, RingInductive, LeftWasRead, PTL

=============================================================================
