---------------------------- MODULE AfpacketRing ----------------------------
(***************************************************************************)
(* afpacket/afpacket.go and header.go: a TPacket that reads packets from   *)
(* the ring of blocks it shares with the kernel.  A block of version 3     *)
(* holds several packets; a frame of versions 1 and 2 is a block of one.   *)
(* The kernel is external: it fills the blocks in turn, hands them over,   *)
(* and drops packets while the block it comes to is not given back.  It    *)
(* does not wipe a block that it fills again: where the first packet of a  *)
(* block goes, the header of an earlier one stays until it is overwritten. *)
(***************************************************************************)
EXTENDS Integers, Sequences

CONSTANTS
    NumBlocks,    \* opts.numBlocks
    BlockCap,     \* how many packets fit into a block
    EmptyBlocks,  \* whether the kernel may hand over blocks without a packet
    MaxPackets    \* bound: the packets that arrive

ASSUME RingAssumption ==
    /\ NumBlocks \in Nat \ {0} /\ BlockCap \in Nat \ {0} /\ MaxPackets \in Nat
    /\ EmptyBlocks \subseteq BOOLEAN

VARIABLES
    blocks,   \* blocks[b]: TP_STATUS_USER, the packets in it, and the packet
              \*   whose header was left in the first place, 0 if none was
    kernel,   \* the block the kernel fills, whether it has opened it, and
              \*   whether it hands over blocks without a packet
    arrived,  \* how many packets arrived
    kept,     \* the packets that were not dropped, in their order
    h,        \* the TPacket
    pc,       \* the reader: "idle", "retry", "poll", "closed"
    data,     \* the slice that the caller holds
    read      \* the packets that the calls returned, but for those that were
              \*   found in a block without packets

vars == <<blocks, kernel, arrived, kept, h, pc, data, read>>
kernelVars == <<kernel, arrived, kept>>

Block == 0..(NumBlocks - 1)
Packet == 1..MaxPackets
NoBlock == -1
NoData == [block |-> NoBlock, at |-> 0, packet |-> 0]

Init ==
    /\ blocks = [b \in Block |-> [user |-> FALSE, pkts |-> <<>>, left |-> 0]]
    /\ \E e \in EmptyBlocks : kernel = [cur |-> 0, open |-> TRUE, empties |-> e]
    /\ arrived = 0 /\ kept = <<>> /\ read = <<>>
    /\ h = [offset |-> 0, current |-> NoBlock, used |-> 0,
            shouldReleasePacket |-> FALSE, headerNextNeeded |-> FALSE]
    /\ pc = "idle" /\ data = NoData

-----------------------------------------------------------------------------
(* The kernel.                                                             *)

\* A block without packets, in which the first header stays as it was.
Emptied(blk) ==
    [blk EXCEPT !.pkts = <<>>, !.left = IF blk.pkts = <<>> THEN @ ELSE Head(blk.pkts)]

Arrive ==
    /\ arrived < MaxPackets /\ arrived' = arrived + 1
    /\ \/ /\ kernel.open /\ Len(blocks[kernel.cur].pkts) < BlockCap
          /\ blocks' = [blocks EXCEPT ![kernel.cur].pkts = Append(@, arrived + 1)]
          /\ kept' = Append(kept, arrived + 1)
       \/ ~kernel.open /\ UNCHANGED <<blocks, kept>>
    /\ UNCHANGED <<kernel, h, pc, data, read>>

\* A block that is full or whose time is over goes to the reader; the next one
\* is opened unless the reader still has it.
Retire ==
    /\ kernel.open /\ (blocks[kernel.cur].pkts # <<>> \/ kernel.empties)
    /\ LET next == (kernel.cur + 1) % NumBlocks
           handed == [blocks EXCEPT ![kernel.cur].user = TRUE]
       IN  /\ kernel' = [kernel EXCEPT !.cur = next, !.open = ~handed[next].user]
           /\ blocks' = IF handed[next].user THEN handed
                        ELSE [handed EXCEPT ![next] = Emptied(@)]
    /\ UNCHANGED <<arrived, kept, h, pc, data, read>>

\* The block the kernel waits for was given back.
Thaw ==
    /\ ~kernel.open /\ ~blocks[kernel.cur].user
    /\ kernel' = [kernel EXCEPT !.open = TRUE]
    /\ blocks' = [blocks EXCEPT ![kernel.cur] = Emptied(@)]
    /\ UNCHANGED <<arrived, kept, h, pc, data, read>>

-----------------------------------------------------------------------------
(* ZeroCopyReadPacketData.                                                 *)

\* The packets whose headers can be found in a block.
Headers(blk) == IF blk.pkts = <<>> /\ blk.left # 0 THEN <<blk.left>> ELSE blk.pkts

\* The call returns packet number used of the current block, or the one that
\* was left in it.
Return(t) ==
    LET blk == blocks[t.current]
        packet == Headers(blk)[t.used + 1]
    IN
    /\ data' = [block |-> t.current, at |-> t.used + 1, packet |-> packet]
    /\ read' = IF blk.pkts = <<>> THEN read ELSE Append(read, packet)
    /\ h' = [t EXCEPT !.headerNextNeeded = TRUE]
    /\ pc' = "idle"

\* h.current.next() counts another packet in the block.
HasNext == h.headerNextNeeded /\ h.used + 1 < Len(blocks[h.current].pkts)

getTPacketHeader(t) ==
    LET offset == IF t.offset >= NumBlocks THEN 0 ELSE t.offset IN
    [t EXCEPT !.offset = offset, !.current = offset, !.used = 0]

\* The block whose packets were returned goes back; h turns to the next one.
releaseCurrentPacket ==
    \/ /\ h.shouldReleasePacket
       /\ blocks' = [blocks EXCEPT ![h.current].user = FALSE]
       /\ h' = getTPacketHeader([h EXCEPT !.offset = @ + 1, !.shouldReleasePacket = FALSE])
    \/ /\ ~h.shouldReleasePacket
       /\ h' = getTPacketHeader(h)
       /\ UNCHANGED blocks

\* The next packet of the block, or else the block is given back and the next
\* one waited for.
NextPacket ==
    \/ /\ HasNext
       /\ Return([h EXCEPT !.used = @ + 1])
       /\ UNCHANGED blocks
    \/ /\ ~HasNext
       /\ releaseCurrentPacket
       /\ pc' = "poll" /\ data' = NoData
       /\ UNCHANGED read

ZeroCopyReadPacketData == pc = "idle" /\ NextPacket /\ UNCHANGED kernelVars

Retry == pc = "retry" /\ NextPacket /\ UNCHANGED kernelVars

\* Mutant: the block is given back together with its first packet.
PollReadyReleasing ==
    /\ pc = "poll" /\ blocks[h.current].user
    /\ IF Headers(blocks[h.current]) = <<>>
       THEN h' = [h EXCEPT !.shouldReleasePacket = TRUE] /\ pc' = "retry" /\ UNCHANGED <<data, read>>
       ELSE Return([h EXCEPT !.offset = @ + 1])
    /\ blocks' = [blocks EXCEPT ![h.current].user = Headers(blocks[h.current]) = <<>>]
    /\ UNCHANGED kernelVars

\* Mutant: an empty block is not given back.
PollReadyKeepsEmpty ==
    /\ pc = "poll" /\ blocks[h.current].user
    /\ IF Headers(blocks[h.current]) = <<>>
       THEN pc' = "retry" /\ UNCHANGED <<h, data, read>>
       ELSE Return([h EXCEPT !.shouldReleasePacket = TRUE])
    /\ UNCHANGED <<blocks, kernelVars>>

\* pollForFirstPacket sees TP_STATUS_USER; the call tries again where the length
\* in the first header is 0, in a block whose first place was never used.
PollReady ==
    /\ pc = "poll" /\ blocks[h.current].user
    /\ LET t == [h EXCEPT !.shouldReleasePacket = TRUE] IN
       IF Headers(blocks[h.current]) = <<>>
       THEN h' = t /\ pc' = "retry" /\ UNCHANGED <<data, read>>
       ELSE Return(t)
    /\ UNCHANGED <<blocks, kernelVars>>

\* Mutant: an error leaves headerNextNeeded as it was.
PollErrorKeepsNext ==
    /\ pc = "poll" /\ ~blocks[h.current].user
    /\ pc' = "idle"
    /\ UNCHANGED <<blocks, kernelVars, h, data, read>>

\* ErrTimeout, ErrPoll or another error of poll; EINTR goes on polling.
PollError ==
    /\ pc = "poll" /\ ~blocks[h.current].user
    /\ pc' = "idle" /\ h' = [h EXCEPT !.headerNextNeeded = FALSE]
    /\ UNCHANGED <<blocks, kernelVars, data, read>>

\* Close unmaps the ring.  The caller has ended its reading.
Close ==
    /\ pc = "idle"
    /\ pc' = "closed" /\ data' = NoData
    /\ UNCHANGED <<blocks, kernelVars, h, read>>

Reader == ZeroCopyReadPacketData \/ Retry \/ PollReady \/ PollError

Next == Arrive \/ Retire \/ Thaw \/ Reader \/ Close

\* A block's timer runs out and the kernel looks at a block that was given
\* back; the reader keeps calling until it closes the ring.
Fairness == WF_vars(Retire) /\ WF_vars(Thaw) /\ WF_vars(Reader)

Spec == Init /\ [][Next]_vars /\ Fairness

-----------------------------------------------------------------------------
\* Every cursor stays in the ring: h.offset is set back before it is used, and
\* h.used stays in its block (getTPacketHeader, next).
TypeOK ==
    /\ blocks \in [Block -> [user : BOOLEAN, pkts : Seq(Packet), left : 0..MaxPackets]]
    /\ kernel \in [cur : Block, open : BOOLEAN, empties : BOOLEAN]
    /\ h \in [offset : Block, current : Block \cup {NoBlock}, used : 0..(BlockCap - 1),
              shouldReleasePacket : BOOLEAN, headerNextNeeded : BOOLEAN]
    /\ pc \in {"idle", "retry", "poll", "closed"}

\* The slice a call returned stays what it was until the next call: its block
\* has not gone back to the kernel, which would write into it
\* (ZeroCopyReadPacketData).
DataIntact ==
    data # NoData => /\ blocks[data.block].user
                     /\ Headers(blocks[data.block])[data.at] = data.packet

\* The reader's offset and the kernel's never part: the blocks handed over are
\* the ones from the reader's current offset up to the kernel's block, so that
\* a reader that waits does so for the block that comes next, and no block is
\* left behind (getTPacketHeader, releaseCurrentPacket).
InStep ==
    /\ TypeOK
    /\ \E n \in 0..NumBlocks :
        /\ {b \in Block : blocks[b].user} = {(h.offset + i) % NumBlocks : i \in 0..(n - 1)}
        /\ kernel.cur = (h.offset + n) % NumBlocks

\* No packet that the kernel kept is skipped or overtaken, and none is returned
\* twice from the blocks that hold it, whatever timeouts and errors come in
\* between, and when the ring runs full (next, headerNextNeeded,
\* releaseCurrentPacket), and the cursors stay in step.  A call returns a packet
\* again only from a block that is handed over without packets and in which its
\* header was left, and it was returned before; where the kernel hands over no
\* such block, no call does.
InOrder ==
    /\ InStep
    /\ Len(read) <= Len(kept) /\ read = SubSeq(kept, 1, Len(read))
    /\ data # NoData =>
        IF blocks[data.block].pkts = <<>>
        THEN kernel.empties /\ \E i \in 1..Len(read) : read[i] = data.packet
        ELSE read[Len(read)] = data.packet

\* Every packet that was kept is returned in the end, unless the ring is closed
\* first: no block is forgotten and no timeout leaves the reader waiting at the
\* wrong place (ZeroCopyReadPacketData).
AllRead == \A p \in Packet : (\E i \in 1..Len(kept) : kept[i] = p) ~>
                                (pc = "closed" \/ \E i \in 1..Len(read) : read[i] = p)
=============================================================================
