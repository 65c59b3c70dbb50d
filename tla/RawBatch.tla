------------------------------ MODULE RawBatch ------------------------------
(***************************************************************************)
(* rawsend/batch_linux.go: a Batch collects packets in fixed slots and     *)
(* hands them to sendmmsg, which may take some of them, none, or fail in   *)
(* the middle; what it did not take moves to the front and is kept.        *)
(*                                                                         *)
(* A packet is a record of its bytes, a sequence, and its destination.     *)
(* The kernel is external.                                                 *)
(***************************************************************************)
EXTENDS Naturals, Sequences

CONSTANTS
    batchSize,    \* the number of slots
    maxPktLen,    \* bytes in a slot
    Offered,      \* the packets that Add is called with
    MaxPackets    \* bound: the packets that are added

ASSUME BatchAssumption ==
    /\ batchSize \in Nat \ {0} /\ maxPktLen \in Nat /\ MaxPackets \in Nat
    /\ \A pkt \in Offered : pkt.bytes \in Seq(Nat)

VARIABLES
    pkts, pktLens, addrs,   \* the slots: their bytes, lengths and addresses
    count,                  \* how many of them are queued
    sent,                   \* inside of Flush: the slots that sendmmsg took
    pc,                     \* "idle", "flush" in Flush, "drain" in the Flush with
                            \* which Add makes room
    offer,                  \* the packet of the Add in progress
    accepted,               \* the packets that Add took, as far as they fit
    wire                    \* what sendmmsg took

batchVars == <<pkts, pktLens, addrs, count, sent, pc, offer, accepted, wire>>

Slots == 1..batchSize
Unused == 0
NoPacket == [bytes |-> <<>>, dst |-> Unused]

\* copy into a slot: what is longer than the slot is cut off.
copied(bytes) == SubSeq(bytes, 1, IF Len(bytes) < maxPktLen THEN Len(bytes) ELSE maxPktLen)

\* The message that iovs[i], msgs[i] and addrs[i] describe.
Message(i) == [bytes |-> SubSeq(pkts[i], 1, pktLens[i]), dst |-> addrs[i]]

\* The bytes of a slot after data was copied to its front.
Overlaid(slot, data) ==
    [j \in 1..maxPktLen |-> IF j <= Len(data) THEN data[j] ELSE slot[j]]

BatchInit ==
    /\ pkts = [i \in Slots |-> [j \in 1..maxPktLen |-> Unused]]
    /\ pktLens = [i \in Slots |-> 0] /\ addrs = [i \in Slots |-> Unused]
    /\ count = 0 /\ sent = 0 /\ pc = "idle" /\ offer = NoPacket
    /\ accepted = <<>> /\ wire = <<>>

-----------------------------------------------------------------------------
\* The second half of Add: the packet goes to slot number held + 1, and a
\* batch that is full then is flushed.
Put(pkt, held) ==
    LET data == copied(pkt.bytes) IN
    /\ pkts' = [pkts EXCEPT ![held + 1] = Overlaid(@, data)]
    /\ pktLens' = [pktLens EXCEPT ![held + 1] = Len(data)]
    /\ addrs' = [addrs EXCEPT ![held + 1] = pkt.dst]
    /\ count' = held + 1
    /\ pc' = IF held + 1 = batchSize THEN "flush" ELSE "idle"
    /\ accepted' = Append(accepted, [bytes |-> data, dst |-> pkt.dst])
    /\ sent' = 0 /\ offer' = NoPacket

\* Add; a batch that a failed Flush left full is flushed first.
Add(pkt) ==
    /\ pc = "idle" /\ Len(accepted) < MaxPackets
    /\ \/ count < batchSize /\ Put(pkt, count) /\ UNCHANGED wire
       \/ /\ count >= batchSize
          /\ pc' = "drain" /\ offer' = pkt /\ sent' = 0
          /\ UNCHANGED <<pkts, pktLens, addrs, count, accepted, wire>>

\* Mutant: Flush returns at once unless the batch is full.
FlushFull ==
    /\ pc = "idle" /\ count = batchSize
    /\ pc' = "flush" /\ sent' = 0
    /\ UNCHANGED <<pkts, pktLens, addrs, count, offer, accepted, wire>>

\* The call of Flush by the owner.
Flush ==
    /\ pc = "idle" /\ count > 0
    /\ pc' = "flush" /\ sent' = 0
    /\ UNCHANGED <<pkts, pktLens, addrs, count, offer, accepted, wire>>

\* sendmmsg takes num of the messages that are left, at least one.
Taken(num) == wire' = wire \o [k \in 1..num |-> Message(sent + k)]

SendSome(num) ==
    /\ pc # "idle" /\ num < count - sent
    /\ Taken(num) /\ sent' = sent + num
    /\ UNCHANGED <<pkts, pktLens, addrs, count, pc, offer, accepted>>

\* It takes the rest: Flush returns nil, and Add goes on.
SendRest ==
    /\ pc # "idle"
    /\ Taken(count - sent)
    /\ \/ pc = "drain" /\ Put(offer, 0)
       \/ /\ pc = "flush"
          /\ pc' = "idle" /\ count' = 0 /\ sent' = 0
          /\ UNCHANGED <<pkts, pktLens, addrs, offer, accepted>>

\* Mutant: the addresses stay where they were.
keepUnsentBytes ==
    /\ LET moved(i) == IF i <= count - sent THEN i + sent ELSE i IN
        /\ pkts' = [i \in Slots |-> Overlaid(pkts[i], Message(moved(i)).bytes)]
        /\ pktLens' = [i \in Slots |-> pktLens[moved(i)]]
        /\ UNCHANGED addrs
    /\ count' = count - sent

\* keepUnsent: the messages behind sent move to the front, each with its
\* length and its address; the bytes behind it in its slot stay.
keepUnsent ==
    /\ LET moved(i) == IF i <= count - sent THEN i + sent ELSE i IN
        /\ pkts' = [i \in Slots |-> Overlaid(pkts[i], Message(moved(i)).bytes)]
        /\ pktLens' = [i \in Slots |-> pktLens[moved(i)]]
        /\ addrs' = [i \in Slots |-> addrs[moved(i)]]
    /\ count' = count - sent

\* sendmmsg fails or takes nothing: Flush returns an error, and so does the
\* Add that called it, which has taken its packet only if there was room.
SendFails ==
    /\ pc # "idle"
    /\ keepUnsent
    /\ pc' = "idle" /\ sent' = 0 /\ offer' = NoPacket
    /\ UNCHANGED <<accepted, wire>>

BatchNext ==
    \/ \E pkt \in Offered : Add(pkt)
    \/ Flush
    \/ \E num \in Slots : SendSome(num)
    \/ SendRest
    \/ SendFails

\* The owner flushes again after an error, and sendmmsg does not fail always.
BatchFairness ==
    /\ WF_batchVars(Flush)
    /\ SF_batchVars(SendRest \/ \E num \in Slots : SendSome(num))
    /\ WF_batchVars(SendFails)

BatchSpec == BatchInit /\ [][BatchNext]_batchVars /\ BatchFairness

-----------------------------------------------------------------------------
\* The type invariant, and that no slot behind the last one is touched: Add
\* and Flush index slots up to count and sent.
BatchTypeOK ==
    /\ count \in 0..batchSize /\ sent \in 0..count
    /\ pc \in {"idle", "flush", "drain"}
    /\ pc = "idle" => sent = 0
    /\ pc # "idle" => sent < count
    /\ pc = "drain" => count = batchSize

\* Every packet that Add took goes out once, whole, to its own address, in the
\* order of the calls, however often sendmmsg stops in the middle; what is not
\* out yet is queued (Add, Flush, keepUnsent).
SentInOrder ==
    accepted = wire \o [k \in 1..(count - sent) |-> Message(sent + k)]

\* An owner that calls Flush again after an error gets every packet out
\* ("re-sends them on the next Flush", keepUnsent).
AllSent == \A n \in 1..MaxPackets : (Len(accepted) >= n) ~> (Len(wire) >= n)
=============================================================================
