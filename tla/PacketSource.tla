---------------------------- MODULE PacketSource ----------------------------
(***************************************************************************)
(* packet.go: a PacketSource over ConcatFinitePacketDataSources of pcap    *)
(* handles.  The goroutine that Packets starts reads packets and sends     *)
(* them to a channel; a consumer ranges over the channel and may give up;  *)
(* handles are closed at any time.  Decoding is that of PacketDecoding.    *)
(***************************************************************************)
EXTENDS PcapHandle

CONSTANTS
    ChanCap,    \* 1000, the capacity of the channel
    GivesUp     \* whether the consumer may stop to range over the channel

VARIABLES
    pc,         \* the goroutine: "none", "read", "send", "sleep", "done"
    sources,    \* the handles that concat still has
    packet,     \* the packet that is being sent
    c,          \* the channel: what is in it, and whether it is closed
    consumer,   \* "ranging", "gone" or "ended"
    received    \* what the consumer got

sourceVars == <<pc, sources, packet, c, consumer, received>>
vars == <<handleVars, sourceVars>>

NoPacket == <<>>
NotHandle == UNCHANGED <<mode, cptr, stop, mu, closer, arrived, taken>>

Init ==
    /\ HandleInit
    /\ pc = "none" /\ packet = NoPacket
    /\ sources = [i \in 1..Cardinality(Handles) |-> i]
    /\ c = [buf |-> <<>>, closed |-> FALSE]
    /\ consumer = "ranging" /\ received = <<>>

\* The first call of Packets makes the channel and starts the goroutine.
Packets ==
    /\ pc = "none"
    /\ pc' = "read"
    /\ UNCHANGED <<handleVars, sources, packet, c, consumer, received>>

\* Mutant: the channel is left open.
ConcatReadOpen ==
    /\ pc = "read" /\ rd = NoRead
    /\ IF sources # <<>>
       THEN /\ rd' = [pc |-> "lock", h |-> Head(sources), waited |-> FALSE, result |-> EOF]
            /\ UNCHANGED pc
       ELSE /\ pc' = "done" /\ UNCHANGED rd
    /\ NotHandle
    /\ UNCHANGED <<sources, packet, c, consumer, received>>

\* concat.ReadPacketData asks the first source, or is at its end.
ConcatRead ==
    /\ pc = "read" /\ rd = NoRead
    /\ IF sources # <<>>
       THEN /\ rd' = [pc |-> "lock", h |-> Head(sources), waited |-> FALSE, result |-> EOF]
            /\ UNCHANGED <<pc, c>>
       ELSE /\ pc' = "done" /\ c' = [c EXCEPT !.closed = TRUE]
            /\ UNCHANGED rd
    /\ NotHandle
    /\ UNCHANGED <<sources, packet, consumer, received>>

EndsSource(result) == result = EOF

\* A source that returned io.EOF is dropped and the next one asked; another
\* error is slept over and tried again; a packet is sent.
ReadReturns ==
    /\ pc = "read" /\ rd.pc = "return"
    /\ rd' = NoRead
    /\ LET result == rd.result IN
        \/ /\ EndsSource(result)
           /\ sources' = Tail(sources) /\ UNCHANGED <<pc, packet>>
        \/ /\ ~EndsSource(result) /\ result \in {ReadError, TimeoutExpired}
           /\ pc' = "sleep" /\ UNCHANGED <<sources, packet>>
        \/ /\ result \in Handles \X (1..MaxPackets)
           /\ pc' = "send" /\ packet' = result /\ UNCHANGED sources
    /\ NotHandle
    /\ UNCHANGED <<c, consumer, received>>

Sleep ==
    /\ pc = "sleep"
    /\ pc' = "read"
    /\ UNCHANGED <<handleVars, sources, packet, c, consumer, received>>

\* Mutant: a packet that finds the channel full is dropped.
SendOrDrop ==
    /\ pc = "send"
    /\ c' = IF Len(c.buf) < ChanCap THEN [c EXCEPT !.buf = Append(@, packet)] ELSE c
    /\ pc' = "read" /\ packet' = NoPacket
    /\ UNCHANGED <<handleVars, sources, consumer, received>>

Send ==
    /\ pc = "send" /\ Len(c.buf) < ChanCap
    /\ c' = [c EXCEPT !.buf = Append(@, packet)]
    /\ pc' = "read" /\ packet' = NoPacket
    /\ UNCHANGED <<handleVars, sources, consumer, received>>

\* The loop of the consumer.
Receive ==
    /\ consumer = "ranging" /\ pc # "none"
    /\ \/ /\ c.buf # <<>>
          /\ received' = Append(received, Head(c.buf))
          /\ c' = [c EXCEPT !.buf = Tail(@)]
          /\ UNCHANGED consumer
       \/ /\ c.buf = <<>> /\ c.closed
          /\ consumer' = "ended"
          /\ UNCHANGED <<received, c>>
    /\ UNCHANGED <<handleVars, pc, sources, packet>>

GiveUp ==
    /\ GivesUp /\ consumer = "ranging"
    /\ consumer' = "gone"
    /\ UNCHANGED <<handleVars, pc, sources, packet, c, received>>

Goroutine ==
    \/ ConcatRead \/ ReadReturns \/ Sleep \/ Send
    \/ \E h \in Handles : ReadStep(h) /\ UNCHANGED sourceVars

Next ==
    \/ Packets \/ Goroutine \/ Receive \/ GiveUp
    \/ \E h \in Handles : (Arrive(h) \/ NextUnsure(h) \/ CloseStart(h) \/ CloseFinish(h)) /\ UNCHANGED sourceVars

\* The goroutine and the consumer keep running, libpcap returns when there is a
\* packet, the end of a file or, in non-blocking mode, nothing, poll returns when
\* its timeout is over, and a mutex that is free again and again is got in the
\* end.  Nobody has to close a handle, no packet has to arrive, and libpcap does
\* not have to give up on a handle that blocks.
Fairness ==
    /\ WF_vars(Packets) /\ WF_vars(Goroutine) /\ WF_vars(Receive)
    /\ \A h \in Handles : SF_vars(CloseFinish(h) /\ UNCHANGED sourceVars)

Spec == Init /\ [][Next]_vars /\ Fairness

-----------------------------------------------------------------------------
\* A packet between libpcap and the channel.
Between ==
    (IF packet = NoPacket THEN <<>> ELSE <<packet>>) \o
    (IF rd.pc \in {"unlock", "return"} /\ rd.result \in Handles \X (1..MaxPackets)
     THEN <<rd.result>> ELSE <<>>)

\* The packets on their way, from the one the consumer got first.
Passed == received \o c.buf \o Between

\* p comes before q: from an earlier handle, or earlier on the same one.
Precedes(p, q) == p[1] < q[1] \/ (p[1] = q[1] /\ p[2] < q[2])

\* The channel is closed, and the range over it ends, only when every handle is
\* at the end of its file or was asked to stop; in particular no read error and
\* no timeout ends it, and nothing is sent later (packetsToChannel).
EndsOnlyAtEOF ==
    c.closed => /\ \A h \in Handles : \/ stop[h]
                                      \/ mode[h] = "file" /\ taken[h] = arrived[h]
                /\ pc = "done" /\ packet = NoPacket

\* No packet is lost, repeated or overtaken between libpcap and the consumer,
\* across timeouts, errors, full channels and the change to the next handle,
\* and the channel does not close before all are sent (packetsToChannel,
\* concat.ReadPacketData).
Complete ==
    /\ {Passed[i] : i \in DOMAIN Passed} = UNION {{h} \X (1..taken[h]) : h \in Handles}
    /\ \A i, j \in DOMAIN Passed : i < j => Precedes(Passed[i], Passed[j])
    /\ EndsOnlyAtEOF

\* Close returns, though a reader is in the handle, though the consumer gave up
\* and the goroutine hangs in its send, unless libpcap holds the reader of a
\* handle without a timeout until the next packet; when that comes, or when the
\* reader was not yet in libpcap, it returns there too (Close,
\* getNextBufPtrLocked).
CloseReturns ==
    \A h \in Handles :
        (closer[h] = "stopping" /\ ~Blocked(h)) ~> (closer[h] = "closed")

\* When all handles are closed, a consumer that does not give up comes to the
\* end of its loop, with nothing left in the channel (Packets).
RangeEnds ==
    (\A h \in Handles : closer[h] = "closed") ~> (consumer \in {"ended", "gone"})
=============================================================================
