---------------------------- MODULE TcpAssembly ----------------------------
(***************************************************************************)
(* One tcpassembly Assembler (src/tcpassembly/assembly.go) fed with the    *)
(* packets of TCP connections that the network reorders, duplicates, drops *)
(* and re-segments.  A handler (AssembleWithTimestamp, FlushWithOptions,   *)
(* FlushAll) runs in the steps the code makes: the part before the         *)
(* delivery loop, one page of addContiguous at a time, and the delivery    *)
(* with the possible close.  pc says which step is next, and no other      *)
(* handler starts before pc is back at "idle".                             *)
(*                                                                         *)
(* A payload is the interval [from, from + len) of offsets in the byte     *)
(* stream the sender wrote; slicing a Go slice slices the interval.  What  *)
(* a caller's Stream is told is its log, kept next to the position at      *)
(* which a reader of that log believes the stream to be.                   *)
(***************************************************************************)
EXTENDS TcpSequence, Sequences, FiniteSets, FiniteSetsExt

CONSTANTS
    Keys,           \* the flows (key [2]gopacket.Flow)
    NoKey,          \* no flow
    ISNs,           \* the initial sequence numbers a sender may choose
    StreamLen,      \* bytes the sender of each flow writes
    MaxLen,         \* payload bound of a packet
    SynLen,         \* payload of a SYN packet (TCP fast open), 0 without it
    Reuse,          \* whether a SYN of a later connection may reuse the flow
    PageBytes,      \* pageBytes
    MaxBufferedPagesTotal,
    MaxBufferedPagesPerConnection,
    Times,          \* timestamps a packet may carry
    FlushTimes,     \* timestamps a flush may be given
    MaxPackets,     \* bound: packets passed in
    MaxFlushes      \* bound: flush calls

ASSUME ConstantsAssumption ==
    /\ NoKey \notin Keys /\ IsFiniteSet(Keys)
    /\ ISNs \subseteq Sequence
    /\ StreamLen \in Nat /\ StreamLen + 1 < Quarter
    /\ MaxLen \in Nat /\ SynLen \in Nat /\ SynLen <= StreamLen
    /\ Reuse \in BOOLEAN
    /\ PageBytes \in Nat \ {0}
    /\ MaxBufferedPagesTotal \in Nat
    /\ MaxBufferedPagesPerConnection \in Nat
    /\ Times \subseteq Nat \ {0} /\ FlushTimes \subseteq Nat
    /\ MaxPackets \in Nat /\ MaxFlushes \in Nat

VARIABLES
    isn,        \* the initial sequence number of each flow's sender
    conns,      \* p.conns: the connection of each flow, NoConn if none
    free,       \* the reused part of p.free: the lastSeen each object kept
    used,       \* a.pc.used
    ret,        \* a.ret
    pc, op,     \* the running handler: its next step, its arguments
    cur,        \* the flow whose connection the handler has locked
    streams,    \* the latest Stream made for each flow, as its owner sees it
    packets, flushes

vars == <<isn, conns, free, used, ret, pc, op, cur, streams, packets, flushes>>

-----------------------------------------------------------------------------
\* Payloads.

NoBytes == [from |-> 0, len |-> 0]

Slice(b, n) == [from |-> b.from + n, len |-> b.len - n]

\* Mutant: an overlap with what was delivered is not cut off.
byteSpanUncut(expected, received, b) == [bytes |-> b, next |-> Add(received, b.len)]

\* byteSpan: what of a payload received at a sequence number is new when
\* the connection expects another one, and the number expected next.
byteSpan(expected, received, b) ==
    LET span == Difference(received, expected)
    IN  IF expected = invalidSequence \/ span <= 0
        THEN [bytes |-> b, next |-> Add(received, b.len)]
        ELSE IF b.len < span
             THEN [bytes |-> NoBytes, next |-> expected]
             ELSE [bytes |-> Slice(b, span), next |-> Add(expected, b.len - span)]

\* The segments of a byte stream: any piece of it, a FIN after its last
\* byte, a RST anywhere.
Segments == {x \in [off : 0 .. StreamLen, len : 0 .. MaxLen, end : BOOLEAN] :
                /\ x.off + x.len <= StreamLen
                /\ x.end \/ x.len > 0
                /\ x.end => x.len = 0 \/ x.off + x.len = StreamLen}

\* The packets the network may hand the sniffer for flow k: the SYN of its
\* connection (and of a later one that reuses the flow), and its segments.
Packets(k) ==
    {[syn |-> TRUE, seq |-> i, bytes |-> [from |-> 0, len |-> SynLen],
      end |-> FALSE] : i \in IF Reuse THEN ISNs ELSE {isn[k]}}
    \cup
    {[syn |-> FALSE, seq |-> Add(isn[k], x.off + 1),
      bytes |-> [from |-> x.off, len |-> x.len], end |-> x.end] : x \in Segments}

-----------------------------------------------------------------------------
\* Connections, their pages, and the streams their owner reads.

NoConn == [open |-> FALSE, nextSeq |-> invalidSequence, list |-> <<>>,
           pages |-> 0, lastSeen |-> 0, heard |-> 0]

\* connection.reset: a reused object keeps its lastSeen.  heard is the
\* newest timestamp this connection itself was passed.
newConnection(stale) ==
    [open |-> TRUE, nextSeq |-> invalidSequence, list |-> <<>>, pages |-> 0,
     lastSeen |-> stale, heard |-> 0]

\* A Stream fresh from StreamFactory.New.  pos is the offset its reader is
\* at, -1 before the first Reassembly; got the bytes that arrived for it
\* before its reader was past them.
NewStream == [log |-> <<>>, pos |-> -1, complete |-> FALSE, got |-> {}]

\* Where a reader at pos puts a Reassembly: a Start is at 0, an unknown skip
\* is taken to lead to the bytes, any other Skip is a number of bytes.
readerAt(pos, r) == IF r.start THEN 0
                    ELSE IF r.skip = -1 THEN r.bytes.from
                    ELSE pos + r.skip

\* pagesFromTCP: a payload is copied into at least one page, and only the
\* last one carries the packet's End.
numPages(b) == IF b.len = 0 THEN 1 ELSE (b.len + PageBytes - 1) \div PageBytes

\* Mutant: every page of a packet gets the sequence number of the packet.
pagesFromTCPFixedSeq(p, ts) ==
    [i \in 1 .. numPages(p.bytes) |->
        LET before == (i - 1) * PageBytes
            rest   == p.bytes.len - before
        IN  [seq   |-> p.seq,
             bytes |-> [from |-> p.bytes.from + before,
                        len  |-> IF rest < PageBytes THEN rest ELSE PageBytes],
             end   |-> p.end /\ i = numPages(p.bytes),
             syn   |-> p.syn,
             seen  |-> ts]]

pagesFromTCP(p, ts) ==
    [i \in 1 .. numPages(p.bytes) |->
        LET before == (i - 1) * PageBytes
            rest   == p.bytes.len - before
        IN  [seq   |-> Add(p.seq, before),
             bytes |-> [from |-> p.bytes.from + before,
                        len  |-> IF rest < PageBytes THEN rest ELSE PageBytes],
             end   |-> p.end /\ i = numPages(p.bytes),
             syn   |-> p.syn,
             seen  |-> ts]]

\* traverseConn walks back from the last page to the first one it meets that
\* is not after seq: the index of that page, 0 if there is none.
traverseConn(list, seq) ==
    Max({0} \cup {i \in DOMAIN list : Difference(list[i].seq, seq) >= 0})

\* pushBetween links new pages in after the page at index i.
pushBetween(list, i, new) ==
    [j \in 1 .. Len(list) + Len(new) |->
        IF j <= i THEN list[j]
        ELSE IF j <= i + Len(new) THEN new[j - i]
        ELSE list[j - Len(new)]]

-----------------------------------------------------------------------------
\* What the helpers change, as functions of the state they work on: the
\* locked connection c, its stream s, a.ret and a.pc.used.

Reassembly(bytes, skip, start, end) ==
    [bytes |-> bytes, skip |-> skip, start |-> start, end |-> end]

\* append(a.ret, r), with the place the reader will give r.
appendRet(x, r) ==
    LET at == readerAt(x.s.pos, r)
    IN  [x EXCEPT
            !.ret = Append(x.ret, [bytes |-> r.bytes, skip |-> r.skip,
                                   start |-> r.start, end |-> r.end, at |-> at]),
            !.s   = [x.s EXCEPT !.pos = at + r.bytes.len]]

\* addNextFromConn pops the first page.
addNextFromConn(x) ==
    LET first == Head(x.c.list)
        diff  == Difference(x.c.nextSeq, first.seq)
        skip  == IF x.c.nextSeq = invalidSequence THEN -1
                 ELSE IF diff > 0 THEN diff ELSE 0
        span  == byteSpan(x.c.nextSeq, first.seq, first.bytes)
        y     == appendRet(x, Reassembly(span.bytes, skip, FALSE, first.end))
    IN  [y EXCEPT !.c = [x.c EXCEPT !.nextSeq = span.next,
                                    !.list    = Tail(x.c.list),
                                    !.pages   = x.c.pages - 1],
                  !.used = x.used - 1]

\* insertIntoConn buffers a packet; at a limit it pops the first page.
insertIntoConn(x, p, ts) ==
    LET new  == pagesFromTCP(p, ts)
        list == x.c.list
        c    == [x.c EXCEPT
                    !.list  = pushBetween(list, traverseConn(list, p.seq), new),
                    !.pages = x.c.pages + Len(new)]
        y    == [x EXCEPT !.c = c, !.used = x.used + Len(new)]
    IN  IF \/ /\ MaxBufferedPagesPerConnection > 0
              /\ c.pages >= MaxBufferedPagesPerConnection
           \/ /\ MaxBufferedPagesTotal > 0
              /\ y.used >= MaxBufferedPagesTotal
        THEN addNextFromConn(y) ELSE y

\* The body of AssembleWithTimestamp between locking and sending.
assemblePacket(x, p, ts) ==
    LET span == byteSpan(x.c.nextSeq, p.seq, p.bytes)
    IN  IF x.c.nextSeq = invalidSequence /\ p.syn
        THEN [appendRet(x, Reassembly(p.bytes, 0, TRUE, FALSE)) EXCEPT
                 !.c = [x.c EXCEPT !.nextSeq = Add(p.seq, p.bytes.len + 1)]]
        ELSE IF \/ x.c.nextSeq = invalidSequence
                \/ Difference(x.c.nextSeq, p.seq) > 0
        THEN insertIntoConn(x, p, ts)
        ELSE [appendRet(x, Reassembly(span.bytes, 0, FALSE, p.end)) EXCEPT
                 !.c = [x.c EXCEPT !.nextSeq = span.next]]

\* Mutant: a page that starts where the stream is does not count.
ContiguousStrict(c) == c.list # <<>> /\ Difference(c.nextSeq, Head(c.list).seq) < 0

\* The loop condition of addContiguous.
Contiguous(c) == c.list # <<>> /\ Difference(c.nextSeq, Head(c.list).seq) <= 0

-----------------------------------------------------------------------------
NoOp == [kind |-> "none", t |-> 0, closeAll |-> FALSE, todo |-> {}]

Init ==
    /\ isn \in [Keys -> ISNs]
    /\ conns = [k \in Keys |-> NoConn]
    /\ streams = [k \in Keys |-> NewStream]
    /\ free = <<>> /\ used = 0 /\ ret = <<>>
    /\ pc = "idle" /\ op = NoOp /\ cur = NoKey
    /\ packets = 0 /\ flushes = 0

\* The locked connection of flow k and what goes with it, and back.
Working(k, c, s, r) == [c |-> c, s |-> s, ret |-> r, used |-> used]

Store(k, x) ==
    /\ conns'   = [conns EXCEPT ![k] = x.c]
    /\ streams' = [streams EXCEPT ![k] = x.s]
    /\ ret' = x.ret
    /\ used' = x.used

\* Mutant: the pages left in the connection are not given back.
closeConnectionKeepingPages(k, log) ==
    /\ conns'   = [conns EXCEPT ![k] = NoConn]
    /\ streams' = [streams EXCEPT ![k].log = log, ![k].complete = TRUE]
    /\ free' = Append(free, conns[k].lastSeen)
    /\ used' = used

\* closeConnection: the object goes back to the free list as it is, and the
\* pages left in it to the page cache.
closeConnection(k, log) ==
    /\ conns'   = [conns EXCEPT ![k] = NoConn]
    /\ streams' = [streams EXCEPT ![k].log = log, ![k].complete = TRUE]
    /\ free' = Append(free, conns[k].lastSeen)
    /\ used' = used - Len(conns[k].list)

\* AssembleWithTimestamp of a packet that neither starts a stream nor has
\* bytes, for a flow without a connection: getConnection returns nil.
AssembleNothing(k, p) ==
    /\ pc = "idle" /\ packets < MaxPackets
    /\ ~conns[k].open /\ ~p.syn /\ p.bytes.len = 0
    /\ packets' = packets + 1
    /\ ret' = <<>>
    /\ UNCHANGED <<isn, conns, free, used, pc, op, cur, streams, flushes>>

\* AssembleWithTimestamp up to sendToConnection, if there is anything to send.
AssembleWithTimestamp(k, p, ts) ==
    /\ pc = "idle" /\ packets < MaxPackets
    /\ conns[k].open \/ p.syn \/ p.bytes.len > 0
    /\ LET found == conns[k].open
           c0 == IF found THEN conns[k]
                 ELSE newConnection(IF free = <<>> THEN 0 ELSE free[Len(free)])
           c1 == [c0 EXCEPT !.lastSeen = IF @ < ts THEN ts ELSE @,
                            !.heard    = IF @ < ts THEN ts ELSE @]
           s0 == IF found THEN streams[k] ELSE NewStream
           s1 == [s0 EXCEPT !.got = @ \cup
                     {o \in p.bytes.from .. p.bytes.from + p.bytes.len - 1 :
                        o >= s0.pos}]
           x  == assemblePacket(Working(k, c1, s1, <<>>), p, ts)
       IN  /\ Store(k, x)
           /\ free' = IF found \/ free = <<>> THEN free
                      ELSE SubSeq(free, 1, Len(free) - 1)
           /\ IF x.ret = <<>>
              THEN UNCHANGED <<pc, op, cur>>
              ELSE /\ pc' = "send" /\ cur' = k
                   /\ op' = [NoOp EXCEPT !.kind = "assemble"]
    /\ packets' = packets + 1
    /\ UNCHANGED <<isn, flushes>>

\* One round of addContiguous, the start of sendToConnection.
AddContiguous ==
    /\ pc = "send" /\ Contiguous(conns[cur])
    /\ Store(cur, addNextFromConn(Working(cur, conns[cur], streams[cur], ret)))
    /\ UNCHANGED <<isn, free, pc, op, cur, packets, flushes>>

\* Mutant: the flush skips once per connection instead of in a loop.
SendToConnectionOnce ==
    /\ pc = "send" /\ ~Contiguous(conns[cur])
    /\ LET log == streams[cur].log \o ret
       IN  IF ret[Len(ret)].end
           THEN closeConnection(cur, log)
           ELSE /\ streams' = [streams EXCEPT ![cur].log = log]
                /\ UNCHANGED <<conns, free, used>>
    /\ cur' = NoKey
    /\ IF op.kind = "assemble"
       THEN pc' = "idle" /\ op' = NoOp
       ELSE pc' = "flush" /\ UNCHANGED op
    /\ UNCHANGED <<isn, ret, packets, flushes>>

\* The rest of sendToConnection: Reassembled(a.ret), and closeConnection if
\* the last Reassembly has End.  The handler that called goes on: a flush
\* loops, AssembleWithTimestamp unlocks and returns.
SendToConnection ==
    /\ pc = "send" /\ ~Contiguous(conns[cur])
    /\ LET log == streams[cur].log \o ret
       IN  IF ret[Len(ret)].end
           THEN closeConnection(cur, log)
           ELSE /\ streams' = [streams EXCEPT ![cur].log = log]
                /\ UNCHANGED <<conns, free, used>>
    /\ IF op.kind = "assemble"
       THEN pc' = "idle" /\ op' = NoOp /\ cur' = NoKey
       ELSE pc' = "flush" /\ UNCHANGED <<op, cur>>
    /\ UNCHANGED <<isn, ret, packets, flushes>>

\* FlushWithOptions and FlushAll take the list of open connections first.
FlushStart(kind, t, closeAll) ==
    /\ pc = "idle" /\ flushes < MaxFlushes
    /\ pc' = "flush"
    /\ op' = [kind |-> kind, t |-> t, closeAll |-> closeAll,
              todo |-> {k \in Keys : conns[k].open}]
    /\ flushes' = flushes + 1
    /\ UNCHANGED <<isn, conns, free, used, ret, cur, streams, packets>>

\* Mutant: the connection stays on the list.
FlushNextAgain(k) ==
    /\ pc = "flush" /\ cur = NoKey /\ k \in op.todo
    /\ cur' = k
    /\ UNCHANGED <<isn, conns, free, used, ret, pc, op, streams, packets, flushes>>

\* The next connection, in the random order of Go's map iteration.
FlushNext(k) ==
    /\ pc = "flush" /\ cur = NoKey /\ k \in op.todo
    /\ cur' = k
    /\ op' = [op EXCEPT !.todo = @ \ {k}]
    /\ UNCHANGED <<isn, conns, free, used, ret, pc, streams, packets, flushes>>

\* Mutant: with CloseAll set, the time of the last packet does not matter.
mustCloseAny(c) == c.list = <<>> /\ (op.kind = "flushAll" \/ op.closeAll)

\* Whether the flush loop calls skipFlush on a connection with a page, and
\* whether it closes one without.
mustSkip(c)  == c.list # <<>> /\ (op.kind = "flushAll" \/ Head(c.list).seen < op.t)
mustClose(c) == c.list = <<>> /\ ( \/ op.kind = "flushAll"
                                   \/ op.closeAll /\ c.lastSeen < op.t )

\* skipFlush of a connection with pages, up to sendToConnection.
SkipFlush ==
    /\ pc = "flush" /\ cur # NoKey
    /\ conns[cur].open /\ mustSkip(conns[cur])
    /\ Store(cur, addNextFromConn(Working(cur, conns[cur], streams[cur], <<>>)))
    /\ pc' = "send"
    /\ UNCHANGED <<isn, free, op, cur, packets, flushes>>

\* closeConnection of a drained connection, by skipFlush or FlushWithOptions.
FlushClose ==
    /\ pc = "flush" /\ cur # NoKey
    /\ conns[cur].open /\ mustClose(conns[cur])
    /\ closeConnection(cur, streams[cur].log)
    /\ cur' = NoKey
    /\ UNCHANGED <<isn, ret, pc, op, packets, flushes>>

\* The loop is done with the connection: closed, waiting or too young.
FlushLeave ==
    /\ pc = "flush" /\ cur # NoKey
    /\ conns[cur].open => ~mustSkip(conns[cur]) /\ ~mustClose(conns[cur])
    /\ cur' = NoKey
    /\ UNCHANGED <<isn, conns, free, used, ret, pc, op, streams, packets, flushes>>

FlushReturn ==
    /\ pc = "flush" /\ cur = NoKey /\ op.todo = {}
    /\ pc' = "idle" /\ op' = NoOp
    /\ UNCHANGED <<isn, conns, free, used, ret, cur, streams, packets, flushes>>

FlushWithOptions == \E t \in FlushTimes, all \in BOOLEAN :
                        FlushStart("flushOptions", t, all)
FlushAll == FlushStart("flushAll", 0, TRUE)

\* The steps of a handler that is running.
Step ==
    \/ AddContiguous \/ SendToConnection
    \/ \E k \in Keys : FlushNext(k)
    \/ SkipFlush \/ FlushClose \/ FlushLeave \/ FlushReturn

Next ==
    \/ \E k \in Keys : \E p \in Packets(k) :
          \/ AssembleNothing(k, p)
          \/ \E ts \in Times : AssembleWithTimestamp(k, p, ts)
    \/ FlushWithOptions \/ FlushAll
    \/ Step

\* A handler that has started goes on: the code never waits in it but for
\* the caller's Stream methods, which are taken to return.
Spec == Init /\ [][Next]_vars /\ WF_vars(Step)

-----------------------------------------------------------------------------
(***************************************************************************)
(* Properties                                                              *)
(***************************************************************************)

Bytes == [from : Nat, len : Nat]
Page  == [seq : Sequence, bytes : Bytes, end : BOOLEAN, syn : BOOLEAN, seen : Times]
Connection ==
    [open : BOOLEAN, nextSeq : Sequence \cup {invalidSequence}, list : Seq(Page),
     pages : Int, lastSeen : Times \cup {0}, heard : Times \cup {0}]
Told == [bytes : Bytes, skip : Int, start : BOOLEAN, end : BOOLEAN, at : Int]
Stream == [log : Seq(Told), pos : Int, complete : BOOLEAN, got : SUBSET Nat]

\* Every variable holds what the code's types and the handlers' control
\* allow: in particular a send is under way only with a non-empty a.ret and
\* an open connection.
TypeOK ==
    /\ isn \in [Keys -> ISNs]
    /\ conns \in [Keys -> Connection]
    /\ streams \in [Keys -> Stream]
    /\ free \in Seq(Times \cup {0})
    /\ used \in Int
    /\ ret \in Seq(Told)
    /\ pc \in {"idle", "send", "flush"}
    /\ op \in [kind : {"none", "assemble", "flushOptions", "flushAll"},
               t : FlushTimes \cup {0}, closeAll : BOOLEAN, todo : SUBSET Keys]
    /\ cur \in Keys \cup {NoKey}
    /\ packets \in Nat /\ flushes \in Nat
    /\ pc = "idle" => cur = NoKey
    /\ pc = "send" => cur \in Keys /\ conns[cur].open /\ ret # <<>>

\* The bytes of a Reassembly are those a reader expects who starts at a
\* Start, or wherever an unknown Skip leads, and moves by every Skip and
\* every length since ("presented in the order they appear in the TCP
\* stream", and Skip "set to the number of bytes skipped"): nothing is
\* repeated, nothing is missing without a Skip saying so.
wellPlaced(rs) == \A i \in DOMAIN rs :
                     rs[i].bytes.len > 0 => rs[i].bytes.from = rs[i].at
InOrder == /\ \A k \in Keys : wellPlaced(streams[k].log)
           /\ wellPlaced(ret)

\* Between handlers no open connection holds a first page that could be
\* delivered: the panic("wtf") of insertIntoConn is out of reach.
HeadBlocked ==
    pc = "idle" => \A k \in Keys :
        conns[k].list # <<>> /\ conns[k].nextSeq # invalidSequence
            => Difference(conns[k].nextSeq, Head(conns[k].list).seq) > 0

\* The pages in all lists.
BufferedPages == UNION {{k} \X DOMAIN conns[k].list : k \in Keys}

\* A connection's page count is the length of its list, and the cache's used
\* count the pages in all lists: neither drifts, so the limits stay meaningful.
PageAccounting ==
    /\ \A k \in Keys : conns[k].pages = Len(conns[k].list)
    /\ used = Cardinality(BufferedPages)

offsets(b) == b.from .. b.from + b.len - 1
Buffered(k)  == UNION {offsets(conns[k].list[i].bytes) : i \in DOMAIN conns[k].list}
Delivered(k) == UNION {offsets(streams[k].log[i].bytes) : i \in DOMAIN streams[k].log}

\* A byte that arrives before the reader is past it is delivered or still
\* buffered for as long as the stream is open, however pages of overlapping
\* packets end up ordered in the list.
NoByteLost ==
    pc = "idle" => \A k \in Keys :
        conns[k].open => streams[k].got \subseteq Delivered(k) \cup Buffered(k)

\* The counters that the limits are compared with do not drift
\* (PageAccounting), and where no packet needs more than one page the two
\* limits bound what is buffered once a handler is done.
BufferLimits ==
    /\ PageAccounting
    /\ pc = "idle" /\ MaxLen <= PageBytes /\ SynLen <= PageBytes =>
        /\ MaxBufferedPagesPerConnection > 0 =>
              \A k \in Keys : Len(conns[k].list) < MaxBufferedPagesPerConnection
        /\ MaxBufferedPagesTotal > 0 => used < MaxBufferedPagesTotal

\* When FlushOlderThan(t) returns, no connection waits for bytes with a first
\* page older than t, whatever the pages behind the ones it skipped to were;
\* when FlushAll returns, no connection and no page is left.
FlushLeavesNothingOld ==
    [][FlushReturn => \A k \in Keys :
          IF op.kind = "flushAll" THEN ~conns[k].open /\ used = 0
          ELSE conns[k].list # <<>> => Head(conns[k].list).seen >= op.t]_vars

\* FlushWithOptions closes a connection for one of two reasons only: CloseAll is
\* set, and the connection is drained and was passed no packet since t, in
\* whatever order of their times the packets came and whichever object it got
\* from the pool; or what the flush pushed to its stream ends with the FIN or RST
\* of an old page, however new the connection's other packets are (skipFlush).
FlushSparesActive ==
    [][\A k \in Keys :
          op.kind = "flushOptions" /\ conns[k].open /\ ~conns'[k].open =>
              \/ op.closeAll /\ conns[k].list = <<>> /\ conns[k].heard < op.t
              \/ ret # <<>> /\ ret[Len(ret)].end /\ streams'[k].log = streams[k].log \o ret]_vars

\* Every handler comes to its end: the loops of addContiguous, of
\* FlushWithOptions and of FlushAll (for !conn.closed) all run out.
HandlersReturn == []<>(pc = "idle")
=============================================================================
