----------------------------- MODULE Reassembly -----------------------------
(***************************************************************************)
(* reassembly/tcpassembly.go: an Assembler with one bidirectional          *)
(* connection.  Packets of both directions arrive in any order, repeated   *)
(* and cut anew; the Stream is told what is contiguous as a ScatterGather, *)
(* of which it may keep a part, and is completed when both halves closed.  *)
(* Statistics, acknowledgements and logging are left out.                  *)
(*                                                                         *)
(* A byte is its offset 1..Length[d] in what direction d sends; the SYN is *)
(* at offset 0 and the FIN at Length[d] + 1.                               *)
(***************************************************************************)
EXTENDS Integers, Sequences, SequencesExt, FiniteSets, FiniteSetsExt

CONSTANTS
    Length,     \* Length[d]: how many bytes d sends
    ISN,        \* ISN[d]: its initial sequence number
    uint32Max,  \* the largest sequence number
    MaxLen,     \* bound: bytes in a packet
    pageBytes,  \* bytes in a page
    Options,    \* the limits of an Assembler: [conn, total], 0 for none
    FinsWithLimit,  \* whether there are FINs although there is a limit
    ForceStart, \* whether the Stream may force a start
    Keeps,      \* offsets that the Stream may pass to KeepFrom; -1: no call
    Times,      \* timestamps of packets and flushes
    Resets,     \* whether there are RST packets
    MaxSaved    \* bound: SYNs are not repeated once that many pages are saved

Dirs == {"s2c", "c2s"}

ASSUME ReassemblyAssumption ==
    /\ Keeps \subseteq Nat \cup {-1}
    /\ \A d \in Dirs : Length[d] \in Nat /\ ISN[d] \in 0..uint32Max
    /\ {uint32Max, MaxLen, pageBytes} \subseteq Nat \ {0}
    /\ {Resets, FinsWithLimit, ForceStart} \subseteq BOOLEAN
    /\ Times \subseteq Nat /\ \E last \in Times : \A t \in Times : t <= last

VARIABLES
    half,       \* half[d]: the halfconnection of d, with the bytes that came in
                \* (recv), the offset that the Stream waits for (upTo, or None)
                \* and the bytes that it told us to keep (asked)
    used,       \* a.pc.used
    limit,      \* AssemblerOptions
    sg,         \* a.cacheSG while the Stream looks at it
    flush,      \* the running flush: its times and the halves to do
    inPool,     \* the connection is in the StreamPool
    completed   \* how often the Stream was completed

vars == <<half, used, limit, sg, flush, inPool, completed>>

-----------------------------------------------------------------------------
(* Sequence numbers, pages and packets.                                    *)

invalidSequence == -1
None == -1

Difference(s, t) ==
    LET quarter == uint32Max \div 4 IN
    IF s > uint32Max - quarter /\ t < quarter THEN t + uint32Max - s
    ELSE IF t > uint32Max - quarter /\ s < quarter THEN t - (s + uint32Max)
    ELSE t - s

Add(s, n) == (s + n) % (uint32Max + 1)

Container(seq, bytes, end, seen, live) ==
    [seq |-> seq, bytes |-> bytes, end |-> end, seen |-> seen, live |-> live]

End(p) == Add(p.seq, Len(p.bytes))
Bytes(pages) == FlattenSeq([i \in DOMAIN pages |-> pages[i].bytes])

\* What the network may bring: the SYN, any part of the data, with the FIN
\* behind it or not, and resets.
Packets ==
    [d \in Dirs |->
        LET P(from, len, syn, fin, rst) ==
                [seq |-> Add(ISN[d], from), bytes |-> [i \in 1..len |-> from + i - 1],
                 syn |-> syn, fin |-> fin, rst |-> rst]
            last == Length[d] + 1
        IN  {P(0, 0, TRUE, FALSE, FALSE)}
            \cup {P(x[1], x[2], FALSE, FALSE, FALSE) :
                    x \in {y \in (1..last) \X (0..MaxLen) : y[1] + y[2] <= last}}
            \cup {P(last - len, len, FALSE, TRUE, FALSE) : len \in 0..Min({MaxLen, Length[d]})}
            \cup {P(from, 0, FALSE, FALSE, Resets) : from \in 1..last}]

\* livePacket.convertToPages.  Only the last page gets end; a page from the pool
\* has the end of its earlier use, which is stale.
convertToPages(c, stale) ==
    LET n == IF c.bytes = <<>> THEN 1 ELSE (Len(c.bytes) + pageBytes - 1) \div pageBytes IN
    [i \in 1..n |->
        Container(Add(c.seq, (i - 1) * pageBytes),
                  SubSeq(c.bytes, (i - 1) * pageBytes + 1, Min({i * pageBytes, Len(c.bytes)})),
                  IF i = n THEN c.end ELSE stale, c.seen, FALSE)]

-----------------------------------------------------------------------------
(* checkOverlap of a packet from s to e with the queued pages.             *)

Behind(p, e) == Difference(e, p.seq) > 0                                  \* 5
Before(p, s, e) == ~Behind(p, e) /\ Difference(s, End(p)) <= 0            \* 1
Meets(p, s, e) == ~Behind(p, e) /\ ~Before(p, s, e)

\* Mutant: a page is dropped though its first bytes are not in the packet.
CoveredEnd(p, s, e) == Meets(p, s, e) /\ Difference(e, End(p)) <= 0

Covered(p, s, e) ==                                                       \* 3
    Meets(p, s, e) /\ Difference(e, End(p)) <= 0 /\ Difference(s, p.seq) >= 0
LosesEnd(p, s, e) ==                                                      \* 2
    Meets(p, s, e) /\ ~Covered(p, s, e) /\ Difference(e, End(p)) < 0
LosesStart(p, s, e) ==                                                    \* 4
    /\ Meets(p, s, e) /\ ~Covered(p, s, e) /\ ~LosesEnd(p, s, e)
    /\ Difference(s, p.seq) > 0 /\ Difference(e, p.seq) < 0
Surrounds(p, s, e) ==                                                     \* 6
    /\ Meets(p, s, e) /\ ~Covered(p, s, e) /\ ~LosesEnd(p, s, e) /\ ~LosesStart(p, s, e)
    /\ Difference(e, End(p)) >= 0 /\ Difference(s, p.seq) <= 0

CutEnd(p, s) == [p EXCEPT !.bytes = SubSeq(@, 1, -Difference(s, p.seq))]

CutStart(p, e) ==
    LET n == -Difference(e, p.seq) IN
    [p EXCEPT !.bytes = SubSeq(@, n + 1, Len(@)), !.seq = Add(@, n)]

\* The list is walked from its end up to a page that is before the packet or
\* overlaps its start.  The result: what is left of the pages before and behind
\* the packet, how many were dropped, and whether the packet lies in a page.
checkOverlap(queue, s, e) ==
    LET stop == Max({0} \cup {i \in DOMAIN queue :
                                Before(queue[i], s, e) \/ LosesEnd(queue[i], s, e)})
        Left(i) == IF i = stop /\ LosesEnd(queue[i], s, e) THEN CutEnd(queue[i], s)
                   ELSE IF i > stop /\ LosesStart(queue[i], s, e) THEN CutStart(queue[i], e)
                   ELSE queue[i]
        \* of the last n pages
        left[n \in 0..(Len(queue) - stop)] ==
            IF n = 0 THEN <<>>
            ELSE LET i == Len(queue) + 1 - n IN
                 IF Covered(queue[i], s, e) THEN left[n - 1] ELSE <<Left(i)>> \o left[n - 1]
        behind == left[Len(queue) - stop]
    IN  [before |-> [i \in 1..stop |-> Left(i)],
         behind |-> behind,
         dropped |-> Len(queue) - stop - Len(behind),
         inside |-> \E i \in (stop + 1)..Len(queue) : Surrounds(queue[i], s, e)]

\* Mutant: the bytes that were sent already are sent again.
overlapExistingUncut(h, c) ==
    IF h.nextSeq = invalidSequence THEN c ELSE [c EXCEPT !.seq = h.nextSeq]

\* overlapExisting: what was sent already is cut off a packet.
overlapExisting(h, c) ==
    LET diff == IF h.nextSeq = invalidSequence THEN 0 ELSE Difference(c.seq, h.nextSeq) IN
    IF diff = 0 THEN c
    ELSE [c EXCEPT !.bytes = SubSeq(@, diff + 1, Len(@)), !.seq = h.nextSeq]

-----------------------------------------------------------------------------
NewHalf == [nextSeq |-> invalidSequence, queue |-> <<>>, saved |-> <<>>,
            pages |-> 0, closed |-> FALSE, lastSeen |-> 0,
            recv |-> {}, upTo |-> None, asked |-> <<>>]
NoSG == [all |-> <<>>]
NoFlush == [todo |-> <<>>]

Init ==
    /\ half = [d \in Dirs |-> NewHalf]
    /\ used = 0 /\ limit \in Options
    /\ sg = NoSG /\ flush = NoFlush
    /\ inPool = TRUE /\ completed = 0

\* Mutant: only the first of the saved pages is looked at.
addPendingFirst(h, seq) ==
    IF h.saved # <<>> /\ End(h.saved[1]) = seq THEN h.saved ELSE <<>>

\* addPending: the saved pages, unless there is a gap behind them.
addPending(h, seq) ==
    IF h.saved # <<>> /\ Add(h.saved[1].seq, Len(Bytes(h.saved))) = seq THEN h.saved ELSE <<>>

\* addContiguous: the pages that follow on last without a gap.
Follows(queue, last, i) ==
    Difference(Add(last, Len(Bytes(SubSeq(queue, 1, i - 1)))), queue[i].seq) = 0

\* Mutant: only one page is taken.
addContiguousOne(queue, last) ==
    IF queue # <<>> /\ Follows(queue, last, 1) THEN <<queue[1]>> ELSE <<>>

addContiguous(queue, last) ==
    LET n == Max({k \in 0..Len(queue) : \A i \in 1..k : Follows(queue, last, i)})
    IN  SubSeq(queue, 1, n)

\* buildSG: what was saved goes in front, what is contiguous behind.
buildSG(d, h, u, c, fin) ==
    LET saved == addPending(h, c.seq)
        contiguous == addContiguous(h.queue, End(c))
    IN  /\ sg' = [dir |-> d, fin |-> fin, saved |-> Bytes(saved),
                  all |-> saved \o <<c>> \o contiguous,
                  skip |-> IF h.nextSeq = invalidSequence THEN -1
                           ELSE Difference(h.nextSeq, c.seq),
                  nextSeq |-> Add(End(c), Len(Bytes(contiguous)))]
        /\ half' = [half EXCEPT ![d] = [h EXCEPT !.queue = SubSeq(@, Len(contiguous) + 1, Len(@)),
                                                 !.saved = saved]]
        /\ used' = u - (Len(h.saved) - Len(saved))

\* closeHalfConnection: the loop returns the first page only.  Of a closed half
\* only lastSeen is looked at again.
closeHalfConnection(d, h, u) ==
    /\ half' = [half EXCEPT ![d] = [NewHalf EXCEPT !.closed = TRUE, !.lastSeen = h.lastSeen]]
    /\ used' = IF h.queue # <<>> THEN u - 1 ELSE u
    /\ IF \A o \in Dirs \ {d} : half[o].closed
       THEN /\ completed' = completed + 1
            /\ inPool' \in {inPool, FALSE}
       ELSE UNCHANGED <<completed, inPool>>

-----------------------------------------------------------------------------
(* AssembleWithContext.                                                    *)

Seen(h, t, bytes) ==
    [h EXCEPT !.lastSeen = Max({@, t}), !.recv = @ \cup Range(bytes)]

\* The Stream does not accept the packet, or the half is closed.
Ignore(d, t) ==
    /\ inPool /\ sg = NoSG /\ flush = NoFlush
    /\ half' = [half EXCEPT ![d] = Seen(@, t, <<>>)]
    /\ UNCHANGED <<used, limit, sg, flush, inPool, completed>>

Live(seq, p, t) == Container(seq, p.bytes, p.fin \/ p.rst, t, TRUE)

Accepted(d, p) ==
    /\ inPool /\ sg = NoSG /\ flush = NoFlush /\ ~half[d].closed
    /\ p.fin => FinsWithLimit \/ (limit.conn = 0 /\ limit.total = 0)
    /\ p.syn => Len(half[d].saved) <= MaxSaved

Ahead(d, p, start) ==
    IF half[d].nextSeq = invalidSequence THEN ~p.syn /\ ~start
    ELSE Difference(half[d].nextSeq, p.seq) > 0

\* The packet is ahead of what we wait for, or we wait for the start: it is
\* stored, and when the limit is reached the first page is sent.
Queue(d, p, t, stale) ==
    /\ Accepted(d, p) /\ Ahead(d, p, FALSE)
    /\ LET h == Seen(half[d], t, p.bytes)
           over == checkOverlap(h.queue, p.seq, Add(p.seq, Len(p.bytes)))
           new == IF p.bytes = <<>> \/ over.inside THEN <<>>
                  ELSE convertToPages(Live(p.seq, p, t), stale)
           queue == over.before \o new \o over.behind
           more == Len(new) - over.dropped
           stored == [h EXCEPT !.queue = queue, !.pages = @ + more]
           full == \/ limit.conn > 0 /\ stored.pages >= limit.conn
                   \/ limit.total > 0 /\ used + more >= limit.total
       IN  IF full /\ queue # <<>>
           THEN buildSG(d, [stored EXCEPT !.queue = Tail(@)], used + more, Head(queue), p.fin)
           ELSE /\ half' = [half EXCEPT ![d] = stored]
                /\ used' = used + more
                /\ UNCHANGED sg
    /\ UNCHANGED <<limit, flush, inPool, completed>>

\* The start of the half, or bytes up to which nothing is missing.  A Stream
\* forces the start with the first packet it sees.
Deliver(d, p, t, start) ==
    /\ Accepted(d, p) /\ ~Ahead(d, p, start)
    /\ start => half[d].queue = <<>>
    /\ LET first == half[d].nextSeq = invalidSequence
           seq == IF first /\ p.syn THEN Add(p.seq, 1) ELSE p.seq
           h == [Seen(half[d], t, p.bytes) EXCEPT
                    !.nextSeq = IF first THEN seq ELSE @,
                    !.upTo = IF first THEN (seq - ISN[d]) % (uint32Max + 1) ELSE @]
           lp == overlapExisting(h, Live(seq, p, t))
           over == checkOverlap(h.queue, lp.seq, End(lp))
           c == IF over.inside THEN [lp EXCEPT !.bytes = <<>>] ELSE lp
           rest == [h EXCEPT !.queue = over.before \o over.behind,
                             !.pages = @ - over.dropped]
       IN  IF c.bytes # <<>> \/ c.end \/ p.syn
           THEN buildSG(d, rest, used - over.dropped, c, p.fin)
           ELSE /\ half' = [half EXCEPT ![d] = rest]
                /\ used' = used - over.dropped
                /\ UNCHANGED sg
    /\ UNCHANGED <<limit, flush, inPool, completed>>

-----------------------------------------------------------------------------
(* The Stream's ReassembledSG returns, and sendToConnection goes on.       *)

\* Mutant: a live packet is taken for a page.
PagesAll(all) == Len(all)

Pages(all) == Cardinality({i \in DOMAIN all : ~all[i].live})

\* cleanSG: the containers from the one that holds byte number keep on are kept.
\* skip is not taken off behind a live packet.
Kept(all, keep, stale) ==
    LET upToNo(i) == Len(Bytes(SubSeq(all, 1, i)))
        found == {i \in DOMAIN all : keep < upToNo(i)}
        ndx == IF keep < 0 \/ found = {} THEN Len(all) + 1 ELSE Min(found)
        skip(i) == IF i = ndx \/ (i = ndx + 1 /\ all[ndx].live) THEN keep - upToNo(ndx - 1) ELSE 0
        cut(i) == [all[i] EXCEPT !.bytes = SubSeq(@, skip(i) + 1, Len(@)), !.seq = Add(@, skip(i))]
        pages(i) == IF all[i].live THEN convertToPages(cut(i), stale) ELSE <<cut(i)>>
    IN  [from |-> ndx, new |-> FlattenSeq([i \in 1..(Len(all) + 1 - ndx) |-> pages(ndx + i - 1)])]

CleanSG(keep, stale) ==
    /\ sg # NoSG /\ sg' = NoSG
    /\ LET d == sg.dir
           kept == Kept(sg.all, keep, stale)
           freed == Pages(SubSeq(sg.all, 1, kept.from - 1))
           wasPages == Pages(SubSeq(sg.all, kept.from, Len(sg.all)))
           u == used - freed + Len(kept.new) - wasPages
           bytes == Bytes(sg.all)
           h == [half[d] EXCEPT
                    !.saved = kept.new, !.pages = @ - freed,
                    !.nextSeq = IF sg.fin THEN Add(sg.nextSeq, 1) ELSE sg.nextSeq,
                    !.upTo = IF Len(bytes) > Len(sg.saved) THEN Last(bytes) + 1 ELSE @,
                    !.asked = IF keep < 0 THEN <<>> ELSE SubSeq(bytes, keep + 1, Len(bytes))]
       IN  IF Last(sg.all).end THEN closeHalfConnection(d, h, u)
           ELSE /\ half' = [half EXCEPT ![d] = h] /\ used' = u
                /\ UNCHANGED <<completed, inPool>>
    /\ UNCHANGED <<limit, flush>>

-----------------------------------------------------------------------------
(* FlushWithOptions and FlushAll, which loop over the two halves.          *)

Forever == Max(Times) + 2

StartFlush(t, tc) ==
    /\ inPool /\ sg = NoSG /\ flush = NoFlush
    /\ flush' = [todo |-> <<"s2c", "c2s">>, t |-> t, tc |-> tc]
    /\ UNCHANGED <<half, used, limit, sg, inPool, completed>>

FlushWithOptions(t, tc) == StartFlush(t, tc)
FlushAll == StartFlush(Forever, Forever)

InFlush(d) == sg = NoSG /\ flush # NoFlush /\ flush.todo # <<>> /\ Head(flush.todo) = d

\* Mutant: a half is left when its first page was sent.
SkipFlushOnce(d) ==
    /\ InFlush(d) /\ ~half[d].closed
    /\ half[d].queue # <<>> /\ Head(half[d].queue).seen < flush.t
    /\ buildSG(d, [half[d] EXCEPT !.queue = Tail(@)], used, Head(half[d].queue), FALSE)
    /\ flush' = [flush EXCEPT !.todo = Tail(@)]
    /\ UNCHANGED <<limit, inPool, completed>>

\* skipFlush sends the first page and what is contiguous.
SkipFlush(d) ==
    /\ InFlush(d) /\ ~half[d].closed
    /\ half[d].queue # <<>> /\ Head(half[d].queue).seen < flush.t
    /\ buildSG(d, [half[d] EXCEPT !.queue = Tail(@)], used, Head(half[d].queue), FALSE)
    /\ UNCHANGED <<limit, flush, inPool, completed>>

LastSeen == Max({half[d].lastSeen : d \in Dirs})

MustClose(d) == half[d].queue = <<>> /\ LastSeen < flush.tc

FlushClose(d) ==
    /\ InFlush(d) /\ ~half[d].closed /\ MustClose(d)
    /\ closeHalfConnection(d, half[d], used)
    /\ flush' = [flush EXCEPT !.todo = Tail(@)]
    /\ UNCHANGED <<limit, sg>>

FlushLeave(d) ==
    /\ InFlush(d)
    /\ \/ half[d].closed
       \/ half[d].queue # <<>> /\ Head(half[d].queue).seen >= flush.t
       \/ half[d].queue = <<>> /\ ~MustClose(d)
    /\ flush' = [flush EXCEPT !.todo = Tail(@)]
    /\ UNCHANGED <<half, used, limit, sg, inPool, completed>>

\* FlushWithOptions removes a connection whose halves are closed; FlushAll does
\* not.
FlushReturn ==
    /\ flush # NoFlush /\ flush.todo = <<>> /\ flush' = NoFlush
    /\ inPool' = (inPool /\ ~(/\ flush.tc # Forever /\ \A d \in Dirs : half[d].closed
                              /\ LastSeen < flush.tc))
    /\ UNCHANGED <<half, used, limit, sg, completed>>

FlushStep == FlushReturn \/ \E d \in Dirs : SkipFlush(d) \/ FlushClose(d) \/ FlushLeave(d)

\* The time of a packet: within a connection it does not go back.
Now == {t \in Times : t >= LastSeen}

Next ==
    \/ \E d \in Dirs, t \in Now : Ignore(d, t)
    \/ \E d \in Dirs, t \in Now, stale \in BOOLEAN : \E p \in Packets[d] : Queue(d, p, t, stale)
    \/ \E d \in Dirs, t \in Now, start \in {FALSE, ForceStart} : \E p \in Packets[d] :
            Deliver(d, p, t, start)
    \/ \E keep \in Keeps, stale \in BOOLEAN : CleanSG(keep, stale)
    \/ \E t \in Times \cup {Max(Times) + 1} : \E tc \in {0, t} : FlushWithOptions(t, tc)
    \/ FlushAll
    \/ FlushStep

Spec == Init /\ [][Next]_vars

-----------------------------------------------------------------------------
Fresh == SubSeq(Bytes(sg.all), Len(sg.saved) + 1, Len(Bytes(sg.all)))

\* The Stream is told the bytes of each direction in order and once; a skip is
\* exactly what is missing, and nothing that came in is skipped (buildSG).
InOrder ==
    sg # NoSG /\ Fresh # <<>> =>
        LET h == half[sg.dir]
            from == IF h.upTo = None THEN 1 ELSE h.upTo
        IN
        /\ \A i \in 1..(Len(Fresh) - 1) : Fresh[i + 1] = Fresh[i] + 1
        /\ sg.skip # -1 => Fresh[1] = from + sg.skip
        /\ h.recv \cap (from..(Fresh[1] - 1)) = {}

\* What the Stream told the Assembler to keep is in front of the next bytes,
\* unless there is a gap between them (cleanSG, addPending).
SavedAgain ==
    sg # NoSG => \/ sg.saved = half[sg.dir].asked
                 \/ sg.saved = <<>> /\ sg.skip # 0

\* Once a half has started, its queued pages are behind a gap, in order and
\* without overlaps: nothing waits that could be told (addContiguous).
HeadBlocked ==
    sg = NoSG => \A d \in Dirs : LET h == half[d] IN
        /\ h.nextSeq # invalidSequence /\ h.queue # <<>> =>
              Difference(h.nextSeq, h.queue[1].seq) > 0
        /\ \A i \in 1..(Len(h.queue) - 1) :
              Difference(End(h.queue[i]), h.queue[i + 1].seq) >= 0

\* A byte that came in is told or queued until its half is closed, whatever
\* overlaps it (checkOverlap), and what is queued is blocked.
NoByteLost ==
    sg = NoSG =>
        /\ HeadBlocked
        /\ \A d \in Dirs : \A o \in half[d].recv :
            \/ half[d].upTo # None /\ o < half[d].upTo
            \/ o \in Range(Bytes(half[d].queue))

\* pc.used never counts fewer pages than the open halves hold, so that the
\* limit on the total cannot be outrun (pageCache, cleanSG, addPending).
UsedCovers ==
    sg = NoSG => used >= Len(half["s2c"].queue) + Len(half["s2c"].saved)
                            + Len(half["c2s"].queue) + Len(half["c2s"].saved)

\* The Stream is completed when the second half closes, and once, whether the
\* halves close by FIN, RST or flush (closeHalfConnection).
CompletedOnce == completed = IF \A d \in Dirs : half[d].closed THEN 1 ELSE 0

\* A packet ends a half only if it is a reset or brings the last byte or FIN:
\* a page that has kept the end of an earlier use never does (convertToPages).
\* And the Stream is completed once.
EndIsEnd ==
    /\ sg # NoSG /\ Last(sg.all).end =>
        \/ sg.nextSeq = Add(ISN[sg.dir], Length[sg.dir] + 1)
        \/ Last(sg.all).live /\ ~sg.fin
    /\ CompletedOnce

\* A flush leaves no half whose first queued page is older than its time, and
\* closes the halves of a connection that is idle and has none; FlushAll closes
\* both (flushClose, skipFlush).
FlushLeavesNothingOld ==
    flush # NoFlush /\ flush.todo = <<>> => \A d \in Dirs :
        \/ half[d].closed
        \/ half[d].queue = <<>> /\ LastSeen >= flush.tc
        \/ half[d].queue # <<>> /\ Head(half[d].queue).seen >= flush.t /\ flush.t # Forever
=============================================================================
