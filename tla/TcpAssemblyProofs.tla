------------------------- MODULE TcpAssemblyProofs -------------------------
(***************************************************************************)
(* Proofs about TcpAssembly.  Where SYN packets carry no data and a flow   *)
(* is not reused, an Assembler passes every stream its bytes in order and  *)
(* every Skip is exact, for any number of flows, any packets, flushes and  *)
(* limits, and any sequence space at least four times as large as what a   *)
(* connection sends, and no byte that arrived in time is lost.  For any    *)
(* packets at all, with data in SYNs and reused flows, its page counts are *)
(* right, the limits on them hold, no page that could be delivered waits,  *)
(* and a flush leaves nothing old behind and closes nothing active.        *)
(* First, what Difference and Add compute on numbers that lie within one   *)
(* quarter of the sequence space, wherever it wraps.                       *)
(***************************************************************************)
EXTENDS TcpAssembly, WellFoundedInduction, SequenceTheorems, FiniteSetTheorems, TLAPS

\* Sequence.Add wraps at most once for an addend below the sequence space.
LEMMA AddWraps ==
    ASSUME NEW s \in Sequence, NEW n \in 0 .. SeqSpace - 1
    PROVE  /\ Add(s, n) = IF s + n < SeqSpace THEN s + n ELSE s + n - SeqSpace
           /\ Add(s, n) \in Sequence
  <1>1. Add(s, n) = IF s + n < SeqSpace THEN s + n ELSE s + n - SeqSpace
    BY QuarterAssumption DEF Sequence, SeqSpace, Add
  <1> QED BY <1>1, QuarterAssumption DEF Sequence, SeqSpace

\* The distance between two positions of a stream that are less than a
\* quarter of the sequence space from its start is the distance of their
\* sequence numbers, on both sides of a wrap.
THEOREM DifferenceIsDistance ==
    ASSUME NEW s \in Sequence, NEW a \in 0 .. Quarter - 1, NEW b \in 0 .. Quarter - 1
    PROVE  Difference(Add(s, a), Add(s, b)) = b - a
  <1>1. a \in 0 .. SeqSpace - 1 /\ b \in 0 .. SeqSpace - 1
    BY QuarterAssumption DEF SeqSpace
  <1>2. /\ Add(s, a) = IF s + a < SeqSpace THEN s + a ELSE s + a - SeqSpace
        /\ Add(s, b) = IF s + b < SeqSpace THEN s + b ELSE s + b - SeqSpace
    BY <1>1, AddWraps
  <1> QED BY <1>2, QuarterAssumption DEF Sequence, SeqSpace, Difference

\* Moving in two steps is moving by their sum.
LEMMA AddAdd ==
    ASSUME NEW s \in Sequence, NEW a \in Nat, NEW b \in Nat, a + b < Quarter
    PROVE  Add(Add(s, a), b) = Add(s, a + b)
  <1>1. /\ a \in 0 .. SeqSpace - 1 /\ b \in 0 .. SeqSpace - 1
        /\ a + b \in 0 .. SeqSpace - 1
    BY QuarterAssumption DEF SeqSpace
  <1>2. /\ Add(s, a) = IF s + a < SeqSpace THEN s + a ELSE s + a - SeqSpace
        /\ Add(s, a) \in Sequence
        /\ Add(s, a + b) = IF s + (a + b) < SeqSpace
                           THEN s + (a + b) ELSE s + (a + b) - SeqSpace
    BY <1>1, AddWraps
  <1>3. Add(Add(s, a), b) = IF Add(s, a) + b < SeqSpace
                            THEN Add(s, a) + b ELSE Add(s, a) + b - SeqSpace
    BY <1>1, <1>2, AddWraps
  <1> QED BY <1>2, <1>3, QuarterAssumption DEF Sequence, SeqSpace

\* Difference is antisymmetric on all of the sequence space.
THEOREM DifferenceAntisymmetric ==
    ASSUME NEW s \in Sequence, NEW t \in Sequence
    PROVE  Difference(s, t) = -Difference(t, s)
  BY QuarterAssumption DEF Sequence, SeqSpace, Difference

-----------------------------------------------------------------------------
\* The page traverseConn stops at is in the list, or there is none; it is not
\* after seq, and every page behind it is.
LEMMA TraverseInList ==
    ASSUME NEW list, NEW n \in Nat, DOMAIN list = 1 .. n, NEW seq
    PROVE  /\ traverseConn(list, seq) \in 0 .. n
           /\ traverseConn(list, seq) # 0 =>
                Difference(list[traverseConn(list, seq)].seq, seq) >= 0
           /\ \A j \in 1 .. n : j > traverseConn(list, seq) =>
                ~(Difference(list[j].seq, seq) >= 0)
  <1> DEFINE S == {0} \cup {i \in DOMAIN list : Difference(list[i].seq, seq) >= 0}
             T == {n - i : i \in S}
             R == OpToRel(<, Nat)
  <1>1. S \subseteq 0 .. n /\ 0 \in S
    OBVIOUS
  <1>2. T \subseteq Nat /\ T # {}
    BY <1>1
  <1>3. IsWellFoundedOn(R, Nat)
    BY NatLessThanWellFounded
  <1>4. PICK x \in T : \A y \in T : x <= y
    <2> HIDE DEF R, T
    <2>1. PICK x \in T : \A y \in T : ~(<<y, x>> \in R)
      BY <1>2, <1>3, WFMin
    <2>2. \A y \in T : ~(y < x)
      BY <1>2, <2>1 DEF R, OpToRel
    <2> QED BY <1>2, <2>2
  <1>5. PICK m \in S : x = n - m
    BY <1>4
  <1>6. \A i \in S : m >= i
    <2> TAKE i \in S
    <2>1. n - i \in T
      OBVIOUS
    <2> HIDE DEF S, T
    <2> QED BY <1>1, <1>4, <1>5, <2>1
  <1>7. Max(S) \in S /\ \A i \in S : Max(S) >= i
    BY <1>6 DEF Max
  <1>8. traverseConn(list, seq) = Max(S)
    BY DEF traverseConn
  <1>9. ASSUME NEW j \in 1 .. n, j > Max(S)
        PROVE  ~(Difference(list[j].seq, seq) >= 0)
    <2>1. j \notin S
      <3> HIDE DEF S
      <3>a. PICK t : t = Max(S)
        OBVIOUS
      <3>b. t \in S
        BY <1>7, <3>a
      <3>1. t \in Int /\ t = Max(S)
        BY <1>1, <3>a, <3>b
      <3>2. \A i \in S : t >= i
        BY <1>7, <3>1
      <3> QED BY <1>9, <3>1, <3>2
    <2> QED BY <2>1
  <1> QED BY <1>1, <1>7, <1>8, <1>9

\* A page starts inside the payload it is copied from.
LEMMA PageInside ==
    ASSUME NEW len \in Nat \ {0}, NEW pb \in Nat \ {0},
           NEW i \in 1 .. (len + pb - 1) \div pb
    PROVE  (i - 1) * pb \in 0 .. len - 1
  <1> DEFINE q == (len + pb - 1) \div pb
  <1>1. q \in Nat /\ q * pb <= len + pb - 1
    OBVIOUS
  <1> HIDE DEF q
  <1>2. i \in Nat /\ 1 <= i /\ i <= q
    BY <1>1 DEF q
  <1>3. (i - 1) * pb <= (q - 1) * pb
    BY <1>1, <1>2
  <1>4. (q - 1) * pb = q * pb - pb
    BY <1>1
  <1>5. (i - 1) * pb \in Nat
    BY <1>2
  <1> QED BY <1>1, <1>3, <1>4, <1>5

-----------------------------------------------------------------------------
\* The inductive invariant: the number a connection expects next is that of
\* its reader's position, and every buffered page is numbered as the piece
\* of the sender's stream it holds.

InStep(i, c, s) ==
    c.nextSeq # invalidSequence =>
        s.pos \in 0 .. StreamLen /\ c.nextSeq = Add(i, s.pos + 1)

Numbered(i, p) ==
    /\ p.bytes.from + p.bytes.len <= StreamLen
    /\ p.seq = Add(i, p.bytes.from + 1)

AllNumbered(i, list) == \A j \in DOMAIN list : Numbered(i, list[j])

\* The inductive invariant of the order of bytes.
IInv ==
    /\ TypeOK
    /\ InOrder
    /\ \A k \in Keys : /\ InStep(isn[k], conns[k], streams[k])
                       /\ AllNumbered(isn[k], conns[k].list)

\* The same of the state the helpers work on.
Work == [c : Connection, s : Stream, ret : Seq(Told), used : Int]

Good(i, x) ==
    /\ x \in Work /\ x.c.open
    /\ InStep(i, x.c, x.s)
    /\ AllNumbered(i, x.c.list)
    /\ wellPlaced(x.ret) /\ wellPlaced(x.s.log)

\* byteSpan at a known position keeps what of a segment is at or after it.
LEMMA SpanKnown ==
    ASSUME NEW i \in Sequence, NEW pos \in 0 .. StreamLen, NEW b \in Bytes,
           b.from + b.len <= StreamLen,
           NEW e, e = Add(i, pos + 1), NEW r, r = Add(i, b.from + 1),
           NEW sp, sp = byteSpan(e, r, b)
    PROVE  /\ b.from >= pos =>
                sp.bytes = b /\ sp.next = Add(i, b.from + b.len + 1)
           /\ b.from < pos /\ b.from + b.len < pos =>
                sp.bytes = NoBytes /\ sp.next = e
           /\ b.from < pos /\ b.from + b.len >= pos =>
                /\ sp.bytes = [from |-> pos, len |-> b.from + b.len - pos]
                /\ sp.next = Add(i, b.from + b.len + 1)
  <1> USE ConstantsAssumption, QuarterAssumption
  <1>0. b.from \in Nat /\ b.len \in Nat
    BY DEF Bytes
  <1>1. /\ pos + 1 \in 0 .. Quarter - 1 /\ b.from + 1 \in 0 .. Quarter - 1
        /\ pos + 1 \in 0 .. SeqSpace - 1
    BY <1>0 DEF SeqSpace
  <1>2. Difference(r, e) = pos - b.from
    BY <1>0, <1>1, DifferenceIsDistance
  <1>3. e # invalidSequence
    BY <1>1, AddWraps DEF Sequence, invalidSequence
  <1>4. Add(r, b.len) = Add(i, b.from + b.len + 1)
    <2>1. Add(r, b.len) = Add(i, (b.from + 1) + b.len)
      BY <1>0, AddAdd
    <2>2. (b.from + 1) + b.len = b.from + b.len + 1
      BY <1>0
    <2> QED BY <2>1, <2>2
  <1>5. ASSUME b.from < pos, b.from + b.len >= pos
        PROVE  Add(e, b.len - (pos - b.from)) = Add(i, b.from + b.len + 1)
    <2>1. b.len - (pos - b.from) \in Nat /\ pos + 1 \in Nat
      BY <1>0, <1>5
    <2>2. (pos + 1) + (b.len - (pos - b.from)) = b.from + b.len + 1
      BY <1>0
    <2> QED BY <1>0, <2>1, <2>2, AddAdd
  <1>6. b.from < pos /\ b.from + b.len >= pos =>
            Slice(b, pos - b.from) = [from |-> pos, len |-> b.from + b.len - pos]
    BY <1>0 DEF Slice
  <1>7. /\ pos - b.from \in Int /\ (pos - b.from <= 0 <=> b.from >= pos)
        /\ (b.len < pos - b.from <=> b.from + b.len < pos)
    BY <1>0
  <1>8. sp = IF pos - b.from <= 0
             THEN [bytes |-> b, next |-> Add(r, b.len)]
             ELSE IF b.len < pos - b.from
                  THEN [bytes |-> NoBytes, next |-> e]
                  ELSE [bytes |-> Slice(b, pos - b.from),
                        next  |-> Add(e, b.len - (pos - b.from))]
    BY <1>2, <1>3 DEF byteSpan
  <1> QED BY <1>0, <1>4, <1>5, <1>6, <1>7, <1>8

\* What addNextFromConn and AssembleWithTimestamp append to a.ret.
Reassemblies == [bytes : Bytes, skip : Int, start : BOOLEAN, end : BOOLEAN]

\* What appending a Reassembly to a.ret does to the working state.
LEMMA AppendRet ==
    ASSUME NEW x \in Work, NEW r \in Reassemblies, wellPlaced(x.ret),
           r.bytes.len > 0 => r.bytes.from = readerAt(x.s.pos, r)
    PROVE  /\ appendRet(x, r) \in Work
           /\ appendRet(x, r).c = x.c /\ appendRet(x, r).used = x.used
           /\ appendRet(x, r).s.pos = readerAt(x.s.pos, r) + r.bytes.len
           /\ appendRet(x, r).s.log = x.s.log
           /\ wellPlaced(appendRet(x, r).ret) /\ appendRet(x, r).ret # <<>>
  <1> DEFINE at == readerAt(x.s.pos, r)
             t  == [bytes |-> r.bytes, skip |-> r.skip,
                    start |-> r.start, end |-> r.end, at |-> at]
             n  == at + r.bytes.len
             y  == appendRet(x, r)
  <1>1. x.ret \in Seq(Told) /\ x.s \in Stream /\ x.s.pos \in Int
    BY DEF Work, Stream
  <1>2. at \in Int
    BY <1>1 DEF readerAt, Reassemblies, Bytes
  <1>3. y = [x EXCEPT !.ret = Append(x.ret, t), !.s = [x.s EXCEPT !.pos = n]]
    BY DEF appendRet
  <1> HIDE DEF at, y
  <1>4. t \in Told /\ n \in Int
    BY <1>2 DEF Told, Bytes, Reassemblies
  <1>5. t.bytes.len > 0 => t.bytes.from = t.at
    BY DEF at
  <1> HIDE DEF t, n
  <1>6. /\ Append(x.ret, t) \in Seq(Told) /\ Append(x.ret, t) # <<>>
        /\ wellPlaced(Append(x.ret, t))
    <2>1. /\ Append(x.ret, t) \in Seq(Told)
          /\ Append(x.ret, t) # <<>>
          /\ Len(Append(x.ret, t)) = Len(x.ret) + 1
          /\ \A j \in 1 .. Len(x.ret) : Append(x.ret, t)[j] = x.ret[j]
          /\ Append(x.ret, t)[Len(x.ret) + 1] = t
      BY <1>1, <1>4, AppendProperties
    <2> QED BY <1>1, <1>5, <2>1 DEF wellPlaced
  <1>7. /\ [x.s EXCEPT !.pos = n] \in Stream
        /\ [x.s EXCEPT !.pos = n].pos = n /\ [x.s EXCEPT !.pos = n].log = x.s.log
    BY <1>1, <1>4 DEF Stream
  <1>8. /\ y \in Work /\ y.c = x.c /\ y.used = x.used
        /\ y.ret = Append(x.ret, t) /\ y.s = [x.s EXCEPT !.pos = n]
    BY <1>3, <1>6, <1>7 DEF Work
  <1> QED BY <1>6, <1>7, <1>8 DEF n, at, y

\* Where what byteSpan keeps belongs, and the position after it: with no
\* position expected, at the start of the segment...
LEMMA SpanUnknown ==
    ASSUME NEW i \in Sequence, NEW b \in Bytes, b.from + b.len <= StreamLen,
           NEW r, r = Add(i, b.from + 1),
           NEW sp, sp = byteSpan(invalidSequence, r, b)
    PROVE  sp.bytes = b /\ sp.next = Add(i, (b.from + b.len) + 1)
  <1>1. sp = [bytes |-> b, next |-> Add(r, b.len)]
    BY DEF byteSpan
  <1>2. b.from \in Nat /\ b.len \in Nat
    BY DEF Bytes
  <1>3. (b.from + 1) + b.len < Quarter /\ b.from + 1 \in Nat
    BY <1>2, ConstantsAssumption, QuarterAssumption
  <1>4. (b.from + 1) + b.len = (b.from + b.len) + 1
    BY <1>2
  <1>5. Add(r, b.len) = Add(i, (b.from + b.len) + 1)
    BY <1>2, <1>3, <1>4, AddAdd
  <1> QED BY <1>1, <1>5

\* ... and otherwise at the position expected or, if it is later, at the
\* start of the segment.
LEMMA SpanPlaces ==
    ASSUME NEW i \in Sequence, NEW pos \in 0 .. StreamLen, NEW b \in Bytes,
           b.from + b.len <= StreamLen,
           NEW e, e = Add(i, pos + 1), NEW r, r = Add(i, b.from + 1),
           NEW sp, sp = byteSpan(e, r, b),
           NEW at, at = IF b.from >= pos THEN b.from ELSE pos
    PROVE  /\ sp.bytes \in Bytes
           /\ sp.bytes.len > 0 => sp.bytes.from = at
           /\ at + sp.bytes.len \in 0 .. StreamLen
           /\ sp.next = Add(i, (at + sp.bytes.len) + 1)
  <1> USE ConstantsAssumption
  <1>0. b.from \in Nat /\ b.len \in Nat /\ NoBytes \in Bytes /\ NoBytes.len = 0
    BY DEF Bytes, NoBytes
  <1>a. /\ b.from >= pos =>
             sp.bytes = b /\ sp.next = Add(i, b.from + b.len + 1)
        /\ b.from < pos /\ b.from + b.len < pos =>
             sp.bytes = NoBytes /\ sp.next = e
        /\ b.from < pos /\ b.from + b.len >= pos =>
             /\ sp.bytes = [from |-> pos, len |-> b.from + b.len - pos]
             /\ sp.next = Add(i, b.from + b.len + 1)
    BY SpanKnown
  <1>1. CASE b.from >= pos
    <2>1. sp.bytes = b /\ sp.next = Add(i, b.from + b.len + 1) /\ at = b.from
      BY <1>1, <1>a
    <2> QED BY <1>0, <2>1
  <1>2. CASE b.from < pos /\ b.from + b.len < pos
    <2>1. sp.bytes = NoBytes /\ sp.next = e
      BY <1>2, <1>a
    <2>2. at = pos /\ at + NoBytes.len = pos
      BY <1>0, <1>2
    <2> QED BY <1>0, <2>1, <2>2
  <1>3. CASE b.from < pos /\ b.from + b.len >= pos
    <2>1. /\ sp.bytes = [from |-> pos, len |-> b.from + b.len - pos]
          /\ sp.next = Add(i, b.from + b.len + 1)
      BY <1>3, <1>a
    <2>2. /\ sp.bytes \in Bytes /\ sp.bytes.len = b.from + b.len - pos
          /\ sp.bytes.from = pos
      BY <1>0, <1>3, <2>1 DEF Bytes
    <2>3. at = pos /\ at + sp.bytes.len = b.from + b.len
      BY <1>0, <1>3, <2>2
    <2> QED BY <1>0, <2>1, <2>2, <2>3
  <1> QED BY <1>0, <1>1, <1>2, <1>3

\* The distance from the number a connection expects to that of a segment.
LEMMA DifferenceFromExpected ==
    ASSUME NEW i \in Sequence, NEW pos \in 0 .. StreamLen, NEW from \in 0 .. StreamLen
    PROVE  Difference(Add(i, pos + 1), Add(i, from + 1)) = from - pos
  <1>1. pos + 1 \in 0 .. Quarter - 1 /\ from + 1 \in 0 .. Quarter - 1
    BY ConstantsAssumption, QuarterAssumption
  <1>2. Difference(Add(i, pos + 1), Add(i, from + 1)) = (from + 1) - (pos + 1)
    BY <1>1, DifferenceIsDistance
  <1> QED BY <1>2, ConstantsAssumption

\* addNextFromConn keeps the reader and the connection in step.
LEMMA AddNextGood ==
    ASSUME NEW i \in Sequence, NEW x, Good(i, x), x.c.list # <<>>
    PROVE  /\ Good(i, addNextFromConn(x)) /\ addNextFromConn(x).ret # <<>>
           /\ addNextFromConn(x).s.pos =
                (IF \/ x.c.nextSeq = invalidSequence
                    \/ Head(x.c.list).bytes.from >= x.s.pos
                 THEN Head(x.c.list).bytes.from ELSE x.s.pos)
                + byteSpan(x.c.nextSeq, Head(x.c.list).seq, Head(x.c.list).bytes).bytes.len
  <1> USE ConstantsAssumption
  <1> DEFINE first == Head(x.c.list)
             b     == first.bytes
             pos   == x.s.pos
             next  == x.c.nextSeq
             diff  == Difference(next, first.seq)
             skip  == IF next = invalidSequence THEN -1
                      ELSE IF diff > 0 THEN diff ELSE 0
             span  == byteSpan(next, first.seq, b)
             r     == Reassembly(span.bytes, skip, FALSE, first.end)
             y     == appendRet(x, r)
             at    == IF next = invalidSequence \/ b.from >= pos THEN b.from ELSE pos
             c     == [x.c EXCEPT !.nextSeq = span.next, !.list = Tail(x.c.list),
                                  !.pages = x.c.pages - 1]
             z     == addNextFromConn(x)
  <1>1. /\ x \in Work /\ x.c.open /\ InStep(i, x.c, x.s)
        /\ wellPlaced(x.ret) /\ wellPlaced(x.s.log)
    BY DEF Good
  <1>2. /\ x.c \in Connection /\ x.c.list \in Seq(Page) /\ x.c.pages \in Int
        /\ x.used \in Int /\ pos \in Int
    BY <1>1 DEF Work, Connection, Stream
  <1>3. /\ first \in Page /\ Numbered(i, first)
        /\ Tail(x.c.list) \in Seq(Page) /\ AllNumbered(i, Tail(x.c.list))
    BY <1>2 DEF AllNumbered, Good
  <1>4. /\ b \in Bytes /\ b.from \in Nat /\ b.len \in Nat
        /\ b.from + b.len <= StreamLen /\ first.seq = Add(i, b.from + 1)
        /\ first.end \in BOOLEAN
    BY <1>3 DEF Page, Bytes, Numbered
  <1>5. z = [y EXCEPT !.c = c, !.used = x.used - 1]
    BY DEF addNextFromConn
  <1>6. next # invalidSequence => pos \in 0 .. StreamLen /\ next = Add(i, pos + 1)
    BY <1>1 DEF InStep
  <1> HIDE DEF first, b, pos, next, z
  <1>7. /\ span.bytes \in Bytes
        /\ span.bytes.len > 0 => span.bytes.from = at
        /\ at + span.bytes.len \in 0 .. StreamLen
        /\ span.next = Add(i, (at + span.bytes.len) + 1)
        /\ skip \in Int
        /\ at = IF skip = -1 THEN span.bytes.from ELSE pos + skip
    <2>1. CASE next = invalidSequence
      <3>1. span.bytes = b /\ span.next = Add(i, (b.from + b.len) + 1)
        BY <1>4, <2>1, SpanUnknown
      <3>2. skip = -1 /\ at = b.from
        BY <2>1
      <3> HIDE DEF span, skip, at
      <3> QED BY <1>4, <3>1, <3>2
    <2>2. CASE next # invalidSequence
      <3>1. pos \in 0 .. StreamLen /\ next = Add(i, pos + 1)
        BY <1>6, <2>2
      <3>2. at = IF b.from >= pos THEN b.from ELSE pos
        BY <2>2
      <3>3. diff = b.from - pos
        BY <1>4, <3>1, DifferenceFromExpected
      <3>4. skip = IF diff > 0 THEN diff ELSE 0
        BY <2>2
      <3> HIDE DEF at, diff, skip
      <3>5. /\ span.bytes \in Bytes
            /\ span.bytes.len > 0 => span.bytes.from = at
            /\ at + span.bytes.len \in 0 .. StreamLen
            /\ span.next = Add(i, (at + span.bytes.len) + 1)
        BY <1>4, <3>1, <3>2, SpanPlaces
      <3>6. skip \in Int /\ skip # -1 /\ at = pos + skip
        BY <1>4, <3>1, <3>2, <3>3, <3>4
      <3> QED BY <3>5, <3>6
    <2> QED BY <2>1, <2>2
  <1> HIDE DEF span, skip, at
  <1>8. r \in Reassemblies /\ r.bytes = span.bytes /\ readerAt(x.s.pos, r) = at
    BY <1>4, <1>7 DEF Reassembly, Reassemblies, readerAt, pos
  <1> HIDE DEF r
  <1>9. /\ y \in Work /\ y.c = x.c
        /\ y.s.pos = at + span.bytes.len /\ y.s.log = x.s.log
        /\ wellPlaced(y.ret) /\ y.ret # <<>>
    BY <1>1, <1>7, <1>8, AppendRet
  <1>10. span.next \in Sequence
    <2> DEFINE n == (at + span.bytes.len) + 1
    <2>1. n \in 0 .. SeqSpace - 1
      BY <1>7, QuarterAssumption DEF SeqSpace
    <2> HIDE DEF n
    <2> QED BY <1>7, <2>1, AddWraps DEF n
  <1>11. /\ c \in Connection /\ c.open /\ c.nextSeq = span.next
         /\ c.list = Tail(x.c.list)
    <2> DEFINE c0 == x.c
               q  == Tail(x.c.list)
               m  == x.c.pages - 1
               e  == span.next
    <2>1. c = [c0 EXCEPT !.nextSeq = e, !.list = q, !.pages = m]
      OBVIOUS
    <2>2. c0 \in Connection /\ c0.open /\ q \in Seq(Page) /\ m \in Int /\ e \in Sequence
      BY <1>1, <1>2, <1>3, <1>10
    <2> HIDE DEF c0, q, m, e, c
    <2>3. c \in Connection /\ c.open /\ c.nextSeq = e /\ c.list = q
      BY <2>1, <2>2 DEF Connection
    <2> QED BY <2>3 DEF q, e
  <1> HIDE DEF y, c
  <1>12. z \in Work /\ z.c = c /\ z.s = y.s /\ z.ret = y.ret
    <2> DEFINE u == x.used - 1
    <2>1. z = [y EXCEPT !.c = c, !.used = u] /\ u \in Int
      BY <1>2, <1>5
    <2> HIDE DEF u
    <2> QED BY <1>9, <1>11, <2>1 DEF Work
  <1>13. InStep(i, z.c, z.s)
    BY <1>7, <1>9, <1>11, <1>12 DEF InStep
  <1>14. z.s.pos = at + span.bytes.len
    BY <1>9, <1>12
  <1>15. Good(i, z) /\ z.ret # <<>>
    BY <1>1, <1>3, <1>9, <1>11, <1>12, <1>13 DEF Good
  <1> QED BY <1>14, <1>15 DEF z, at, span, b, first, pos, next

\* A packet of flow k that is no SYN is numbered as the piece it holds.
Segment(i) == {p \in [syn : BOOLEAN, seq : Sequence, bytes : Bytes, end : BOOLEAN] :
                  ~p.syn /\ Numbered(i, p)}

\* pagesFromTCP numbers every page of a segment as the piece it holds.
LEMMA PagesNumbered ==
    ASSUME NEW i \in Sequence, NEW p \in Segment(i), NEW ts \in Times
    PROVE  /\ pagesFromTCP(p, ts) \in Seq(Page) /\ pagesFromTCP(p, ts) # <<>>
           /\ AllNumbered(i, pagesFromTCP(p, ts))
  <1> USE ConstantsAssumption, QuarterAssumption
  <1> DEFINE b == p.bytes
             n == numPages(b)
             before(j) == (j - 1) * PageBytes
             page(j) == [seq   |-> Add(p.seq, before(j)),
                         bytes |-> [from |-> b.from + before(j),
                                    len  |-> IF b.len - before(j) < PageBytes
                                             THEN b.len - before(j) ELSE PageBytes],
                         end   |-> p.end /\ j = n,
                         syn   |-> p.syn,
                         seen  |-> ts]
             pages == pagesFromTCP(p, ts)
  <1>1. /\ b \in Bytes /\ b.from \in Nat /\ b.len \in Nat /\ b.from + b.len <= StreamLen
        /\ p.seq = Add(i, b.from + 1) /\ p.end \in BOOLEAN /\ p.syn \in BOOLEAN
    BY DEF Segment, Numbered, Bytes
  <1>2. n \in Nat \ {0}
    <2>1. CASE b.len = 0
      BY <2>1 DEF numPages
    <2>2. CASE b.len # 0
      <3>1. (b.len + PageBytes - 1) \div PageBytes >= 1
        <4> DEFINE l == b.len
        <4>1. l \in Nat \ {0}
          BY <1>1, <2>2
        <4> HIDE DEF l
        <4>2. (l + PageBytes - 1) \div PageBytes >= 1
          BY <4>1
        <4> QED BY <4>2 DEF l
      <3>2. (b.len + PageBytes - 1) \div PageBytes \in Int
        BY <1>1
      <3> QED BY <2>2, <3>1, <3>2 DEF numPages
    <2> QED BY <2>1, <2>2
  <1>3. pages = [j \in 1 .. n |-> page(j)]
    BY DEF pagesFromTCP
  <1> HIDE DEF n, pages
  <1>4. ASSUME NEW j \in 1 .. n
        PROVE  page(j) \in Page /\ Numbered(i, page(j))
    <2> DEFINE d == before(j)
               l == IF b.len - d < PageBytes THEN b.len - d ELSE PageBytes
    <2>1. d \in Nat /\ d <= b.len
      <3>1. CASE b.len = 0
        <4>1. n = 1 /\ j = 1
          BY <3>1, <1>2 DEF n, numPages
        <4> QED BY <1>1, <4>1
      <3>2. CASE b.len # 0
        <4>1. n = (b.len + PageBytes - 1) \div PageBytes
          BY <3>2 DEF n, numPages
        <4>2. b.len \in Nat \ {0} /\ PageBytes \in Nat \ {0}
          BY <1>1, <3>2
        <4> HIDE DEF b
        <4>3. (j - 1) * PageBytes \in 0 .. b.len - 1
          BY <4>1, <4>2, PageInside
        <4> QED BY <1>1, <4>3
      <3> QED BY <3>1, <3>2
    <2>2. page(j) = [seq |-> Add(p.seq, d), bytes |-> [from |-> b.from + d, len |-> l],
                     end |-> p.end /\ j = n, syn |-> p.syn, seen |-> ts]
      OBVIOUS
    <2> HIDE DEF d, b, before
    <2>3. l \in Nat /\ l <= b.len - d
      BY <1>1, <2>1
    <2>4. Add(p.seq, d) = Add(i, (b.from + d) + 1)
      <3>1. (b.from + 1) + d < Quarter /\ b.from + 1 \in Nat
        BY <1>1, <2>1
      <3>2. (b.from + 1) + d = (b.from + d) + 1
        BY <1>1, <2>1
      <3> QED BY <1>1, <2>1, <3>1, <3>2, AddAdd
    <2>5. Add(p.seq, d) \in Sequence
      <3> DEFINE m == (b.from + d) + 1
      <3>1. m \in 0 .. SeqSpace - 1
        BY <1>1, <2>1 DEF SeqSpace
      <3> HIDE DEF m
      <3> QED BY <2>4, <3>1, AddWraps DEF m
    <2> HIDE DEF l
    <2>6. [from |-> b.from + d, len |-> l] \in Bytes
      BY <1>1, <2>1, <2>3 DEF Bytes
    <2>7. page(j) \in Page
      BY <1>1, <2>2, <2>5, <2>6 DEF Page
    <2>8. (b.from + d) + l <= StreamLen
      BY <1>1, <2>1, <2>3
    <2> QED BY <2>2, <2>4, <2>7, <2>8 DEF Numbered
  <1> HIDE DEF page
  <1>5. pages \in Seq(Page) /\ Len(pages) = n /\ DOMAIN pages = 1 .. n
    BY <1>2, <1>3, <1>4
  <1>6. pages # <<>>
    BY <1>2, <1>5
  <1>7. AllNumbered(i, pages)
    BY <1>3, <1>4, <1>5 DEF AllNumbered
  <1> QED BY <1>5, <1>6, <1>7 DEF pages

\* Linking numbered pages into a list of numbered pages.
LEMMA PushNumbered ==
    ASSUME NEW i, NEW list \in Seq(Page), NEW new \in Seq(Page),
           NEW m \in 0 .. Len(list), new # <<>>,
           AllNumbered(i, list), AllNumbered(i, new)
    PROVE  /\ pushBetween(list, m, new) \in Seq(Page)
           /\ pushBetween(list, m, new) # <<>>
           /\ AllNumbered(i, pushBetween(list, m, new))
  <1> DEFINE a == Len(list)
             b == Len(new)
             q == pushBetween(list, m, new)
             at(j) == IF j <= m THEN list[j] ELSE IF j <= m + b THEN new[j - m]
                      ELSE list[j - b]
  <1>1. /\ a \in Nat /\ b \in Nat \ {0}
        /\ DOMAIN list = 1 .. a /\ DOMAIN new = 1 .. b
    OBVIOUS
  <1>2. q = [j \in 1 .. a + b |-> at(j)]
    BY DEF pushBetween
  <1> HIDE DEF a, b, q
  <1>3. ASSUME NEW j \in 1 .. a + b
        PROVE  at(j) \in Page /\ Numbered(i, at(j))
    <2>1. CASE j <= m
      <3>1. j \in 1 .. a /\ at(j) = list[j]
        BY <1>1, <2>1 DEF a
      <3> QED BY <1>1, <3>1 DEF AllNumbered
    <2>2. CASE j > m /\ j <= m + b
      <3>1. j - m \in 1 .. b /\ at(j) = new[j - m]
        BY <1>1, <2>2
      <3> QED BY <1>1, <3>1 DEF AllNumbered
    <2>3. CASE j > m + b
      <3>1. j - b \in 1 .. a /\ at(j) = list[j - b]
        BY <1>1, <2>3
      <3> QED BY <1>1, <3>1 DEF AllNumbered
    <2> QED BY <1>1, <2>1, <2>2, <2>3
  <1> HIDE DEF at
  <1>4. q \in Seq(Page) /\ Len(q) = a + b /\ DOMAIN q = 1 .. a + b
    <2> DEFINE l == a + b
    <2>1. l \in Nat
      BY <1>1
    <2> HIDE DEF l
    <2> QED BY <1>2, <1>3, <2>1 DEF l
  <1>5. q # <<>>
    BY <1>1, <1>4
  <1>6. AllNumbered(i, q)
    BY <1>2, <1>3, <1>4 DEF AllNumbered
  <1> QED BY <1>4, <1>5, <1>6 DEF q

\* insertIntoConn of a segment, with or without popping a page.
LEMMA InsertGood ==
    ASSUME NEW i \in Sequence, NEW x, Good(i, x), NEW p \in Segment(i), NEW ts \in Times
    PROVE  Good(i, insertIntoConn(x, p, ts))
  <1> DEFINE new  == pagesFromTCP(p, ts)
             list == x.c.list
             at   == traverseConn(list, p.seq)
             push == pushBetween(list, at, new)
             m    == x.c.pages + Len(new)
             u    == x.used + Len(new)
             c    == [x.c EXCEPT !.list = push, !.pages = m]
             y    == [x EXCEPT !.c = c, !.used = u]
  <1>1. /\ x \in Work /\ x.c \in Connection /\ x.c.open /\ list \in Seq(Page)
        /\ x.c.pages \in Int /\ x.used \in Int
        /\ wellPlaced(x.ret) /\ wellPlaced(x.s.log)
        /\ InStep(i, x.c, x.s) /\ AllNumbered(i, list)
    BY DEF Good, Work, Connection
  <1>2. new \in Seq(Page) /\ new # <<>> /\ AllNumbered(i, new)
    BY PagesNumbered
  <1>3. insertIntoConn(x, p, ts) \in {y, addNextFromConn(y)}
    BY DEF insertIntoConn
  <1> HIDE DEF new, list
  <1>4. at \in 0 .. Len(list)
    BY <1>1, TraverseInList
  <1> HIDE DEF at
  <1>5. push \in Seq(Page) /\ push # <<>> /\ AllNumbered(i, push)
    BY <1>1, <1>2, <1>4, PushNumbered
  <1>6. m \in Int /\ u \in Int
    BY <1>1, <1>2
  <1> HIDE DEF push, m, u
  <1>7. c \in Connection /\ c.open /\ c.list = push /\ c.nextSeq = x.c.nextSeq
    BY <1>1, <1>5, <1>6 DEF Connection
  <1> HIDE DEF c
  <1>8. y \in Work /\ y.c = c /\ y.s = x.s /\ y.ret = x.ret
    BY <1>1, <1>6, <1>7 DEF Work
  <1> HIDE DEF y
  <1>9. Good(i, y)
    BY <1>1, <1>5, <1>7, <1>8 DEF Good, InStep
  <1>10. Good(i, addNextFromConn(y))
    BY <1>5, <1>7, <1>8, <1>9, AddNextGood
  <1> QED BY <1>3, <1>9, <1>10

\* A connection that already expects a number, passed a Reassembly that
\* starts where its reader is.
LEMMA SendGood ==
    ASSUME NEW i \in Sequence, NEW x, Good(i, x), NEW r \in Reassemblies,
           r.bytes.len > 0 => r.bytes.from = readerAt(x.s.pos, r),
           NEW n \in 0 .. StreamLen, n = readerAt(x.s.pos, r) + r.bytes.len,
           NEW next, next = Add(i, n + 1),
           NEW z, z = [appendRet(x, r) EXCEPT !.c = [x.c EXCEPT !.nextSeq = next]]
    PROVE  Good(i, z)
  <1> USE ConstantsAssumption, QuarterAssumption
  <1> DEFINE y == appendRet(x, r)
             c == [x.c EXCEPT !.nextSeq = next]
  <1>1. /\ x \in Work /\ x.c \in Connection /\ x.c.open /\ wellPlaced(x.ret)
        /\ AllNumbered(i, x.c.list) /\ wellPlaced(x.s.log)
    BY DEF Good, Work
  <1>2. y \in Work /\ y.s.pos = n /\ wellPlaced(y.ret) /\ y.s.log = x.s.log
    BY <1>1, AppendRet
  <1>3. next \in Sequence
    <2>1. n + 1 \in 0 .. SeqSpace - 1
      BY DEF SeqSpace
    <2> QED BY <2>1, AddWraps
  <1>4. c \in Connection /\ c.open /\ c.nextSeq = next /\ c.list = x.c.list
    BY <1>1, <1>3 DEF Connection
  <1>5. z = [y EXCEPT !.c = c]
    OBVIOUS
  <1> HIDE DEF y, c
  <1>6. z \in Work /\ z.c = c /\ z.s = y.s /\ z.ret = y.ret
    BY <1>2, <1>4, <1>5 DEF Work
  <1>7. InStep(i, z.c, z.s)
    BY <1>2, <1>4, <1>6 DEF InStep
  <1> QED BY <1>1, <1>2, <1>4, <1>6, <1>7 DEF Good

\* The SYN of the flow, without data.
IsSyn(i, p) == p.syn /\ p.seq = i /\ p.bytes = NoBytes /\ p.end = FALSE

\* What AssembleWithTimestamp does to the connection it has locked.
LEMMA AssembleGood ==
    ASSUME NEW i \in Sequence, NEW x, Good(i, x), NEW ts \in Times,
           NEW p, p \in Segment(i) \/ IsSyn(i, p)
    PROVE  Good(i, assemblePacket(x, p, ts))
  <1> USE ConstantsAssumption, QuarterAssumption
  <1> DEFINE next == x.c.nextSeq
             pos  == x.s.pos
             span == byteSpan(next, p.seq, p.bytes)
             z    == assemblePacket(x, p, ts)
  <1>0. NoBytes \in Bytes /\ NoBytes.len = 0 /\ NoBytes.from = 0
    BY DEF NoBytes, Bytes
  <1>1. next # invalidSequence => pos \in 0 .. StreamLen /\ next = Add(i, pos + 1)
    BY DEF Good, InStep
  <1>2. CASE IsSyn(i, p) /\ next = invalidSequence
    <2> DEFINE r == Reassembly(p.bytes, 0, TRUE, FALSE)
    <2>1. /\ r \in Reassemblies /\ r.bytes = NoBytes /\ readerAt(x.s.pos, r) = 0
      BY <1>0, <1>2 DEF Reassembly, Reassemblies, readerAt, IsSyn
    <2>2. p.syn /\ p.seq = i /\ p.bytes.len = 0
      BY <1>0, <1>2 DEF IsSyn
    <2>3. z = [appendRet(x, r) EXCEPT !.c = [x.c EXCEPT !.nextSeq = Add(i, 0 + 1)]]
      BY <1>2, <2>2 DEF assemblePacket
    <2> HIDE DEF r, z
    <2> DEFINE e == Add(i, 0 + 1)
    <2> HIDE DEF e
    <2>4. 0 \in 0 .. StreamLen /\ 0 = readerAt(x.s.pos, r) + r.bytes.len
          /\ r.bytes.len = 0 /\ e = Add(i, 0 + 1)
      BY <1>0, <2>1 DEF e
    <2>5. z = [appendRet(x, r) EXCEPT !.c = [x.c EXCEPT !.nextSeq = e]]
      BY <2>3 DEF e
    <2> QED BY <2>1, <2>4, <2>5, SendGood DEF z
  <1>3. CASE IsSyn(i, p) /\ next # invalidSequence
    <2> DEFINE r == Reassembly(span.bytes, 0, FALSE, p.end)
    <2>0. p.syn /\ p.seq = i /\ p.bytes = NoBytes /\ p.end = FALSE
      BY <1>3 DEF IsSyn
    <2>1. Add(i, 0) = i
      BY AddWraps DEF Sequence, SeqSpace
    <2>2. /\ pos + 1 \in 0 .. Quarter - 1 /\ 0 \in 0 .. Quarter - 1
          /\ pos \in 0 .. StreamLen /\ next = Add(i, pos + 1)
      BY <1>1, <1>3
    <2>3. Difference(i, next) = pos + 1 /\ Difference(next, i) = -(pos + 1)
      <3>1. /\ Difference(Add(i, 0), Add(i, pos + 1)) = (pos + 1) - 0
            /\ Difference(Add(i, pos + 1), Add(i, 0)) = 0 - (pos + 1)
        <4> DEFINE a == pos + 1
        <4> HIDE DEF a
        <4>1. a \in 0 .. Quarter - 1
          BY <2>2 DEF a
        <4>2. /\ Difference(Add(i, 0), Add(i, a)) = a - 0
              /\ Difference(Add(i, a), Add(i, 0)) = 0 - a
          BY <2>2, <4>1, DifferenceIsDistance
        <4> QED BY <4>2 DEF a
      <3> QED BY <2>1, <2>2, <3>1
    <2>4. span = [bytes |-> NoBytes, next |-> next]
      BY <1>0, <1>3, <2>0, <2>2, <2>3 DEF byteSpan
    <2>5. z = [appendRet(x, r) EXCEPT !.c = [x.c EXCEPT !.nextSeq = span.next]]
      <3>1. ~(Difference(next, p.seq) > 0)
        BY <2>0, <2>2, <2>3
      <3> QED BY <1>3, <3>1 DEF assemblePacket
    <2>6. /\ r \in Reassemblies /\ r.bytes = NoBytes /\ readerAt(x.s.pos, r) = pos
      <3>1. p.end \in BOOLEAN
        BY <2>0, Zenon
      <3>2. span.bytes = NoBytes
        BY <2>4
      <3> HIDE DEF span
      <3> QED BY <1>0, <2>2, <3>1, <3>2 DEF Reassembly, Reassemblies, readerAt
    <2>7. z = [appendRet(x, r) EXCEPT !.c = [x.c EXCEPT !.nextSeq = next]]
      BY <2>4, <2>5
    <2> HIDE DEF r, z, span
    <2>8. pos = readerAt(x.s.pos, r) + r.bytes.len /\ r.bytes.len = 0
      BY <1>0, <2>2, <2>6
    <2> QED BY <2>2, <2>6, <2>7, <2>8, SendGood DEF z
  <1>4. CASE /\ p \in Segment(i)
             /\ next = invalidSequence \/ Difference(next, p.seq) > 0
    <2>1. ~p.syn
      BY <1>4 DEF Segment
    <2>2. z = insertIntoConn(x, p, ts)
      BY <1>4, <2>1 DEF assemblePacket
    <2> HIDE DEF z
    <2> QED BY <1>4, <2>2, InsertGood DEF z
  <1>5. CASE /\ p \in Segment(i)
             /\ ~(next = invalidSequence \/ Difference(next, p.seq) > 0)
    <2> DEFINE b == p.bytes
               r == Reassembly(span.bytes, 0, FALSE, p.end)
               n == pos + span.bytes.len
    <2>1. /\ b \in Bytes /\ b.from \in Nat /\ b.len \in Nat /\ p.end \in BOOLEAN
          /\ b.from + b.len <= StreamLen /\ p.seq = Add(i, b.from + 1) /\ ~p.syn
      BY <1>5 DEF Segment, Numbered, Bytes
    <2>2. pos \in 0 .. StreamLen /\ next = Add(i, pos + 1)
      BY <1>1, <1>5
    <2>3. z = [appendRet(x, r) EXCEPT !.c = [x.c EXCEPT !.nextSeq = span.next]]
      BY <1>5 DEF assemblePacket
    <2>4. span = byteSpan(next, p.seq, b)
      OBVIOUS
    <2> HIDE DEF b, next, pos, span
    <2>5. b.from <= pos
      <3>1. Difference(next, p.seq) = b.from - pos
        BY <2>1, <2>2, DifferenceFromExpected
      <3> QED BY <1>5, <2>1, <2>2, <3>1
    <2>6. pos = IF b.from >= pos THEN b.from ELSE pos
      BY <2>1, <2>2, <2>5
    <2>7. /\ span.bytes \in Bytes
          /\ span.bytes.len > 0 => span.bytes.from = pos
          /\ n \in 0 .. StreamLen
          /\ span.next = Add(i, n + 1)
      BY <2>1, <2>2, <2>4, <2>6, SpanPlaces
    <2>8. /\ r \in Reassemblies /\ r.bytes = span.bytes
          /\ readerAt(x.s.pos, r) = pos
      BY <2>1, <2>2, <2>7 DEF Reassembly, Reassemblies, readerAt, pos
    <2>9. n = readerAt(x.s.pos, r) + r.bytes.len
      BY <2>8
    <2> HIDE DEF r, z, n
    <2> QED BY <2>3, <2>7, <2>8, <2>9, SendGood DEF z
  <1> QED BY <1>2, <1>3, <1>4, <1>5

-----------------------------------------------------------------------------
\* A packet the network hands in is the SYN of the flow or a numbered segment.
LEMMA PacketShape ==
    ASSUME SynLen = 0, Reuse = FALSE, NEW k \in Keys, isn[k] \in Sequence,
           NEW p \in Packets(k)
    PROVE  p \in Segment(isn[k]) \/ IsSyn(isn[k], p)
  <1> USE ConstantsAssumption, QuarterAssumption
  <1>1. CASE p \in {[syn |-> TRUE, seq |-> i, bytes |-> [from |-> 0, len |-> SynLen],
                     end |-> FALSE] : i \in {isn[k]}}
    <2>1. p = [syn |-> TRUE, seq |-> isn[k], bytes |-> NoBytes, end |-> FALSE]
      BY <1>1 DEF NoBytes
    <2> QED BY <2>1 DEF IsSyn
  <1>2. ASSUME NEW x \in Segments,
               p = [syn |-> FALSE, seq |-> Add(isn[k], x.off + 1),
                    bytes |-> [from |-> x.off, len |-> x.len], end |-> x.end]
        PROVE  p \in Segment(isn[k])
    <2>1. /\ x.off \in Nat /\ x.len \in Nat /\ x.end \in BOOLEAN
          /\ x.off + x.len <= StreamLen
      BY DEF Segments
    <2>2. Add(isn[k], x.off + 1) \in Sequence
      <3> DEFINE m == x.off + 1
      <3>1. m \in 0 .. SeqSpace - 1
        BY <2>1 DEF SeqSpace
      <3> HIDE DEF m
      <3> QED BY <3>1, AddWraps DEF m
    <2>3. [from |-> x.off, len |-> x.len] \in Bytes
      BY <2>1 DEF Bytes
    <2> QED BY <1>2, <2>1, <2>2, <2>3 DEF Segment, Numbered
  <1> QED BY <1>1, <1>2 DEF Packets

\* Starting and writing back the work on a connection.
LEMMA WorkingGood ==
    ASSUME IInv, NEW k \in Keys, conns[k].open, NEW r \in Seq(Told), wellPlaced(r)
    PROVE  isn[k] \in Sequence /\ Good(isn[k], Working(k, conns[k], streams[k], r))
  <1>1. /\ conns[k] \in Connection /\ streams[k] \in Stream /\ used \in Int
        /\ isn[k] \in Sequence
    BY ConstantsAssumption DEF IInv, TypeOK
  <1> DEFINE x == Working(k, conns[k], streams[k], r)
  <1>2. x.c = conns[k] /\ x.s = streams[k] /\ x.ret = r /\ x.used = used /\ x \in Work
    BY <1>1 DEF Working, Work
  <1> HIDE DEF x
  <1>3. /\ InStep(isn[k], conns[k], streams[k]) /\ AllNumbered(isn[k], conns[k].list)
        /\ wellPlaced(streams[k].log)
    BY DEF IInv, InOrder
  <1> QED BY <1>1, <1>2, <1>3 DEF Good, x

\* The part of IInv that Store establishes.
LEMMA StoreGood ==
    ASSUME IInv, NEW k \in Keys, NEW x, Good(isn[k], x), Store(k, x), isn' = isn
    PROVE  /\ conns' \in [Keys -> Connection] /\ streams' \in [Keys -> Stream]
           /\ ret' \in Seq(Told) /\ used' \in Int
           /\ conns'[k] = x.c /\ ret' = x.ret
           /\ InOrder'
           /\ \A l \in Keys : /\ InStep(isn[l], conns'[l], streams'[l])
                              /\ AllNumbered(isn[l], conns'[l].list)
  <1>1. /\ x.c \in Connection /\ x.s \in Stream /\ x.ret \in Seq(Told) /\ x.used \in Int
        /\ wellPlaced(x.ret) /\ wellPlaced(x.s.log)
        /\ InStep(isn[k], x.c, x.s) /\ AllNumbered(isn[k], x.c.list)
    BY DEF Good, Work
  <1>2. /\ conns \in [Keys -> Connection] /\ streams \in [Keys -> Stream]
        /\ \A l \in Keys : /\ wellPlaced(streams[l].log)
                           /\ InStep(isn[l], conns[l], streams[l])
                           /\ AllNumbered(isn[l], conns[l].list)
    BY DEF IInv, TypeOK, InOrder
  <1>3. /\ conns' = [conns EXCEPT ![k] = x.c] /\ streams' = [streams EXCEPT ![k] = x.s]
        /\ ret' = x.ret /\ used' = x.used
    BY DEF Store
  <1>4. /\ conns' \in [Keys -> Connection] /\ streams' \in [Keys -> Stream]
        /\ conns'[k] = x.c /\ streams'[k] = x.s
        /\ \A l \in Keys \ {k} : conns'[l] = conns[l] /\ streams'[l] = streams[l]
    BY <1>1, <1>2, <1>3
  <1>5. \A l \in Keys : wellPlaced(streams'[l].log)
    BY <1>1, <1>2, <1>4
  <1>6. InOrder'
    BY <1>1, <1>3, <1>5 DEF InOrder, wellPlaced
  <1>7. \A l \in Keys : /\ InStep(isn[l], conns'[l], streams'[l])
                        /\ AllNumbered(isn[l], conns'[l].list)
    BY <1>1, <1>2, <1>4
  <1> QED BY <1>1, <1>3, <1>4, <1>6, <1>7

-----------------------------------------------------------------------------
\* The initial states.
LEMMA InitIInv == Init => IInv
  <1> SUFFICES ASSUME Init PROVE IInv
    OBVIOUS
  <1> USE ConstantsAssumption DEF Init
  <1>1. NoConn \in Connection /\ NoConn.nextSeq = invalidSequence /\ NoConn.list = <<>>
    BY DEF NoConn, Connection
  <1>2. NewStream \in Stream /\ NewStream.log = <<>>
    BY DEF NewStream, Stream
  <1>3. NoOp \in [kind : {"none", "assemble", "flushOptions", "flushAll"},
                  t : FlushTimes \cup {0}, closeAll : BOOLEAN, todo : SUBSET Keys]
    BY DEF NoOp
  <1>4. TypeOK
    BY <1>1, <1>2, <1>3 DEF TypeOK
  <1>5. InOrder
    BY <1>2 DEF InOrder, wellPlaced
  <1>6. ASSUME NEW k \in Keys
        PROVE  /\ InStep(isn[k], conns[k], streams[k])
               /\ AllNumbered(isn[k], conns[k].list)
    BY <1>1 DEF InStep, AllNumbered
  <1> QED BY <1>4, <1>5, <1>6 DEF IInv

\* closeConnection leaves an empty slot and passes the log on.
LEMMA CloseKeeps ==
    ASSUME IInv, NEW k \in Keys, NEW log \in Seq(Told), wellPlaced(log),
           closeConnection(k, log), isn' = isn
    PROVE  /\ conns' \in [Keys -> Connection] /\ streams' \in [Keys -> Stream]
           /\ free' \in Seq(Times \cup {0}) /\ used' \in Int
           /\ \A l \in Keys : /\ wellPlaced(streams'[l].log)
                              /\ InStep(isn[l], conns'[l], streams'[l])
                              /\ AllNumbered(isn[l], conns'[l].list)
  <1>1. NoConn \in Connection /\ NoConn.nextSeq = invalidSequence /\ NoConn.list = <<>>
    BY DEF NoConn, Connection
  <1>2. /\ conns \in [Keys -> Connection] /\ streams \in [Keys -> Stream]
        /\ free \in Seq(Times \cup {0}) /\ used \in Int
        /\ \A l \in Keys : /\ wellPlaced(streams[l].log)
                           /\ InStep(isn[l], conns[l], streams[l])
                           /\ AllNumbered(isn[l], conns[l].list)
    BY DEF IInv, TypeOK, InOrder
  <1> DEFINE s == [streams[k] EXCEPT !.log = log, !.complete = TRUE]
  <1>3. s \in Stream /\ s.log = log
    BY <1>2 DEF Stream
  <1>4. conns' = [conns EXCEPT ![k] = NoConn] /\ streams' = [streams EXCEPT ![k] = s]
    BY <1>2 DEF closeConnection
  <1> HIDE DEF s
  <1>5. /\ conns' \in [Keys -> Connection] /\ streams' \in [Keys -> Stream]
        /\ conns'[k] = NoConn /\ streams'[k] = s
        /\ \A l \in Keys \ {k} : conns'[l] = conns[l] /\ streams'[l] = streams[l]
    BY <1>1, <1>2, <1>3, <1>4
  <1>6. conns[k].lastSeen \in Times \cup {0} /\ conns[k].list \in Seq(Page)
    BY <1>2 DEF Connection
  <1>7. free' \in Seq(Times \cup {0}) /\ used' \in Int
    BY <1>2, <1>6 DEF closeConnection
  <1>8. \A l \in Keys : wellPlaced(streams'[l].log)
    BY <1>2, <1>3, <1>5
  <1>9. InStep(isn[k], conns'[k], streams'[k]) /\ AllNumbered(isn[k], conns'[k].list)
    BY <1>1, <1>5 DEF InStep, AllNumbered
  <1> QED BY <1>2, <1>5, <1>7, <1>8, <1>9

\* AssembleWithTimestamp.
LEMMA AssembleIInv ==
    ASSUME SynLen = 0, Reuse = FALSE, IInv, NEW k \in Keys, NEW p \in Packets(k),
           NEW ts \in Times, AssembleWithTimestamp(k, p, ts)
    PROVE  IInv'
  <1> USE ConstantsAssumption
  <1> DEFINE found == conns[k].open
             old == IF free = <<>> THEN 0 ELSE free[Len(free)]
             c0 == IF found THEN conns[k] ELSE newConnection(old)
             c1 == [c0 EXCEPT !.lastSeen = IF @ < ts THEN ts ELSE @,
                              !.heard    = IF @ < ts THEN ts ELSE @]
             s0 == IF found THEN streams[k] ELSE NewStream
             g  == {o \in p.bytes.from .. p.bytes.from + p.bytes.len - 1 : o >= s0.pos}
             s1 == [s0 EXCEPT !.got = @ \cup g]
             w  == Working(k, c1, s1, <<>>)
             x  == assemblePacket(w, p, ts)
  <1>1. /\ isn[k] \in Sequence /\ conns[k] \in Connection /\ streams[k] \in Stream
        /\ used \in Int /\ free \in Seq(Times \cup {0}) /\ wellPlaced(streams[k].log)
        /\ InStep(isn[k], conns[k], streams[k]) /\ AllNumbered(isn[k], conns[k].list)
    BY DEF IInv, TypeOK, InOrder
  <1>2. /\ Store(k, x)
        /\ free' = IF found \/ free = <<>> THEN free ELSE SubSeq(free, 1, Len(free) - 1)
        /\ IF x.ret = <<>> THEN UNCHANGED <<pc, op, cur>>
           ELSE pc' = "send" /\ cur' = k /\ op' = [NoOp EXCEPT !.kind = "assemble"]
        /\ packets' = packets + 1 /\ UNCHANGED <<isn, flushes>> /\ pc = "idle"
    BY DEF AssembleWithTimestamp
  <1>3. /\ c0 \in Connection /\ c0.open /\ AllNumbered(isn[k], c0.list)
        /\ s0 \in Stream /\ wellPlaced(s0.log) /\ InStep(isn[k], c0, s0)
    <2>1. old \in Times \cup {0}
      BY <1>1
    <2> HIDE DEF old
    <2>2. /\ newConnection(old) \in Connection /\ newConnection(old).open
          /\ newConnection(old).nextSeq = invalidSequence /\ newConnection(old).list = <<>>
      <3> DEFINE c == [open |-> TRUE, nextSeq |-> invalidSequence, list |-> <<>>,
                       pages |-> 0, lastSeen |-> old, heard |-> 0]
      <3>1. newConnection(old) = c
        BY DEF newConnection
      <3>2. c \in Connection
        BY <2>1 DEF Connection
      <3> QED BY <3>1, <3>2
    <2>3. NewStream \in Stream /\ NewStream.log = <<>>
      BY DEF NewStream, Stream
    <2>4. /\ AllNumbered(isn[k], newConnection(old).list) /\ wellPlaced(NewStream.log)
          /\ InStep(isn[k], newConnection(old), NewStream)
      BY <2>2, <2>3 DEF AllNumbered, wellPlaced, InStep
    <2> QED BY <1>1, <2>2, <2>3, <2>4
  <1>4. g \subseteq Nat
    <2>1. p.bytes.from \in Nat
      <3>1. p \in Segment(isn[k]) \/ IsSyn(isn[k], p)
        BY <1>1, PacketShape
      <3> QED BY <3>1 DEF Segment, IsSyn, Bytes, NoBytes
    <2>2. p.bytes.len \in Nat
      <3>1. p \in Segment(isn[k]) \/ IsSyn(isn[k], p)
        BY <1>1, PacketShape
      <3> QED BY <3>1 DEF Segment, IsSyn, Bytes, NoBytes
    <2> QED BY <2>1, <2>2
  <1> HIDE DEF c0, s0, g, found
  <1>5. /\ c1 \in Connection /\ c1.open /\ c1.list = c0.list /\ c1.nextSeq = c0.nextSeq
    BY <1>3 DEF Connection
  <1>6. s1 \in Stream /\ s1.log = s0.log /\ s1.pos = s0.pos
    BY <1>3, <1>4 DEF Stream
  <1> HIDE DEF c1, s1
  <1>7. w \in Work /\ w.c = c1 /\ w.s = s1 /\ w.ret = <<>>
    BY <1>1, <1>5, <1>6 DEF Working, Work
  <1> HIDE DEF w
  <1>8. Good(isn[k], w)
    BY <1>3, <1>5, <1>6, <1>7 DEF Good, InStep, wellPlaced
  <1>9. Good(isn[k], x)
    BY <1>1, <1>8, PacketShape, AssembleGood
  <1> HIDE DEF x
  <1>10. /\ conns' \in [Keys -> Connection] /\ streams' \in [Keys -> Stream]
         /\ ret' \in Seq(Told) /\ used' \in Int
         /\ conns'[k] = x.c /\ ret' = x.ret
         /\ InOrder'
         /\ \A l \in Keys : /\ InStep(isn[l], conns'[l], streams'[l])
                            /\ AllNumbered(isn[l], conns'[l].list)
    BY <1>2, <1>9, StoreGood
  <1>11. free' \in Seq(Times \cup {0})
    BY <1>1, <1>2
  <1>12. x.c.open
    BY <1>9 DEF Good
  <1>13. [NoOp EXCEPT !.kind = "assemble"] \in
              [kind : {"none", "assemble", "flushOptions", "flushAll"},
               t : FlushTimes \cup {0}, closeAll : BOOLEAN, todo : SUBSET Keys]
    BY DEF NoOp
  <1>14. TypeOK'
    <2>0. TypeOK
      BY DEF IInv
    <2>1. CASE x.ret = <<>>
      BY <1>2, <1>10, <1>11, <2>0, <2>1 DEF TypeOK
    <2>2. CASE x.ret # <<>>
      <3>1. pc' = "send" /\ cur' = k /\ conns'[cur'].open /\ ret' # <<>>
        BY <1>2, <1>10, <1>12, <2>2
      <3>2. op' \in [kind : {"none", "assemble", "flushOptions", "flushAll"},
                     t : FlushTimes \cup {0}, closeAll : BOOLEAN, todo : SUBSET Keys]
        BY <1>2, <1>13, <2>2
      <3>3. /\ isn' \in [Keys -> ISNs] /\ cur' \in Keys \cup {NoKey}
            /\ packets' \in Nat /\ flushes' \in Nat
            /\ pc' \in {"idle", "send", "flush"} /\ pc' # "idle"
        BY <1>2, <2>0, <3>1 DEF TypeOK
      <3> QED BY <1>10, <1>11, <3>1, <3>2, <3>3 DEF TypeOK
    <2> QED BY <2>1, <2>2
  <1> QED BY <1>2, <1>10, <1>14 DEF IInv

\* What op ranges over.
Op == [kind : {"none", "assemble", "flushOptions", "flushAll"},
       t : FlushTimes \cup {0}, closeAll : BOOLEAN, todo : SUBSET Keys]

\* addContiguous and skipFlush, which pop a page of the locked connection.
LEMMA PopIInv ==
    ASSUME IInv, AddContiguous \/ SkipFlush
    PROVE  IInv'
  <1>0. TypeOK /\ InOrder
    BY DEF IInv
  <1> DEFINE r == IF pc = "send" THEN ret ELSE <<>>
             w == Working(cur, conns[cur], streams[cur], r)
             x == addNextFromConn(w)
  <1>1. /\ cur \in Keys /\ conns[cur].open /\ conns[cur].list # <<>>
        /\ Store(cur, x) /\ pc' = "send"
        /\ UNCHANGED <<isn, free, op, cur, packets, flushes>>
    BY <1>0 DEF AddContiguous, SkipFlush, Contiguous, mustSkip, TypeOK
  <1>2. r \in Seq(Told) /\ wellPlaced(r)
    BY <1>0 DEF TypeOK, InOrder, wellPlaced
  <1> HIDE DEF r
  <1>3. isn[cur] \in Sequence /\ Good(isn[cur], w)
    BY <1>1, <1>2, WorkingGood
  <1>4. w.c.list # <<>>
    BY <1>1 DEF Working
  <1> HIDE DEF w
  <1>5. Good(isn[cur], x) /\ x.ret # <<>>
    BY <1>3, <1>4, AddNextGood
  <1>6. x.c.open
    BY <1>5 DEF Good
  <1> HIDE DEF x
  <1>7. /\ conns' \in [Keys -> Connection] /\ streams' \in [Keys -> Stream]
        /\ ret' \in Seq(Told) /\ used' \in Int
        /\ conns'[cur] = x.c /\ ret' = x.ret
        /\ InOrder'
        /\ \A l \in Keys : /\ InStep(isn[l], conns'[l], streams'[l])
                           /\ AllNumbered(isn[l], conns'[l].list)
    BY <1>1, <1>5, StoreGood
  <1>8. TypeOK'
    BY <1>0, <1>1, <1>5, <1>6, <1>7 DEF TypeOK
  <1> QED BY <1>1, <1>7, <1>8 DEF IInv

\* sendToConnection hands the batch over and may close.
LEMMA SendIInv ==
    ASSUME IInv, SendToConnection
    PROVE  IInv'
  <1>0. TypeOK /\ InOrder
    BY DEF IInv
  <1> DEFINE log == streams[cur].log \o ret
  <1>1. /\ cur \in Keys /\ pc = "send" /\ streams[cur] \in Stream
        /\ ret \in Seq(Told) /\ streams[cur].log \in Seq(Told)
        /\ UNCHANGED <<isn, ret, packets, flushes>>
    BY <1>0 DEF TypeOK, SendToConnection, Stream
  <1>2. log \in Seq(Told) /\ wellPlaced(log)
    <2>1. /\ log \in Seq(Told) /\ Len(log) = Len(streams[cur].log) + Len(ret)
          /\ \A j \in 1 .. Len(log) :
                log[j] = IF j <= Len(streams[cur].log) THEN streams[cur].log[j]
                         ELSE ret[j - Len(streams[cur].log)]
      BY <1>1, ConcatProperties
    <2>2. wellPlaced(streams[cur].log) /\ wellPlaced(ret)
      BY <1>0, <1>1 DEF InOrder
    <2> DEFINE s == streams[cur].log
    <2>3. s \in Seq(Told) /\ wellPlaced(s)
      BY <1>1, <2>2
    <2> HIDE DEF log, s
    <2>4. ASSUME NEW j \in DOMAIN log
          PROVE  log[j].bytes.len > 0 => log[j].bytes.from = log[j].at
      <3>1. j \in 1 .. Len(s) + Len(ret)
        BY <2>1 DEF s
      <3>2. CASE j <= Len(s)
        BY <2>1, <2>3, <3>1, <3>2 DEF wellPlaced, s
      <3>3. CASE j > Len(s)
        <4>1. j - Len(s) \in DOMAIN ret /\ log[j] = ret[j - Len(s)]
          BY <1>1, <2>1, <2>3, <3>1, <3>3 DEF s
        <4> QED BY <2>2, <4>1 DEF wellPlaced
      <3> QED BY <2>3, <3>1, <3>2, <3>3
    <2> QED BY <2>1, <2>4 DEF wellPlaced
  <1> HIDE DEF log
  <1>3. \/ closeConnection(cur, log)
        \/ streams' = [streams EXCEPT ![cur].log = log] /\ UNCHANGED <<conns, free, used>>
    BY DEF SendToConnection, log
  <1>4. /\ conns' \in [Keys -> Connection] /\ streams' \in [Keys -> Stream]
        /\ free' \in Seq(Times \cup {0}) /\ used' \in Int
        /\ \A l \in Keys : /\ wellPlaced(streams'[l].log)
                           /\ InStep(isn[l], conns'[l], streams'[l])
                           /\ AllNumbered(isn[l], conns'[l].list)
    <2>1. CASE closeConnection(cur, log)
      BY <1>1, <1>2, <2>1, CloseKeeps
    <2>2. CASE streams' = [streams EXCEPT ![cur].log = log] /\ UNCHANGED <<conns, free, used>>
      <3> DEFINE s == [streams[cur] EXCEPT !.log = log]
      <3>1. s \in Stream /\ s.log = log /\ s.pos = streams[cur].pos
        BY <1>1, <1>2 DEF Stream
      <3>2. streams' = [streams EXCEPT ![cur] = s]
        BY <2>2
      <3> HIDE DEF s
      <3>3. /\ conns' \in [Keys -> Connection] /\ streams' \in [Keys -> Stream]
            /\ free' \in Seq(Times \cup {0}) /\ used' \in Int
        BY <1>0, <2>2, <3>1, <3>2 DEF TypeOK
      <3>4. ASSUME NEW l \in Keys
            PROVE  /\ wellPlaced(streams'[l].log)
                   /\ InStep(isn[l], conns'[l], streams'[l])
                   /\ AllNumbered(isn[l], conns'[l].list)
        <4>1. /\ wellPlaced(streams[l].log) /\ AllNumbered(isn[l], conns[l].list)
              /\ InStep(isn[l], conns[l], streams[l]) /\ conns'[l] = conns[l]
          BY <2>2 DEF IInv, InOrder
        <4>2. /\ l = cur => streams'[l] = s
              /\ l # cur => streams'[l] = streams[l]
          BY <1>0, <3>2 DEF TypeOK
        <4>3. streams'[l].pos = streams[l].pos /\ wellPlaced(streams'[l].log)
          BY <1>2, <3>1, <4>1, <4>2
        <4> QED BY <4>1, <4>3 DEF InStep
      <3> QED BY <3>3, <3>4
    <2> QED BY <1>3, <2>1, <2>2
  <1>5. InOrder'
    BY <1>0, <1>1, <1>4 DEF InOrder, wellPlaced
  <1>6. /\ op' \in Op /\ cur' \in Keys \cup {NoKey} /\ pc' \in {"idle", "flush"}
        /\ pc' = "idle" => cur' = NoKey
    <2>1. NoOp \in Op /\ op \in Op
      BY <1>0 DEF NoOp, Op, TypeOK
    <2> QED BY <1>1, <2>1 DEF SendToConnection
  <1>7. TypeOK'
    BY <1>0, <1>1, <1>4, <1>6 DEF TypeOK, Op
  <1> QED BY <1>1, <1>4, <1>5, <1>7 DEF IInv

\* The steps that only move a handler on.
LEMMA ControlIInv ==
    ASSUME IInv,
           \/ \E k \in Keys : \E p \in Packets(k) : AssembleNothing(k, p)
           \/ FlushWithOptions \/ FlushAll
           \/ \E k \in Keys : FlushNext(k)
           \/ FlushLeave \/ FlushReturn
           \/ UNCHANGED vars
    PROVE  IInv'
  <1> USE ConstantsAssumption
  <1>0. TypeOK /\ InOrder
    BY DEF IInv
  <1>1. UNCHANGED <<isn, conns, free, used, streams>>
    BY DEF AssembleNothing, FlushWithOptions, FlushAll, FlushStart, FlushNext,
           FlushLeave, FlushReturn, vars
  <1>2. ret' \in {ret, <<>>}
    BY DEF AssembleNothing, FlushWithOptions, FlushAll, FlushStart, FlushNext,
           FlushLeave, FlushReturn, vars
  <1>3. InOrder'
    BY <1>0, <1>1, <1>2 DEF InOrder, wellPlaced
  <1>4. \A k \in Keys : /\ InStep(isn[k], conns[k], streams[k])'
                        /\ AllNumbered(isn[k], conns[k].list)'
    BY <1>1 DEF IInv, InStep, AllNumbered, Numbered
  <1>5. NoOp \in Op /\ op \in Op /\ op.todo \subseteq Keys
    BY <1>0 DEF NoOp, Op, TypeOK
  <1>6. /\ op' \in Op /\ cur' \in Keys \cup {NoKey} /\ pc' \in {"idle", "send", "flush"}
        /\ packets' \in Nat /\ flushes' \in Nat
        /\ pc' = "idle" => cur' = NoKey
        /\ pc' = "send" => cur' = cur /\ pc = "send" /\ ret' = ret
    <2>1. CASE \E k \in Keys : \E p \in Packets(k) : AssembleNothing(k, p)
      BY <1>0, <1>5, <2>1 DEF AssembleNothing, TypeOK
    <2>2. CASE FlushWithOptions
      <3>1. PICK t \in FlushTimes, all \in BOOLEAN : FlushStart("flushOptions", t, all)
        BY <2>2 DEF FlushWithOptions
      <3>2. [kind |-> "flushOptions", t |-> t, closeAll |-> all,
             todo |-> {k \in Keys : conns[k].open}] \in Op
        BY DEF Op
      <3> QED BY <1>0, <3>1, <3>2 DEF FlushStart, TypeOK
    <2>3. CASE FlushAll
      <3>1. [kind |-> "flushAll", t |-> 0, closeAll |-> TRUE,
             todo |-> {k \in Keys : conns[k].open}] \in Op
        BY DEF Op
      <3> QED BY <1>0, <2>3, <3>1 DEF FlushAll, FlushStart, TypeOK
    <2>4. CASE \E k \in Keys : FlushNext(k)
      <3>1. PICK k \in Keys : FlushNext(k)
        BY <2>4
      <3>2. [op EXCEPT !.todo = op.todo \ {k}] \in Op
        BY <1>5 DEF Op
      <3> QED BY <1>0, <3>1, <3>2 DEF FlushNext, TypeOK
    <2>5. CASE FlushLeave \/ FlushReturn \/ UNCHANGED vars
      BY <1>0, <1>5, <2>5 DEF FlushLeave, FlushReturn, vars, TypeOK
    <2> QED BY <2>1, <2>2, <2>3, <2>4, <2>5
  <1>7. ret' \in Seq(Told)
    <2>1. <<>> \in Seq(Told) /\ ret \in Seq(Told)
      BY <1>0 DEF TypeOK
    <2> QED BY <1>2, <2>1, Zenon
  <1>8. TypeOK'
    BY <1>0, <1>1, <1>6, <1>7 DEF TypeOK, Op
  <1> QED BY <1>3, <1>4, <1>8 DEF IInv

\* FlushWithOptions and FlushAll close a drained connection.
LEMMA FlushCloseIInv ==
    ASSUME IInv, FlushClose
    PROVE  IInv'
  <1>0. TypeOK /\ InOrder
    BY DEF IInv
  <1>1. /\ cur \in Keys /\ closeConnection(cur, streams[cur].log) /\ cur' = NoKey
        /\ pc = "flush" /\ UNCHANGED <<isn, ret, pc, op, packets, flushes>>
    BY <1>0 DEF TypeOK, FlushClose
  <1>2. streams[cur].log \in Seq(Told) /\ wellPlaced(streams[cur].log)
    BY <1>0, <1>1 DEF TypeOK, InOrder, Stream
  <1>3. /\ conns' \in [Keys -> Connection] /\ streams' \in [Keys -> Stream]
        /\ free' \in Seq(Times \cup {0}) /\ used' \in Int
        /\ \A l \in Keys : /\ wellPlaced(streams'[l].log)
                           /\ InStep(isn[l], conns'[l], streams'[l])
                           /\ AllNumbered(isn[l], conns'[l].list)
    BY <1>1, <1>2, CloseKeeps
  <1>4. InOrder'
    BY <1>0, <1>1, <1>3 DEF InOrder, wellPlaced
  <1>5. TypeOK'
    BY <1>0, <1>1, <1>3 DEF TypeOK
  <1> QED BY <1>1, <1>3, <1>4, <1>5 DEF IInv

-----------------------------------------------------------------------------
\* IInv is an invariant of an Assembler fed SYN packets without data, on
\* flows that are not reused: one step per handler or handler step.
THEOREM Inductive ==
    ASSUME SynLen = 0, Reuse = FALSE
    PROVE  Spec => []IInv
  <1>1. IInv /\ [Next]_vars => IInv'
    <2> SUFFICES ASSUME IInv, [Next]_vars PROVE IInv'
      OBVIOUS
    <2>1. CASE \E k \in Keys : \E p \in Packets(k) : \E ts \in Times :
                  AssembleWithTimestamp(k, p, ts)
      BY <2>1, AssembleIInv
    <2>2. CASE AddContiguous \/ SkipFlush
      BY <2>2, PopIInv
    <2>3. CASE SendToConnection
      BY <2>3, SendIInv
    <2>4. CASE FlushClose
      BY <2>4, FlushCloseIInv
    <2>5. CASE \/ \E k \in Keys : \E p \in Packets(k) : AssembleNothing(k, p)
               \/ FlushWithOptions \/ FlushAll
               \/ \E k \in Keys : FlushNext(k)
               \/ FlushLeave \/ FlushReturn
               \/ UNCHANGED vars
      BY <2>5, ControlIInv
    <2> QED BY <2>1, <2>2, <2>3, <2>4, <2>5 DEF Next, Step
  <1> QED BY InitIInv, <1>1, PTL DEF Spec

\* Every stream is passed its bytes in order with exact Skips, whatever the
\* network does to the packets: the guarantee of the Stream interface.
THEOREM InOrderHolds ==
    ASSUME SynLen = 0, Reuse = FALSE
    PROVE  Spec => []InOrder
  <1>1. IInv => InOrder
    BY DEF IInv
  <1> QED BY Inductive, <1>1, PTL

-----------------------------------------------------------------------------
(***************************************************************************)
(* What an Assembler keeps count of, for any packets at all, with data in  *)
(* SYNs and with flows that are used again.                                *)
(***************************************************************************)

\* No packet needs more than one page.
OnePage == MaxLen <= PageBytes /\ SynLen <= PageBytes

\* A connection's counters.
Booked(c) ==
    /\ c.pages = Len(c.list)
    /\ ~c.open => c.list = <<>>
    /\ c.heard <= c.lastSeen
    /\ OnePage /\ MaxBufferedPagesPerConnection > 0 =>
          Len(c.list) < MaxBufferedPagesPerConnection

\* The first page is not to be delivered yet.
Blocked(c) ==
    c.list # <<>> /\ c.nextSeq # invalidSequence =>
        Difference(c.nextSeq, Head(c.list).seq) > 0

\* What a flush has left to do.
Flushing ==
    /\ pc = "idle" => op.kind = "none"
    /\ pc = "flush" => op.kind \in {"flushOptions", "flushAll"}
    /\ pc = "send" => op.kind # "none"
    /\ op.kind = "flushAll" =>
          \A k \in Keys : conns[k].open => k \in op.todo \/ k = cur
    /\ op.kind = "flushOptions" =>
          \A k \in Keys : conns[k].list # <<>> =>
              k \in op.todo \/ k = cur \/ Head(conns[k].list).seen >= op.t

\* The page cache's count.
Counted ==
    /\ IsFiniteSet(BufferedPages) /\ used = Cardinality(BufferedPages)
    /\ OnePage /\ MaxBufferedPagesTotal > 0 => used < MaxBufferedPagesTotal

\* The inductive invariant of the counts, the limits and the flushes.
BookInv ==
    /\ TypeOK /\ Flushing /\ Counted
    /\ \A k \in Keys : Booked(conns[k])
    /\ \A k \in Keys : (pc = "send" /\ cur = k) \/ Blocked(conns[k])

\* A packet of any kind.
AnyPacket == [syn : BOOLEAN, seq : Sequence, bytes : Bytes, end : BOOLEAN]

\* Add stays in the sequence space.
LEMMA AddType == ASSUME NEW s \in Sequence, NEW n \in Nat PROVE Add(s, n) \in Sequence
  BY QuarterAssumption DEF Add, Sequence, SeqSpace

\* byteSpan cuts a payload down and expects a sequence number next.
LEMMA SpanType ==
    ASSUME NEW e \in Sequence \cup {invalidSequence}, NEW r \in Sequence, NEW b \in Bytes
    PROVE  byteSpan(e, r, b).bytes \in Bytes /\ byteSpan(e, r, b).next \in Sequence
  <1>1. b.from \in Nat /\ b.len \in Nat /\ NoBytes \in Bytes
    BY DEF Bytes, NoBytes
  <1>2. Add(r, b.len) \in Sequence
    BY <1>1, AddType
  <1>3. PICK d : d = Difference(r, e)
    OBVIOUS
  <1>4. CASE e = invalidSequence \/ d <= 0
    <2>1. byteSpan(e, r, b) = [bytes |-> b, next |-> Add(r, b.len)]
      BY <1>3, <1>4 DEF byteSpan
    <2> QED BY <1>2, <2>1
  <1>5. CASE ~(e = invalidSequence \/ d <= 0)
    <2>1. e \in Sequence /\ d \in Int
      BY <1>3, <1>5, QuarterAssumption DEF Difference, Sequence, SeqSpace
    <2>2. CASE b.len < d
      <3>1. byteSpan(e, r, b) = [bytes |-> NoBytes, next |-> e]
        BY <1>3, <1>5, <2>2 DEF byteSpan
      <3> QED BY <1>1, <2>1, <3>1
    <2>3. CASE ~(b.len < d)
      <3>1. byteSpan(e, r, b) = [bytes |-> Slice(b, d), next |-> Add(e, b.len - d)]
        BY <1>3, <1>5, <2>3 DEF byteSpan
      <3>2. b.from + d \in Nat /\ b.len - d \in Nat
        BY <1>1, <1>5, <2>1, <2>3
      <3>3. Add(e, b.len - d) \in Sequence
        BY <2>1, <3>2, AddType
      <3> QED BY <3>1, <3>2, <3>3 DEF Slice, Bytes
    <2> QED BY <2>2, <2>3
  <1> QED BY <1>4, <1>5

\* appendRet changes what is told and the reader's position, nothing else.
LEMMA AppendType ==
    ASSUME NEW x \in Work, NEW r \in Reassemblies, NEW y, y = appendRet(x, r)
    PROVE  /\ y \in Work /\ y.c = x.c /\ y.used = x.used /\ y.ret # <<>>
           /\ y.s.log = x.s.log /\ y.s.got = x.s.got
           /\ y.s.pos = readerAt(x.s.pos, r) + r.bytes.len
           /\ \E v \in Told : v.bytes = r.bytes /\ y.ret = Append(x.ret, v)
  <1>1. x.ret \in Seq(Told) /\ x.s \in Stream /\ x.s.pos \in Int
    BY DEF Work, Stream
  <1>2. PICK at \in Int : at = readerAt(x.s.pos, r)
    BY <1>1 DEF readerAt, Reassemblies, Bytes
  <1>3. PICK v : v = [bytes |-> r.bytes, skip |-> r.skip, start |-> r.start, end |-> r.end, at |-> at]
    OBVIOUS
  <1>4. v \in Told /\ v.bytes = r.bytes
    BY <1>3 DEF Told, Reassemblies
  <1>5. PICK n \in Int : n = at + r.bytes.len
    BY DEF Reassemblies, Bytes
  <1>6. PICK s : s = [x.s EXCEPT !.pos = n]
    OBVIOUS
  <1>7. s \in Stream /\ s.pos = n /\ s.log = x.s.log /\ s.got = x.s.got
    BY <1>1, <1>6 DEF Stream
  <1>8. PICK q : q = Append(x.ret, v)
    OBVIOUS
  <1>9. q \in Seq(Told) /\ q # <<>>
    BY <1>1, <1>4, <1>8, AppendProperties
  <1>10. y = [x EXCEPT !.ret = q, !.s = s]
    BY <1>2, <1>3, <1>5, <1>6, <1>8 DEF appendRet
  <1>11. y \in Work /\ y.c = x.c /\ y.used = x.used /\ y.ret = q /\ y.s = s
    BY <1>7, <1>9, <1>10 DEF Work
  <1> QED BY <1>2, <1>4, <1>5, <1>7, <1>8, <1>9, <1>11

\* addNextFromConn takes the first page off the list and off both counts.
LEMMA PopType ==
    ASSUME NEW x \in Work, x.c.list # <<>>, NEW z, z = addNextFromConn(x)
    PROVE  /\ z \in Work /\ z.ret # <<>> /\ z.c.list = Tail(x.c.list)
           /\ Len(z.c.list) = Len(x.c.list) - 1
           /\ z.c.pages = x.c.pages - 1 /\ z.used = x.used - 1
           /\ z.c.open = x.c.open /\ z.c.lastSeen = x.c.lastSeen /\ z.c.heard = x.c.heard
           /\ z.c.nextSeq \in Sequence
           /\ z.s.log = x.s.log /\ z.s.got = x.s.got
           /\ \E v \in Told :
                /\ v.bytes = byteSpan(x.c.nextSeq, Head(x.c.list).seq, Head(x.c.list).bytes).bytes
                /\ z.ret = Append(x.ret, v)
  <1>1. /\ x.c \in Connection /\ x.c.list \in Seq(Page) /\ x.c.pages \in Int /\ x.used \in Int
        /\ x.c.nextSeq \in Sequence \cup {invalidSequence}
    BY DEF Work, Connection
  <1>2. PICK first \in Page : first = Head(x.c.list)
    BY <1>1
  <1>3. PICK q \in Seq(Page) : q = Tail(x.c.list) /\ Len(q) = Len(x.c.list) - 1
    <2>1. PICK l \in Seq(Page) : l = x.c.list /\ l # <<>>
      BY <1>1
    <2>2. Tail(l) \in Seq(Page) /\ Len(Tail(l)) = Len(l) - 1
      BY <2>1, HeadTailProperties
    <2> QED BY <2>1, <2>2
  <1>4. first.seq \in Sequence /\ first.bytes \in Bytes /\ first.end \in BOOLEAN
    BY DEF Page
  <1>5. PICK span : span = byteSpan(x.c.nextSeq, first.seq, first.bytes)
    OBVIOUS
  <1>6. span.bytes \in Bytes /\ span.next \in Sequence
    BY <1>1, <1>4, <1>5, SpanType
  <1>7. PICK diff : diff = Difference(x.c.nextSeq, first.seq)
    OBVIOUS
  <1>8. PICK skip : skip = IF x.c.nextSeq = invalidSequence THEN -1 ELSE IF diff > 0 THEN diff ELSE 0
    OBVIOUS
  <1>9. skip \in Int
    <2>1. x.c.nextSeq # invalidSequence => diff \in Int
      BY <1>1, <1>4, <1>7, QuarterAssumption DEF Difference, Sequence, SeqSpace
    <2> QED BY <1>8, <2>1
  <1>10. PICK r : r = Reassembly(span.bytes, skip, FALSE, first.end)
    OBVIOUS
  <1>11. r \in Reassemblies /\ r.bytes = span.bytes
    BY <1>4, <1>6, <1>9, <1>10 DEF Reassembly, Reassemblies
  <1>12. PICK y : y = appendRet(x, r)
    OBVIOUS
  <1>13. /\ y \in Work /\ y.ret # <<>> /\ y.s.log = x.s.log /\ y.s.got = x.s.got
         /\ \E v \in Told : v.bytes = r.bytes /\ y.ret = Append(x.ret, v)
    BY <1>11, <1>12, AppendType
  <1>14. PICK e \in Sequence : e = span.next
    BY <1>6
  <1>15. PICK m \in Int : m = x.c.pages - 1
    BY <1>1
  <1>16. PICK c : c = [x.c EXCEPT !.nextSeq = e, !.list = q, !.pages = m]
    OBVIOUS
  <1>17. /\ c \in Connection /\ c.nextSeq = e /\ c.list = q /\ c.pages = m /\ c.open = x.c.open
         /\ c.lastSeen = x.c.lastSeen /\ c.heard = x.c.heard
    BY <1>1, <1>16 DEF Connection
  <1>18. PICK u \in Int : u = x.used - 1
    BY <1>1
  <1>19. z = [y EXCEPT !.c = c, !.used = u]
    BY <1>2, <1>3, <1>5, <1>7, <1>8, <1>10, <1>12, <1>14, <1>15, <1>16, <1>18 DEF addNextFromConn
  <1>20. z \in Work /\ z.c = c /\ z.used = u /\ z.s = y.s /\ z.ret = y.ret
    BY <1>13, <1>17, <1>19 DEF Work
  <1> QED BY <1>2, <1>3, <1>5, <1>11, <1>13, <1>15, <1>17, <1>18, <1>20

\* pagesFromTCP copies a packet into one page or more, the first of them
\* numbered as the packet, and into one where it fits.
LEMMA PagesType ==
    ASSUME NEW p \in AnyPacket, NEW ts \in Times, NEW new, new = pagesFromTCP(p, ts)
    PROVE  /\ new \in Seq(Page) /\ Len(new) = numPages(p.bytes) /\ Len(new) \in Nat \ {0}
           /\ new[1].seq = p.seq
           /\ p.bytes.len <= PageBytes => Len(new) = 1
           /\ \A j \in 1 .. Len(new) :
                /\ (j - 1) * PageBytes \in 0 .. p.bytes.len
                /\ new[j].bytes.from = p.bytes.from + (j - 1) * PageBytes
                /\ new[j].bytes.len = IF p.bytes.len - (j - 1) * PageBytes < PageBytes
                                      THEN p.bytes.len - (j - 1) * PageBytes ELSE PageBytes
  <1>0. PageBytes \in Nat \ {0}
    BY ConstantsAssumption
  <1>1. PICK b \in Bytes : b = p.bytes
    BY DEF AnyPacket
  <1>2. b.from \in Nat /\ b.len \in Nat /\ p.seq \in Sequence /\ p.end \in BOOLEAN /\ p.syn \in BOOLEAN
    BY DEF Bytes, AnyPacket
  <1>3. PICK l \in Nat : l = b.len
    BY <1>2
  <1>4. PICK n : n = numPages(b)
    OBVIOUS
  <1>5. n = IF l = 0 THEN 1 ELSE (l + PageBytes - 1) \div PageBytes
    BY <1>3, <1>4 DEF numPages
  <1>6. n \in Nat \ {0}
    <2>1. l # 0 => (l + PageBytes - 1) \div PageBytes \in Nat \ {0}
      BY <1>0
    <2> QED BY <1>5, <2>1
  <1>7. l <= PageBytes => n = 1
    <2>1. CASE l # 0 /\ l <= PageBytes
      <3>1. (l + PageBytes - 1) \div PageBytes = 1
        BY <1>0, <2>1
      <3> QED BY <1>5, <2>1, <3>1
    <2> QED BY <1>5, <2>1
  <1>8. ASSUME NEW j \in 1 .. n PROVE (j - 1) * PageBytes \in 0 .. l
    <2>1. CASE l = 0
      <3>1. j = 1
        BY <1>5, <2>1
      <3> QED BY <1>0, <1>3, <3>1
    <2>2. CASE l # 0
      <3>1. j \in 1 .. (l + PageBytes - 1) \div PageBytes
        BY <1>5, <2>2
      <3>2. (j - 1) * PageBytes \in 0 .. l - 1
        BY <1>0, <2>2, <3>1, PageInside
      <3> QED BY <1>3, <3>2
    <2> QED BY <2>1, <2>2
  <1>9. PICK page : page = [j \in 1 .. n |->
            [seq   |-> Add(p.seq, (j - 1) * PageBytes),
             bytes |-> [from |-> b.from + (j - 1) * PageBytes,
                        len  |-> IF l - (j - 1) * PageBytes < PageBytes
                                 THEN l - (j - 1) * PageBytes ELSE PageBytes],
             end   |-> p.end /\ j = n, syn |-> p.syn, seen |-> ts]]
    OBVIOUS
  <1>10. new = page
    BY <1>1, <1>3, <1>4, <1>9 DEF pagesFromTCP
  <1>11. ASSUME NEW j \in 1 .. n
         PROVE  /\ page[j] \in Page /\ page[j].bytes.from = b.from + (j - 1) * PageBytes
                /\ page[j].bytes.len = IF l - (j - 1) * PageBytes < PageBytes
                                       THEN l - (j - 1) * PageBytes ELSE PageBytes
                /\ page[j].seq = Add(p.seq, (j - 1) * PageBytes)
    <2>1. PICK d \in 0 .. l : d = (j - 1) * PageBytes
      BY <1>8
    <2>2. PICK m : m = IF l - d < PageBytes THEN l - d ELSE PageBytes
      OBVIOUS
    <2>3. m \in Nat /\ d \in Nat /\ b.from + d \in Nat
      BY <1>0, <1>2, <1>3, <2>2
    <2>4. page[j] = [seq |-> Add(p.seq, d), bytes |-> [from |-> b.from + d, len |-> m],
                     end |-> p.end /\ j = n, syn |-> p.syn, seen |-> ts]
      BY <1>9, <2>1, <2>2
    <2>5. Add(p.seq, d) \in Sequence /\ [from |-> b.from + d, len |-> m] \in Bytes
      BY <1>2, <2>3, AddType DEF Bytes
    <2> QED BY <1>2, <2>1, <2>2, <2>4, <2>5 DEF Page
  <1>12. new \in Seq(Page) /\ Len(new) = n
    <2>1. page \in [1 .. n -> Page]
      BY <1>9, <1>11
    <2> QED BY <1>6, <1>10, <2>1
  <1>13. new[1].seq = p.seq
    <2>1. 1 \in 1 .. n /\ (1 - 1) * PageBytes = 0
      BY <1>0, <1>6
    <2>2. page[1].seq = Add(p.seq, 0)
      BY <1>11, <2>1
    <2>3. Add(p.seq, 0) = p.seq
      BY <1>2, QuarterAssumption DEF Add, Sequence, SeqSpace
    <2> QED BY <1>10, <2>2, <2>3
  <1> QED BY <1>1, <1>3, <1>4, <1>6, <1>7, <1>8, <1>10, <1>11, <1>12, <1>13

\* pushBetween makes the list longer by the new pages; it begins with the
\* page it began with, or with the first new one.
LEMMA PushType ==
    ASSUME NEW list \in Seq(Page), NEW new \in Seq(Page), new # <<>>, NEW m \in 0 .. Len(list),
           NEW q, q = pushBetween(list, m, new)
    PROVE  /\ q \in Seq(Page) /\ Len(q) = Len(list) + Len(new) /\ q # <<>>
           /\ Head(q) = IF m = 0 THEN new[1] ELSE list[1]
           /\ \A j \in 1 .. Len(q) : q[j] = IF j <= m THEN list[j]
                                            ELSE IF j <= m + Len(new) THEN new[j - m]
                                            ELSE list[j - Len(new)]
  <1>1. PICK a \in Nat, b \in Nat : a = Len(list) /\ b = Len(new)
    OBVIOUS
  <1>2. b # 0 /\ \A j \in 1 .. a : list[j] \in Page
    BY <1>1
  <1>3. \A j \in 1 .. b : new[j] \in Page
    BY <1>1
  <1>4. q = [j \in 1 .. a + b |-> IF j <= m THEN list[j]
                                  ELSE IF j <= m + b THEN new[j - m] ELSE list[j - b]]
    BY <1>1 DEF pushBetween
  <1>5. ASSUME NEW j \in 1 .. a + b PROVE q[j] \in Page
    <2>1. CASE j <= m
      <3>1. j \in 1 .. a /\ q[j] = list[j]
        BY <1>1, <1>4, <2>1
      <3> QED BY <1>2, <3>1
    <2>2. CASE j > m /\ j <= m + b
      <3>1. j - m \in 1 .. b /\ q[j] = new[j - m]
        BY <1>1, <1>4, <2>2
      <3> QED BY <1>3, <3>1
    <2>3. CASE j > m + b
      <3>1. j - b \in 1 .. a /\ q[j] = list[j - b]
        BY <1>1, <1>4, <2>3
      <3> QED BY <1>2, <3>1
    <2> QED BY <1>1, <2>1, <2>2, <2>3
  <1>6. q \in Seq(Page) /\ Len(q) = a + b
    <2>1. PICK l \in Nat : l = a + b
      OBVIOUS
    <2>2. q \in [1 .. l -> Page]
      BY <1>4, <1>5, <2>1
    <2> QED BY <2>1, <2>2
  <1>7. q # <<>> /\ 1 \in 1 .. a + b
    BY <1>2, <1>6
  <1>8. Head(q) = q[1]
    BY <1>6, <1>7
  <1>9. q[1] = IF m = 0 THEN new[1] ELSE list[1]
    <2>1. CASE m = 0
      <3>1. ~(1 <= m) /\ 1 <= m + b /\ 1 - m = 1
        BY <1>2, <2>1
      <3> QED BY <1>4, <1>7, <2>1, <3>1
    <2>2. CASE m # 0
      <3>1. 1 <= m
        BY <2>2
      <3> QED BY <1>4, <1>7, <2>2, <3>1
    <2> QED BY <2>1, <2>2
  <1> QED BY <1>1, <1>4, <1>6, <1>7, <1>8, <1>9

\* The counts of the connection a handler works on, and the limits.
BookWork(x) ==
    /\ x \in Work /\ x.c.open
    /\ x.c.pages = Len(x.c.list) /\ x.c.heard <= x.c.lastSeen

Within(c, u) ==
    OnePage => /\ MaxBufferedPagesPerConnection > 0 => Len(c.list) < MaxBufferedPagesPerConnection
               /\ MaxBufferedPagesTotal > 0 => u < MaxBufferedPagesTotal

\* insertIntoConn keeps the counts, gets below a limit it has reached, and
\* leaves a first page to wait unless it pops one.
LEMMA InsertBooks ==
    ASSUME NEW x, BookWork(x), Within(x.c, x.used), Blocked(x.c),
           NEW p \in AnyPacket, OnePage => p.bytes.len <= PageBytes,
           x.c.nextSeq # invalidSequence => Difference(x.c.nextSeq, p.seq) > 0,
           NEW ts \in Times, NEW z, z = insertIntoConn(x, p, ts)
    PROVE  /\ BookWork(z) /\ Within(z.c, z.used) /\ (z.ret = <<>> => Blocked(z.c))
           /\ z.used - Len(z.c.list) = x.used - Len(x.c.list)
           /\ z.s.log = x.s.log
  <1>0. /\ MaxBufferedPagesPerConnection \in Nat /\ MaxBufferedPagesTotal \in Nat
        /\ Times \subseteq Nat
    BY ConstantsAssumption
  <1>1. /\ x \in Work /\ x.c \in Connection /\ x.c.open /\ x.used \in Int
        /\ x.c.pages = Len(x.c.list) /\ x.c.heard <= x.c.lastSeen
    BY DEF BookWork, Work
  <1>2. PICK list \in Seq(Page), a \in Nat : list = x.c.list /\ a = Len(list)
    BY <1>1 DEF Connection
  <1>3. PICK new : new = pagesFromTCP(p, ts)
    OBVIOUS
  <1>4. PICK b \in Nat \ {0} : /\ b = Len(new) /\ new \in Seq(Page) /\ new[1].seq = p.seq
                               /\ OnePage => b = 1
    BY <1>3, PagesType
  <1>5. new # <<>>
    BY <1>4
  <1>6. PICK m \in 0 .. Len(list) : m = traverseConn(list, p.seq)
    BY TraverseInList
  <1>7. PICK q : q = pushBetween(list, m, new)
    OBVIOUS
  <1>8. /\ q \in Seq(Page) /\ Len(q) = a + b /\ q # <<>>
        /\ Head(q) = IF m = 0 THEN new[1] ELSE list[1]
    BY <1>2, <1>4, <1>5, <1>7, PushType
  <1>9. PICK n \in Int, u \in Int : n = a + b /\ u = x.used + b
    BY <1>1
  <1>10. PICK c : c = [x.c EXCEPT !.list = q, !.pages = n]
    OBVIOUS
  <1>11. /\ c \in Connection /\ c.open /\ c.list = q /\ c.pages = n /\ c.nextSeq = x.c.nextSeq
         /\ c.lastSeen = x.c.lastSeen /\ c.heard = x.c.heard
    BY <1>1, <1>8, <1>10 DEF Connection
  <1>12. PICK y : y = [x EXCEPT !.c = c, !.used = u]
    OBVIOUS
  <1>13. y \in Work /\ y.c = c /\ y.used = u /\ y.s = x.s /\ y.ret = x.ret
    BY <1>1, <1>11, <1>12 DEF Work
  <1>14. z = IF \/ MaxBufferedPagesPerConnection > 0 /\ n >= MaxBufferedPagesPerConnection
                \/ MaxBufferedPagesTotal > 0 /\ u >= MaxBufferedPagesTotal
             THEN addNextFromConn(y) ELSE y
    <2>1. x.c.pages + Len(new) = n /\ x.used + Len(new) = u
      BY <1>1, <1>2, <1>4, <1>9
    <2> QED BY <1>2, <1>3, <1>6, <1>7, <1>10, <1>11, <1>12, <1>13, <2>1 DEF insertIntoConn
  <1>15. CASE z = y /\ (MaxBufferedPagesPerConnection > 0 => n < MaxBufferedPagesPerConnection)
                    /\ (MaxBufferedPagesTotal > 0 => u < MaxBufferedPagesTotal)
    <2>1. BookWork(z)
      BY <1>1, <1>8, <1>9, <1>11, <1>13, <1>15 DEF BookWork
    <2>2. Within(z.c, z.used)
      BY <1>8, <1>9, <1>11, <1>13, <1>15 DEF Within
    <2>3. Blocked(z.c)
      <3> SUFFICES ASSUME x.c.nextSeq # invalidSequence
                   PROVE  Difference(x.c.nextSeq, Head(q).seq) > 0
        BY <1>11, <1>13, <1>15 DEF Blocked
      <3>1. CASE m = 0
        BY <1>4, <1>8, <3>1
      <3>2. CASE m # 0
        <4>1. list # <<>> /\ Head(list) = list[1]
          BY <3>2
        <4> QED BY <1>2, <1>8, <3>2, <4>1 DEF Blocked
      <3> QED BY <3>1, <3>2
    <2>4. z.used - Len(z.c.list) = x.used - Len(x.c.list)
      <3>1. (x.used + b) - (a + b) = x.used - a
        BY <1>1
      <3> QED BY <1>2, <1>8, <1>9, <1>11, <1>13, <1>15, <3>1
    <2> QED BY <1>13, <1>15, <2>1, <2>2, <2>3, <2>4
  <1>16. CASE z = addNextFromConn(y)
    <2>1. /\ z \in Work /\ z.ret # <<>> /\ Len(z.c.list) = Len(y.c.list) - 1
          /\ z.c.pages = y.c.pages - 1 /\ z.used = y.used - 1
          /\ z.c.open = y.c.open /\ z.c.lastSeen = y.c.lastSeen /\ z.c.heard = y.c.heard
          /\ z.s.log = y.s.log
      BY <1>8, <1>11, <1>13, <1>16, PopType
    <2>2. Len(z.c.list) = (a + b) - 1 /\ z.c.pages = (a + b) - 1 /\ z.used = (x.used + b) - 1
      BY <1>8, <1>9, <1>11, <1>13, <2>1
    <2>3. BookWork(z)
      BY <1>1, <1>11, <1>13, <2>1, <2>2 DEF BookWork
    <2>4. Within(z.c, z.used)
      <3> SUFFICES ASSUME OnePage
                   PROVE  Within(z.c, z.used)
        BY DEF Within
      <3>1. b = 1
        BY <1>4
      <3>2. (a + b) - 1 = a /\ (x.used + b) - 1 = x.used
        BY <1>1, <3>1
      <3> QED BY <1>2, <2>2, <3>2 DEF Within
    <2>5. z.used - Len(z.c.list) = x.used - Len(x.c.list)
      <3>1. ((x.used + b) - 1) - ((a + b) - 1) = x.used - a
        BY <1>1
      <3> QED BY <1>2, <2>2, <3>1
    <2> QED BY <1>13, <2>1, <2>3, <2>4, <2>5
  <1>17. \/ z = y /\ (MaxBufferedPagesPerConnection > 0 => n < MaxBufferedPagesPerConnection)
                  /\ (MaxBufferedPagesTotal > 0 => u < MaxBufferedPagesTotal)
         \/ z = addNextFromConn(y)
    BY <1>0, <1>9, <1>14
  <1> QED BY <1>15, <1>16, <1>17

\* The body of AssembleWithTimestamp keeps the counts and the limits; a
\* connection it has nothing to send for is left waiting.
LEMMA AssembleBooks ==
    ASSUME NEW x, BookWork(x), Within(x.c, x.used), Blocked(x.c),
           NEW p \in AnyPacket, OnePage => p.bytes.len <= PageBytes,
           NEW ts \in Times, NEW z, z = assemblePacket(x, p, ts)
    PROVE  /\ BookWork(z) /\ Within(z.c, z.used) /\ (z.ret = <<>> => Blocked(z.c))
           /\ z.used - Len(z.c.list) = x.used - Len(x.c.list)
           /\ z.s.log = x.s.log
  <1>1. /\ x \in Work /\ x.c \in Connection /\ x.c.open /\ x.used \in Int
        /\ x.c.pages = Len(x.c.list) /\ x.c.heard <= x.c.lastSeen
        /\ x.c.nextSeq \in Sequence \cup {invalidSequence}
    BY DEF BookWork, Work, Connection
  <1>2. p.bytes \in Bytes /\ p.bytes.len \in Nat /\ p.seq \in Sequence /\ p.end \in BOOLEAN
    BY DEF AnyPacket, Bytes
  <1>3. ASSUME NEW r \in Reassemblies, NEW e \in Sequence,
               z = [appendRet(x, r) EXCEPT !.c = [x.c EXCEPT !.nextSeq = e]]
        PROVE  /\ BookWork(z) /\ Within(z.c, z.used) /\ (z.ret = <<>> => Blocked(z.c))
               /\ z.used - Len(z.c.list) = x.used - Len(x.c.list)
               /\ z.s.log = x.s.log
    <2>1. PICK y : y = appendRet(x, r)
      OBVIOUS
    <2>2. y \in Work /\ y.used = x.used /\ y.ret # <<>> /\ y.s.log = x.s.log
      BY <1>1, <2>1, AppendType
    <2>3. PICK c : c = [x.c EXCEPT !.nextSeq = e]
      OBVIOUS
    <2>4. /\ c \in Connection /\ c.open /\ c.list = x.c.list /\ c.pages = x.c.pages
          /\ c.lastSeen = x.c.lastSeen /\ c.heard = x.c.heard
      BY <1>1, <2>3 DEF Connection
    <2>5. z = [y EXCEPT !.c = c]
      BY <1>3, <2>1, <2>3
    <2>6. z \in Work /\ z.c = c /\ z.used = x.used /\ z.ret # <<>> /\ z.s = y.s
      BY <2>2, <2>4, <2>5 DEF Work
    <2> QED BY <1>1, <2>2, <2>4, <2>6 DEF BookWork, Within
  <1>4. CASE x.c.nextSeq = invalidSequence /\ p.syn
    <2>1. PICK r : r = Reassembly(p.bytes, 0, TRUE, FALSE)
      OBVIOUS
    <2>2. r \in Reassemblies
      BY <1>2, <2>1 DEF Reassembly, Reassemblies
    <2>3. PICK e \in Sequence : e = Add(p.seq, p.bytes.len + 1)
      <3>1. PICK n \in Nat : n = p.bytes.len + 1
        BY <1>2
      <3> QED BY <1>2, <3>1, AddType
    <2>4. z = [appendRet(x, r) EXCEPT !.c = [x.c EXCEPT !.nextSeq = e]]
      BY <1>4, <2>1, <2>3 DEF assemblePacket
    <2> QED BY <1>3, <2>2, <2>4
  <1>5. CASE /\ ~(x.c.nextSeq = invalidSequence /\ p.syn)
             /\ x.c.nextSeq = invalidSequence \/ Difference(x.c.nextSeq, p.seq) > 0
    <2>1. z = insertIntoConn(x, p, ts)
      BY <1>5 DEF assemblePacket
    <2> QED BY <1>5, <2>1, InsertBooks
  <1>6. CASE /\ ~(x.c.nextSeq = invalidSequence /\ p.syn)
             /\ ~(x.c.nextSeq = invalidSequence \/ Difference(x.c.nextSeq, p.seq) > 0)
    <2>1. PICK span : span = byteSpan(x.c.nextSeq, p.seq, p.bytes)
      OBVIOUS
    <2>2. span.bytes \in Bytes /\ span.next \in Sequence
      BY <1>1, <1>2, <2>1, SpanType
    <2>3. PICK r : r = Reassembly(span.bytes, 0, FALSE, p.end)
      OBVIOUS
    <2>4. r \in Reassemblies
      BY <1>2, <2>2, <2>3 DEF Reassembly, Reassemblies
    <2>5. PICK e \in Sequence : e = span.next
      BY <2>2
    <2>6. z = [appendRet(x, r) EXCEPT !.c = [x.c EXCEPT !.nextSeq = e]]
      BY <1>6, <2>1, <2>3, <2>5 DEF assemblePacket
    <2> QED BY <1>3, <2>4, <2>6
  <1> QED BY <1>4, <1>5, <1>6

\* Every packet the network hands in is well formed, SYNs included, and fits
\* into a page where payloads do.
LEMMA PacketType ==
    ASSUME isn \in [Keys -> ISNs], NEW k \in Keys, NEW p \in Packets(k)
    PROVE  p \in AnyPacket /\ (OnePage => p.bytes.len <= PageBytes)
  <1>0. /\ ISNs \subseteq Sequence /\ isn[k] \in Sequence /\ SynLen \in Nat /\ StreamLen \in Nat
        /\ MaxLen \in Nat /\ PageBytes \in Nat
    BY ConstantsAssumption
  <1>1. ASSUME NEW i \in IF Reuse THEN ISNs ELSE {isn[k]},
               p = [syn |-> TRUE, seq |-> i, bytes |-> [from |-> 0, len |-> SynLen], end |-> FALSE]
        PROVE  p \in AnyPacket /\ (OnePage => p.bytes.len <= PageBytes)
    <2>1. i \in Sequence /\ [from |-> 0, len |-> SynLen] \in Bytes
      BY <1>0 DEF Bytes
    <2> QED BY <1>1, <2>1 DEF AnyPacket, OnePage
  <1>2. ASSUME NEW x \in Segments,
               p = [syn |-> FALSE, seq |-> Add(isn[k], x.off + 1),
                    bytes |-> [from |-> x.off, len |-> x.len], end |-> x.end]
        PROVE  p \in AnyPacket /\ (OnePage => p.bytes.len <= PageBytes)
    <2>1. /\ x.off \in Nat /\ x.len \in Nat /\ x.end \in BOOLEAN /\ x.len <= MaxLen
      BY <1>0 DEF Segments
    <2>2. Add(isn[k], x.off + 1) \in Sequence
      <3>1. PICK n \in Nat : n = x.off + 1
        BY <2>1
      <3> QED BY <1>0, <3>1, AddType
    <2>3. [from |-> x.off, len |-> x.len] \in Bytes
      BY <2>1 DEF Bytes
    <2>4. p.bytes.len = x.len
      BY <1>2
    <2> QED BY <1>0, <1>2, <2>1, <2>2, <2>3, <2>4 DEF AnyPacket, OnePage
  <1> QED BY <1>1, <1>2 DEF Packets

\* How many pages there are when the list of one connection has changed.
LEMMA Recount ==
    ASSUME conns \in [Keys -> Connection], NEW k \in Keys, NEW c \in Connection,
           conns' = [conns EXCEPT ![k] = c], IsFiniteSet(BufferedPages)
    PROVE  /\ IsFiniteSet(BufferedPages')
           /\ Cardinality(BufferedPages') =
                (Cardinality(BufferedPages) - Len(conns[k].list)) + Len(c.list)
  <1>1. PICK rest : rest = UNION {{l} \X DOMAIN conns[l].list : l \in Keys \ {k}}
    OBVIOUS
  <1>2. PICK old, new : old = {k} \X DOMAIN conns[k].list /\ new = {k} \X DOMAIN c.list
    OBVIOUS
  <1>3. conns'[k] = c /\ \A l \in Keys \ {k} : conns'[l] = conns[l]
    OBVIOUS
  <1>4. BufferedPages = rest \cup old
    BY <1>1, <1>2 DEF BufferedPages
  <1>5. BufferedPages' = rest \cup new
    BY <1>1, <1>2, <1>3 DEF BufferedPages
  <1>6. rest \cap old = {} /\ rest \cap new = {}
    BY <1>1, <1>2
  <1>7. ASSUME NEW n \in Nat
        PROVE  IsFiniteSet({k} \X (1 .. n)) /\ Cardinality({k} \X (1 .. n)) = n
    <2>1. IsFiniteSet(1 .. n) /\ Cardinality(1 .. n) = n
      BY FS_Interval
    <2>2. PICK f : f = [i \in 1 .. n |-> <<k, i>>]
      OBVIOUS
    <2>3. f \in Bijection(1 .. n, {k} \X (1 .. n))
      <3>1. f \in [1 .. n -> {k} \X (1 .. n)]
        BY <2>2
      <3>2. \A i, j \in 1 .. n : f[i] = f[j] => i = j
        BY <2>2
      <3>3. \A v \in {k} \X (1 .. n) : \E i \in 1 .. n : f[i] = v
        BY <2>2
      <3> QED BY <3>1, <3>2, <3>3 DEF Bijection, Injection, Surjection, IsInjective
    <2>4. ExistsBijection(1 .. n, {k} \X (1 .. n))
      BY <2>3 DEF ExistsBijection
    <2> QED BY <2>1, <2>4, FS_Bijection
  <1>8. conns[k].list \in Seq(Page) /\ c.list \in Seq(Page)
    BY DEF Connection
  <1>9. PICK a \in Nat, b \in Nat : /\ a = Len(conns[k].list) /\ b = Len(c.list)
                                    /\ DOMAIN conns[k].list = 1 .. a /\ DOMAIN c.list = 1 .. b
    BY <1>8
  <1>10. IsFiniteSet(old) /\ Cardinality(old) = a /\ IsFiniteSet(new) /\ Cardinality(new) = b
    BY <1>2, <1>7, <1>9
  <1>11. IsFiniteSet(rest)
    <2>1. rest \in SUBSET BufferedPages
      BY <1>4
    <2> QED BY <2>1, FS_Subset
  <1>12. Cardinality(rest) \in Nat /\ Cardinality({}) = 0
    BY <1>11, FS_CardinalityType, FS_EmptySet
  <1>13. Cardinality(BufferedPages) = Cardinality(rest) + a
    <2>1. Cardinality(rest \cup old) = Cardinality(rest) + Cardinality(old) - Cardinality(rest \cap old)
      BY <1>10, <1>11, FS_Union
    <2>2. Cardinality(rest \cap old) = 0
      BY <1>6, <1>12
    <2>3. PICK x \in Nat : x = Cardinality(rest)
      BY <1>12
    <2>4. x + a - 0 = x + a
      OBVIOUS
    <2> QED BY <1>4, <1>10, <2>1, <2>2, <2>3, <2>4
  <1>14. IsFiniteSet(BufferedPages') /\ Cardinality(BufferedPages') = Cardinality(rest) + b
    <2>1. /\ IsFiniteSet(rest \cup new)
          /\ Cardinality(rest \cup new) = Cardinality(rest) + Cardinality(new) - Cardinality(rest \cap new)
      BY <1>10, <1>11, FS_Union
    <2>2. Cardinality(rest \cap new) = 0
      BY <1>6, <1>12
    <2>3. PICK x \in Nat : x = Cardinality(rest)
      BY <1>12
    <2>4. x + b - 0 = x + b
      OBVIOUS
    <2> QED BY <1>5, <1>10, <2>1, <2>2, <2>3, <2>4
  <1>15. (Cardinality(rest) + a) - a = Cardinality(rest)
    BY <1>12
  <1> QED BY <1>9, <1>13, <1>14, <1>15

\* Writing back a connection whose counts are right.
LEMMA StoreBooks ==
    ASSUME BookInv, NEW k \in Keys, NEW x, BookWork(x), Within(x.c, x.used), Store(k, x),
           x.used - Len(x.c.list) = used - Len(conns[k].list)
    PROVE  /\ conns' \in [Keys -> Connection] /\ streams' \in [Keys -> Stream]
           /\ ret' = x.ret /\ ret' \in Seq(Told) /\ used' \in Int /\ Counted'
           /\ conns'[k] = x.c /\ x.c.open /\ \A l \in Keys \ {k} : conns'[l] = conns[l]
           /\ \A l \in Keys : Booked(conns'[l])
  <1>1. /\ x.c \in Connection /\ x.s \in Stream /\ x.ret \in Seq(Told) /\ x.used \in Int /\ x.c.open
        /\ x.c.pages = Len(x.c.list) /\ x.c.heard <= x.c.lastSeen
    BY DEF BookWork, Work
  <1>2. /\ conns \in [Keys -> Connection] /\ streams \in [Keys -> Stream] /\ used \in Int
        /\ IsFiniteSet(BufferedPages) /\ used = Cardinality(BufferedPages)
        /\ \A l \in Keys : Booked(conns[l])
    BY DEF BookInv, TypeOK, Counted
  <1>3. /\ conns' = [conns EXCEPT ![k] = x.c] /\ streams' = [streams EXCEPT ![k] = x.s]
        /\ ret' = x.ret /\ used' = x.used
    BY DEF Store
  <1>4. /\ conns' \in [Keys -> Connection] /\ streams' \in [Keys -> Stream]
        /\ conns'[k] = x.c /\ \A l \in Keys \ {k} : conns'[l] = conns[l]
    BY <1>1, <1>2, <1>3
  <1>5. /\ IsFiniteSet(BufferedPages')
        /\ Cardinality(BufferedPages') = (Cardinality(BufferedPages) - Len(conns[k].list)) + Len(x.c.list)
    BY <1>1, <1>2, <1>3, Recount
  <1>6. used' = Cardinality(BufferedPages')
    <2>1. conns[k].list \in Seq(Page) /\ x.c.list \in Seq(Page)
      BY <1>1, <1>2 DEF Connection
    <2>2. PICK a \in Nat, b \in Nat : a = Len(conns[k].list) /\ b = Len(x.c.list)
      BY <2>1
    <2>3. x.used - b = used - a
      BY <2>2
    <2>4. x.used = (used - a) + b
      BY <1>1, <1>2, <2>3
    <2> QED BY <1>2, <1>3, <1>5, <2>2, <2>4
  <1>7. OnePage /\ MaxBufferedPagesTotal > 0 => used' < MaxBufferedPagesTotal
    BY <1>3 DEF Within
  <1>8. Counted'
    BY <1>5, <1>6, <1>7 DEF Counted, OnePage
  <1>9. Booked(x.c)
    BY <1>1 DEF Booked, Within
  <1> QED BY <1>1, <1>2, <1>3, <1>4, <1>8, <1>9

\* Working on a connection starts with counts that are right.
LEMMA WorkingBooks ==
    ASSUME BookInv, NEW k \in Keys, conns[k].open, NEW r \in Seq(Told),
           NEW x, x = Working(k, conns[k], streams[k], r)
    PROVE  /\ BookWork(x) /\ Within(x.c, x.used) /\ x.c = conns[k] /\ x.s = streams[k]
           /\ x.ret = r /\ x.used = used
  <1>1. conns[k] \in Connection /\ streams[k] \in Stream /\ used \in Int /\ Booked(conns[k])
    BY DEF BookInv, TypeOK
  <1>2. x.c = conns[k] /\ x.s = streams[k] /\ x.ret = r /\ x.used = used /\ x \in Work
    BY <1>1 DEF Working, Work
  <1>3. Within(x.c, x.used)
    BY <1>1, <1>2 DEF Within, Booked, BookInv, Counted
  <1> QED BY <1>1, <1>2, <1>3 DEF BookWork, Booked

\* closeConnection takes the pages left in a list off the count.
LEMMA CloseBooks ==
    ASSUME BookInv, NEW k \in Keys, NEW log \in Seq(Told), closeConnection(k, log)
    PROVE  /\ conns' \in [Keys -> Connection] /\ streams' \in [Keys -> Stream]
           /\ free' \in Seq(Times \cup {0}) /\ used' \in Int /\ Counted'
           /\ conns'[k] = NoConn /\ \A l \in Keys \ {k} : conns'[l] = conns[l]
           /\ \A l \in Keys : Booked(conns'[l])
  <1>1. NoConn \in Connection /\ NoConn.list = <<>> /\ Len(<<>>) = 0
    BY DEF NoConn, Connection
  <1>2. /\ conns \in [Keys -> Connection] /\ streams \in [Keys -> Stream] /\ used \in Int
        /\ free \in Seq(Times \cup {0}) /\ IsFiniteSet(BufferedPages) /\ used = Cardinality(BufferedPages)
        /\ \A l \in Keys : Booked(conns[l])
    BY DEF BookInv, TypeOK, Counted
  <1>3. PICK s : s = [streams[k] EXCEPT !.log = log, !.complete = TRUE]
    OBVIOUS
  <1>4. s \in Stream
    BY <1>2, <1>3 DEF Stream
  <1>5. /\ conns' = [conns EXCEPT ![k] = NoConn] /\ streams' = [streams EXCEPT ![k] = s]
        /\ free' = Append(free, conns[k].lastSeen) /\ used' = used - Len(conns[k].list)
    BY <1>2, <1>3 DEF closeConnection
  <1>6. /\ conns' \in [Keys -> Connection] /\ streams' \in [Keys -> Stream]
        /\ conns'[k] = NoConn /\ \A l \in Keys \ {k} : conns'[l] = conns[l]
    BY <1>1, <1>2, <1>4, <1>5
  <1>7. PICK a \in Nat : a = Len(conns[k].list)
    BY <1>2 DEF Connection
  <1>8. free' \in Seq(Times \cup {0}) /\ used' \in Int
    <2>1. conns[k].lastSeen \in Times \cup {0}
      BY <1>2 DEF Connection
    <2> QED BY <1>2, <1>5, <1>7, <2>1, AppendProperties
  <1>9. /\ IsFiniteSet(BufferedPages')
        /\ Cardinality(BufferedPages') = (Cardinality(BufferedPages) - Len(conns[k].list)) + Len(NoConn.list)
    BY <1>1, <1>2, <1>5, Recount
  <1>10. used' = Cardinality(BufferedPages')
    <2>1. used' = used - a /\ (used - a) + 0 = used - a
      BY <1>2, <1>5, <1>7
    <2> QED BY <1>1, <1>2, <1>7, <1>9, <2>1
  <1>11. OnePage /\ MaxBufferedPagesTotal > 0 => used' < MaxBufferedPagesTotal
    <2>1. OnePage /\ MaxBufferedPagesTotal > 0 => used < MaxBufferedPagesTotal
      BY DEF BookInv, Counted
    <2>2. MaxBufferedPagesTotal \in Nat
      BY ConstantsAssumption
    <2> QED BY <1>2, <1>5, <1>7, <2>1, <2>2
  <1>12. Counted'
    BY <1>9, <1>10, <1>11 DEF Counted, OnePage
  <1>13. Booked(NoConn)
    <2>1. NoConn.pages = 0 /\ NoConn.heard = 0 /\ NoConn.lastSeen = 0
      BY DEF NoConn
    <2>2. MaxBufferedPagesPerConnection \in Nat
      BY ConstantsAssumption
    <2> QED BY <1>1, <2>1, <2>2 DEF Booked
  <1> QED BY <1>2, <1>6, <1>8, <1>12, <1>13

\* The counts at the start.
LEMMA BookInit == Init => BookInv
  <1> SUFFICES ASSUME Init PROVE BookInv
    OBVIOUS
  <1>1. TypeOK
    BY InitIInv DEF IInv
  <1>2. \A k \in Keys : conns[k] = NoConn
    BY DEF Init
  <1>3. /\ NoConn.list = <<>> /\ NoConn.pages = 0 /\ NoConn.heard = 0 /\ NoConn.lastSeen = 0
        /\ Len(<<>>) = 0 /\ DOMAIN <<>> = {}
    BY DEF NoConn
  <1>4. Booked(NoConn) /\ Blocked(NoConn)
    <2>1. MaxBufferedPagesPerConnection \in Nat
      BY ConstantsAssumption
    <2> QED BY <1>3, <2>1 DEF Booked, Blocked
  <1>5. BufferedPages = {}
    <2>1. \A k \in Keys : {k} \X DOMAIN conns[k].list = {}
      BY <1>2, <1>3
    <2> QED BY <2>1 DEF BufferedPages
  <1>6. Counted
    <2>1. MaxBufferedPagesTotal \in Nat
      BY ConstantsAssumption
    <2> QED BY <1>5, <2>1, FS_EmptySet DEF Counted, Init
  <1>7. Flushing
    BY DEF Flushing, Init, NoOp
  <1> QED BY <1>1, <1>2, <1>4, <1>6, <1>7 DEF BookInv

\* What AssembleWithTimestamp starts to work on: the connection and the stream
\* it found, or new ones.
LEMMA AssembleStarts ==
    ASSUME BookInv, NEW k \in Keys, NEW p \in Packets(k), NEW ts \in Times,
           AssembleWithTimestamp(k, p, ts)
    PROVE  \E w, x :
              /\ BookWork(w) /\ Within(w.c, w.used) /\ Blocked(w.c)
              /\ w.used - Len(w.c.list) = used - Len(conns[k].list) /\ w.ret = <<>>
              /\ IF conns[k].open
                 THEN /\ w.c.list = conns[k].list /\ w.c.nextSeq = conns[k].nextSeq
                      /\ w.s.log = streams[k].log /\ w.s.pos = streams[k].pos
                      /\ w.s.got = streams[k].got \cup {o \in offsets(p.bytes) : o >= w.s.pos}
                 ELSE /\ w.c.list = <<>> /\ w.c.nextSeq = invalidSequence
                      /\ w.s.log = <<>> /\ w.s.pos = -1 /\ w.s.got = offsets(p.bytes)
              /\ x = assemblePacket(w, p, ts) /\ Store(k, x)
              /\ IF x.ret = <<>> THEN UNCHANGED <<pc, op, cur>>
                 ELSE pc' = "send" /\ cur' = k /\ op' = [NoOp EXCEPT !.kind = "assemble"]
              /\ free' \in Seq(Times \cup {0})
              /\ packets' = packets + 1 /\ UNCHANGED <<isn, flushes>> /\ pc = "idle"
  <1>0. TypeOK /\ Booked(conns[k]) /\ pc = "idle"
    BY DEF BookInv, AssembleWithTimestamp
  <1>1. /\ conns[k] \in Connection /\ streams[k] \in Stream /\ used \in Int
        /\ free \in Seq(Times \cup {0}) /\ isn \in [Keys -> ISNs] /\ Times \subseteq Nat
    BY <1>0, ConstantsAssumption DEF TypeOK
  <1>2. PICK old : old = IF free = <<>> THEN 0 ELSE free[Len(free)]
    OBVIOUS
  <1>3. old \in Times \cup {0}
    BY <1>1, <1>2
  <1>4. PICK c0 : c0 = IF conns[k].open THEN conns[k] ELSE newConnection(old)
    OBVIOUS
  <1>5. PICK s0 : s0 = IF conns[k].open THEN streams[k] ELSE NewStream
    OBVIOUS
  <1>6. /\ newConnection(old) \in Connection /\ newConnection(old).open
        /\ newConnection(old).nextSeq = invalidSequence /\ newConnection(old).list = <<>>
        /\ newConnection(old).pages = 0 /\ newConnection(old).heard = 0
        /\ newConnection(old).lastSeen = old
    <2>1. newConnection(old) = [open |-> TRUE, nextSeq |-> invalidSequence, list |-> <<>>,
                                pages |-> 0, lastSeen |-> old, heard |-> 0]
      BY DEF newConnection
    <2>2. <<>> \in Seq(Page)
      BY EmptySeq
    <2> QED BY <1>3, <2>1, <2>2 DEF Connection
  <1>7. /\ NewStream \in Stream /\ NewStream.log = <<>> /\ NewStream.pos = -1 /\ NewStream.got = {}
    BY DEF NewStream, Stream
  <1>8. /\ c0 \in Connection /\ c0.open /\ c0.pages = Len(c0.list) /\ c0.heard <= c0.lastSeen
        /\ Len(c0.list) = Len(conns[k].list)
    <2>1. CASE conns[k].open
      BY <1>0, <1>1, <1>4, <2>1 DEF Booked
    <2>2. CASE ~conns[k].open
      <3>1. Len(<<>>) = 0 /\ conns[k].list = <<>> /\ 0 <= old
        BY <1>0, <1>1, <1>3, <2>2 DEF Booked
      <3> QED BY <1>4, <1>6, <2>2, <3>1
    <2> QED BY <2>1, <2>2
  <1>9. s0 \in Stream
    BY <1>1, <1>5, <1>7
  <1>10. PICK ls, hd : /\ ls = IF c0.lastSeen < ts THEN ts ELSE c0.lastSeen
                       /\ hd = IF c0.heard < ts THEN ts ELSE c0.heard
    OBVIOUS
  <1>11. ls \in Times \cup {0} /\ hd \in Times \cup {0} /\ hd <= ls
    <2>1. c0.lastSeen \in Times \cup {0} /\ c0.heard \in Times \cup {0}
      BY <1>8 DEF Connection
    <2>2. c0.lastSeen \in Nat /\ c0.heard \in Nat /\ ts \in Nat
      BY <1>1, <2>1
    <2> QED BY <1>8, <1>10, <2>1, <2>2
  <1>12. PICK c1 : c1 = [c0 EXCEPT !.lastSeen = ls, !.heard = hd]
    OBVIOUS
  <1>13. /\ c1 \in Connection /\ c1.open /\ c1.list = c0.list /\ c1.nextSeq = c0.nextSeq
         /\ c1.pages = c0.pages /\ c1.heard = hd /\ c1.lastSeen = ls
    BY <1>8, <1>11, <1>12 DEF Connection
  <1>14. p.bytes \in Bytes
    BY <1>1, PacketType DEF AnyPacket
  <1>15. PICK g : g = {o \in offsets(p.bytes) : o >= s0.pos}
    OBVIOUS
  <1>16. g \subseteq Nat
    <2>1. p.bytes.from \in Nat /\ p.bytes.len \in Nat
      BY <1>14 DEF Bytes
    <2> QED BY <1>15, <2>1 DEF offsets
  <1>17. PICK s1 : s1 = [s0 EXCEPT !.got = s0.got \cup g]
    OBVIOUS
  <1>18. s1 \in Stream /\ s1.log = s0.log /\ s1.pos = s0.pos /\ s1.got = s0.got \cup g
    <2>1. PICK gg : gg = s0.got \cup g
      OBVIOUS
    <2>2. gg \in SUBSET Nat
      BY <1>9, <1>16, <2>1 DEF Stream
    <2>3. s1 = [s0 EXCEPT !.got = gg]
      BY <1>17, <2>1
    <2>4. s1 \in Stream /\ s1.log = s0.log /\ s1.pos = s0.pos /\ s1.got = gg
      BY <1>9, <2>2, <2>3 DEF Stream
    <2> QED BY <2>1, <2>4
  <1>19. PICK w : w = Working(k, c1, s1, <<>>)
    OBVIOUS
  <1>20. w \in Work /\ w.c = c1 /\ w.s = s1 /\ w.ret = <<>> /\ w.used = used
    <2>1. <<>> \in Seq(Told)
      BY EmptySeq
    <2> QED BY <1>1, <1>13, <1>18, <1>19, <2>1 DEF Working, Work
  <1>21. BookWork(w)
    BY <1>8, <1>11, <1>13, <1>20 DEF BookWork
  <1>22. Within(w.c, w.used)
    <2>1. OnePage /\ MaxBufferedPagesPerConnection > 0 =>
              Len(c0.list) < MaxBufferedPagesPerConnection
      BY <1>0, <1>8 DEF Booked
    <2>2. OnePage /\ MaxBufferedPagesTotal > 0 => used < MaxBufferedPagesTotal
      BY DEF BookInv, Counted
    <2> QED BY <1>13, <1>20, <2>1, <2>2 DEF Within
  <1>23. Blocked(w.c)
    <2>1. Blocked(conns[k])
      BY <1>0 DEF BookInv
    <2>2. Blocked(c0)
      BY <1>4, <1>6, <2>1 DEF Blocked
    <2> QED BY <1>13, <1>20, <2>2 DEF Blocked
  <1>24. w.used - Len(w.c.list) = used - Len(conns[k].list)
    BY <1>8, <1>13, <1>20
  <1>25. IF conns[k].open
         THEN /\ w.c.list = conns[k].list /\ w.c.nextSeq = conns[k].nextSeq
              /\ w.s.log = streams[k].log /\ w.s.pos = streams[k].pos
              /\ w.s.got = streams[k].got \cup {o \in offsets(p.bytes) : o >= w.s.pos}
         ELSE /\ w.c.list = <<>> /\ w.c.nextSeq = invalidSequence
              /\ w.s.log = <<>> /\ w.s.pos = -1 /\ w.s.got = offsets(p.bytes)
    <2>1. CASE conns[k].open
      BY <1>4, <1>5, <1>13, <1>15, <1>18, <1>20, <2>1
    <2>2. CASE ~conns[k].open
      <3>1. s0 = NewStream /\ s0.got \cup g = g
        BY <1>5, <1>7, <2>2
      <3>2. g = offsets(p.bytes)
        <4>1. p.bytes.from \in Nat /\ p.bytes.len \in Nat
          BY <1>14 DEF Bytes
        <4>2. \A o \in offsets(p.bytes) : o >= -1
          BY <4>1 DEF offsets
        <4> QED BY <1>7, <1>15, <3>1, <4>2
      <3> QED BY <1>4, <1>6, <1>7, <1>13, <1>18, <1>20, <2>2, <3>1, <3>2
    <2> QED BY <2>1, <2>2
  <1>26. PICK x : x = assemblePacket(w, p, ts)
    OBVIOUS
  <1>27. /\ Store(k, x)
         /\ IF x.ret = <<>> THEN UNCHANGED <<pc, op, cur>>
            ELSE pc' = "send" /\ cur' = k /\ op' = [NoOp EXCEPT !.kind = "assemble"]
         /\ free' = IF conns[k].open \/ free = <<>> THEN free ELSE SubSeq(free, 1, Len(free) - 1)
         /\ packets' = packets + 1 /\ UNCHANGED <<isn, flushes>>
    BY <1>2, <1>4, <1>5, <1>10, <1>12, <1>15, <1>17, <1>19, <1>26 DEF AssembleWithTimestamp, offsets
  <1>28. free' \in Seq(Times \cup {0})
    BY <1>1, <1>27
  <1> QED BY <1>0, <1>20, <1>21, <1>22, <1>23, <1>24, <1>25, <1>26, <1>27, <1>28

\* AssembleWithTimestamp.
LEMMA BookAssemble ==
    ASSUME BookInv, NEW k \in Keys, NEW p \in Packets(k), NEW ts \in Times,
           AssembleWithTimestamp(k, p, ts)
    PROVE  BookInv'
  <1>0. TypeOK /\ Flushing
    BY DEF BookInv
  <1>1. PICK w, x :
            /\ BookWork(w) /\ Within(w.c, w.used) /\ Blocked(w.c)
            /\ w.used - Len(w.c.list) = used - Len(conns[k].list)
            /\ x = assemblePacket(w, p, ts) /\ Store(k, x)
            /\ IF x.ret = <<>> THEN UNCHANGED <<pc, op, cur>>
               ELSE pc' = "send" /\ cur' = k /\ op' = [NoOp EXCEPT !.kind = "assemble"]
            /\ free' \in Seq(Times \cup {0})
            /\ packets' = packets + 1 /\ UNCHANGED <<isn, flushes>> /\ pc = "idle"
    BY AssembleStarts
  <1>2. p \in AnyPacket /\ (OnePage => p.bytes.len <= PageBytes)
    BY <1>0, PacketType DEF TypeOK
  <1>3. /\ BookWork(x) /\ Within(x.c, x.used) /\ (x.ret = <<>> => Blocked(x.c))
        /\ x.used - Len(x.c.list) = used - Len(conns[k].list)
    BY <1>1, <1>2, AssembleBooks
  <1>4. /\ conns' \in [Keys -> Connection] /\ streams' \in [Keys -> Stream]
        /\ ret' = x.ret /\ ret' \in Seq(Told) /\ used' \in Int /\ Counted'
        /\ conns'[k] = x.c /\ x.c.open /\ \A l \in Keys \ {k} : conns'[l] = conns[l]
        /\ \A l \in Keys : Booked(conns'[l])
    BY <1>1, <1>3, StoreBooks
  <1>5. /\ op.kind = "none" /\ \A l \in Keys : Blocked(conns[l])
    BY <1>0, <1>1 DEF BookInv, Flushing
  <1>6. CASE x.ret = <<>>
    <2>1. UNCHANGED <<pc, op, cur>>
      BY <1>1, <1>6
    <2>2. TypeOK'
      BY <1>0, <1>1, <1>4, <2>1 DEF TypeOK
    <2>3. \A l \in Keys : Blocked(conns'[l])
      BY <1>3, <1>4, <1>5, <1>6
    <2>4. Flushing'
      BY <1>1, <1>5, <2>1 DEF Flushing
    <2> QED BY <1>4, <2>2, <2>3, <2>4 DEF BookInv
  <1>7. CASE x.ret # <<>>
    <2>1. pc' = "send" /\ cur' = k /\ op' = [NoOp EXCEPT !.kind = "assemble"]
      BY <1>1, <1>7
    <2>2. op' \in Op /\ op'.kind = "assemble"
      BY <2>1 DEF NoOp, Op
    <2>3. conns'[cur'].open /\ ret' # <<>> /\ packets' \in Nat
      BY <1>0, <1>1, <1>4, <1>7, <2>1 DEF TypeOK
    <2>4. TypeOK'
      BY <1>0, <1>1, <1>4, <2>1, <2>2, <2>3 DEF TypeOK, Op
    <2>5. \A l \in Keys \ {k} : Blocked(conns'[l])
      BY <1>4, <1>5
    <2>6. Flushing'
      BY <2>1, <2>2 DEF Flushing
    <2> QED BY <1>4, <2>1, <2>4, <2>5, <2>6 DEF BookInv
  <1> QED BY <1>6, <1>7

\* addContiguous and skipFlush.
LEMMA BookPop ==
    ASSUME BookInv, AddContiguous \/ SkipFlush
    PROVE  BookInv'
  <1>0. TypeOK /\ Flushing
    BY DEF BookInv
  <1>1. PICK r : r = IF pc = "send" THEN ret ELSE <<>>
    OBVIOUS
  <1>2. PICK w : w = Working(cur, conns[cur], streams[cur], r)
    OBVIOUS
  <1>3. PICK x : x = addNextFromConn(w)
    OBVIOUS
  <1>4. /\ cur \in Keys /\ conns[cur].open /\ conns[cur].list # <<>>
        /\ Store(cur, x) /\ pc' = "send" /\ pc \in {"send", "flush"}
        /\ UNCHANGED <<isn, free, op, cur, packets, flushes>>
    BY <1>0, <1>1, <1>2, <1>3 DEF AddContiguous, SkipFlush, Contiguous, mustSkip, TypeOK
  <1>5. r \in Seq(Told)
    BY <1>0, <1>1, EmptySeq DEF TypeOK
  <1>6. BookWork(w) /\ Within(w.c, w.used) /\ w.c = conns[cur] /\ w.used = used
    BY <1>2, <1>4, <1>5, WorkingBooks
  <1>7. w \in Work /\ w.c.list # <<>> /\ w.c.list \in Seq(Page) /\ w.used \in Int
        /\ w.c.open /\ w.c.pages = Len(w.c.list) /\ w.c.heard <= w.c.lastSeen
    BY <1>4, <1>6 DEF BookWork, Work, Connection
  <1>8. /\ x \in Work /\ x.ret # <<>> /\ Len(x.c.list) = Len(w.c.list) - 1
        /\ x.c.pages = w.c.pages - 1 /\ x.used = w.used - 1
        /\ x.c.open = w.c.open /\ x.c.lastSeen = w.c.lastSeen /\ x.c.heard = w.c.heard
    BY <1>3, <1>7, PopType
  <1>9. PICK a \in Nat : a = Len(w.c.list)
    BY <1>7
  <1>10. BookWork(x)
    BY <1>7, <1>8 DEF BookWork
  <1>11. Within(x.c, x.used)
    <2>1. a - 1 < a /\ w.used - 1 < w.used /\ MaxBufferedPagesPerConnection \in Nat
          /\ MaxBufferedPagesTotal \in Nat
      BY <1>7, ConstantsAssumption
    <2> QED BY <1>6, <1>7, <1>8, <1>9, <2>1 DEF Within
  <1>12. x.used - Len(x.c.list) = used - Len(conns[cur].list)
    <2>1. (w.used - 1) - (a - 1) = w.used - a
      BY <1>7
    <2> QED BY <1>6, <1>8, <1>9, <2>1
  <1>13. /\ conns' \in [Keys -> Connection] /\ streams' \in [Keys -> Stream]
         /\ ret' = x.ret /\ ret' \in Seq(Told) /\ used' \in Int /\ Counted'
         /\ conns'[cur] = x.c /\ x.c.open /\ \A l \in Keys \ {cur} : conns'[l] = conns[l]
         /\ \A l \in Keys : Booked(conns'[l])
    BY <1>4, <1>10, <1>11, <1>12, StoreBooks
  <1>14. TypeOK'
    BY <1>0, <1>4, <1>8, <1>13 DEF TypeOK
  <1>15. \A l \in Keys \ {cur} : Blocked(conns'[l])
    BY <1>13 DEF BookInv
  <1>16. Flushing'
    <2>1. op.kind # "none"
      BY <1>0, <1>4 DEF Flushing
    <2>2. op.kind = "flushAll" => \A k \in Keys : conns'[k].open => k \in op.todo \/ k = cur
      BY <1>0, <1>13 DEF Flushing
    <2>3. op.kind = "flushOptions" => \A k \in Keys : conns'[k].list # <<>> =>
              k \in op.todo \/ k = cur \/ Head(conns'[k].list).seen >= op.t
      BY <1>0, <1>13 DEF Flushing
    <2> QED BY <1>4, <2>1, <2>2, <2>3 DEF Flushing
  <1> QED BY <1>4, <1>13, <1>14, <1>15, <1>16 DEF BookInv

\* sendToConnection.
LEMMA BookSend ==
    ASSUME BookInv, SendToConnection
    PROVE  BookInv'
  <1>0. TypeOK /\ Flushing /\ Counted
    BY DEF BookInv
  <1>1. PICK log : log = streams[cur].log \o ret
    OBVIOUS
  <1>2. /\ cur \in Keys /\ pc = "send" /\ ~Contiguous(conns[cur]) /\ streams[cur] \in Stream
        /\ UNCHANGED <<isn, ret, packets, flushes>>
    BY <1>0 DEF TypeOK, SendToConnection
  <1>3. log \in Seq(Told)
    <2>1. streams[cur].log \in Seq(Told) /\ ret \in Seq(Told)
      BY <1>0, <1>2 DEF TypeOK, Stream
    <2> QED BY <1>1, <2>1, ConcatProperties
  <1>4. \/ closeConnection(cur, log)
        \/ streams' = [streams EXCEPT ![cur].log = log] /\ UNCHANGED <<conns, free, used>>
    BY <1>1 DEF SendToConnection
  <1>5. NoConn.list = <<>> /\ ~NoConn.open
    BY DEF NoConn
  <1>6. /\ conns' \in [Keys -> Connection] /\ streams' \in [Keys -> Stream]
        /\ free' \in Seq(Times \cup {0}) /\ used' \in Int /\ Counted'
        /\ conns'[cur] \in {NoConn, conns[cur]} /\ \A l \in Keys \ {cur} : conns'[l] = conns[l]
        /\ \A l \in Keys : Booked(conns'[l])
    <2>1. CASE closeConnection(cur, log)
      BY <1>2, <1>3, <2>1, CloseBooks
    <2>2. CASE streams' = [streams EXCEPT ![cur].log = log] /\ UNCHANGED <<conns, free, used>>
      <3>1. PICK s : s = [streams[cur] EXCEPT !.log = log]
        OBVIOUS
      <3>2. s \in Stream
        BY <1>2, <1>3, <3>1 DEF Stream
      <3>3. streams' = [streams EXCEPT ![cur] = s]
        BY <2>2, <3>1
      <3>4. streams' \in [Keys -> Stream]
        BY <1>0, <3>2, <3>3 DEF TypeOK
      <3>5. Counted'
        BY <1>0, <2>2 DEF Counted, BufferedPages, OnePage
      <3> QED BY <1>0, <2>2, <3>4, <3>5 DEF TypeOK, BookInv
    <2> QED BY <1>4, <2>1, <2>2
  <1>7. \/ op.kind = "assemble" /\ pc' = "idle" /\ op' = NoOp /\ cur' = NoKey
        \/ op.kind # "assemble" /\ pc' = "flush" /\ UNCHANGED <<op, cur>>
    BY DEF SendToConnection
  <1>8. NoOp \in Op /\ NoOp.kind = "none" /\ op \in Op
    BY <1>0 DEF NoOp, Op, TypeOK
  <1>9. TypeOK'
    BY <1>0, <1>2, <1>6, <1>7, <1>8 DEF TypeOK, Op
  <1>10. Blocked(conns[cur])
    <2> SUFFICES ASSUME conns[cur].list # <<>>, conns[cur].nextSeq # invalidSequence
                 PROVE  Difference(conns[cur].nextSeq, Head(conns[cur].list).seq) > 0
      BY DEF Blocked
    <2>1. ~(Difference(conns[cur].nextSeq, Head(conns[cur].list).seq) <= 0)
      BY <1>2 DEF Contiguous
    <2>2. conns[cur].nextSeq \in Sequence
      BY <1>0, <1>2 DEF TypeOK, Connection
    <2>3. Head(conns[cur].list).seq \in Sequence
      <3>1. PICK l \in Seq(Page) : l = conns[cur].list /\ l # <<>>
        BY <1>0, <1>2 DEF TypeOK, Connection
      <3>2. Head(l) \in Page
        BY <3>1, HeadTailProperties
      <3> QED BY <3>1, <3>2 DEF Page
    <2>4. Difference(conns[cur].nextSeq, Head(conns[cur].list).seq) \in Int
      BY <2>2, <2>3, QuarterAssumption DEF Difference, Sequence, SeqSpace
    <2> QED BY <2>1, <2>4
  <1>11. \A l \in Keys : Blocked(conns'[l])
    <2>1. Blocked(NoConn)
      BY <1>5 DEF Blocked
    <2> QED BY <1>6, <1>10, <2>1 DEF BookInv
  <1>12. Flushing'
    <2>1. CASE op.kind = "assemble"
      BY <1>7, <1>8, <2>1 DEF Flushing
    <2>2. CASE op.kind # "assemble"
      <3>1. op.kind \in {"flushOptions", "flushAll"}
        BY <1>0, <1>2, <1>8, <2>2 DEF Flushing, Op
      <3>2. op.kind = "flushAll" => \A k \in Keys : conns'[k].open => k \in op.todo \/ k = cur
        BY <1>0, <1>6 DEF Flushing
      <3>3. op.kind = "flushOptions" => \A k \in Keys : conns'[k].list # <<>> =>
                k \in op.todo \/ k = cur \/ Head(conns'[k].list).seen >= op.t
        BY <1>0, <1>6 DEF Flushing
      <3> QED BY <1>7, <2>2, <3>1, <3>2, <3>3 DEF Flushing
    <2> QED BY <2>1, <2>2
  <1> QED BY <1>6, <1>9, <1>11, <1>12 DEF BookInv

\* A flush closes a drained connection.
LEMMA BookFlushClose ==
    ASSUME BookInv, FlushClose
    PROVE  BookInv'
  <1>0. TypeOK /\ Flushing
    BY DEF BookInv
  <1>1. /\ cur \in Keys /\ closeConnection(cur, streams[cur].log) /\ cur' = NoKey
        /\ pc = "flush" /\ UNCHANGED <<isn, ret, pc, op, packets, flushes>>
    BY <1>0 DEF TypeOK, FlushClose
  <1>2. streams[cur].log \in Seq(Told)
    BY <1>0, <1>1 DEF TypeOK, Stream
  <1>3. /\ conns' \in [Keys -> Connection] /\ streams' \in [Keys -> Stream]
        /\ free' \in Seq(Times \cup {0}) /\ used' \in Int /\ Counted'
        /\ conns'[cur] = NoConn /\ \A l \in Keys \ {cur} : conns'[l] = conns[l]
        /\ \A l \in Keys : Booked(conns'[l])
    BY <1>1, <1>2, CloseBooks
  <1>4. NoConn.list = <<>> /\ ~NoConn.open /\ Blocked(NoConn)
    BY DEF NoConn, Blocked
  <1>5. TypeOK'
    BY <1>0, <1>1, <1>3 DEF TypeOK
  <1>6. \A l \in Keys : Blocked(conns'[l])
    BY <1>1, <1>3, <1>4 DEF BookInv
  <1>7. Flushing'
    <2>1. op.kind = "flushAll" => \A k \in Keys : conns'[k].open => k \in op.todo
      BY <1>0, <1>3, <1>4 DEF Flushing
    <2>2. op.kind = "flushOptions" => \A k \in Keys : conns'[k].list # <<>> =>
              k \in op.todo \/ Head(conns'[k].list).seen >= op.t
      BY <1>0, <1>3, <1>4 DEF Flushing
    <2> QED BY <1>0, <1>1, <2>1, <2>2 DEF Flushing
  <1> QED BY <1>3, <1>5, <1>6, <1>7 DEF BookInv

\* The steps that only move a handler on.
LEMMA BookControl ==
    ASSUME BookInv,
           \/ \E k \in Keys : \E p \in Packets(k) : AssembleNothing(k, p)
           \/ FlushWithOptions \/ FlushAll
           \/ \E k \in Keys : FlushNext(k)
           \/ FlushLeave \/ FlushReturn
           \/ UNCHANGED vars
    PROVE  BookInv'
  <1> USE ConstantsAssumption
  <1>0. TypeOK /\ Flushing /\ Counted
    BY DEF BookInv
  <1>1. UNCHANGED <<isn, conns, free, used, streams>>
    BY DEF AssembleNothing, FlushWithOptions, FlushAll, FlushStart, FlushNext,
           FlushLeave, FlushReturn, vars
  <1>2. ret' \in {ret, <<>>}
    BY DEF AssembleNothing, FlushWithOptions, FlushAll, FlushStart, FlushNext,
           FlushLeave, FlushReturn, vars
  <1>3. NoOp \in Op /\ op \in Op /\ op.todo \subseteq Keys /\ NoOp.kind = "none"
    BY <1>0 DEF NoOp, Op, TypeOK
  <1>4. \A k \in Keys : /\ ~conns[k].open => conns[k].list = <<>>
                        /\ conns[k].list # <<>> => Head(conns[k].list).seen \in Int
    <2> TAKE k \in Keys
    <2>1. ~conns[k].open => conns[k].list = <<>>
      BY DEF BookInv, Booked
    <2>2. conns[k].list # <<>> => Head(conns[k].list).seen \in Int
      <3>1. PICK l \in Seq(Page) : l = conns[k].list
        BY <1>0 DEF TypeOK, Connection
      <3>2. l # <<>> => Head(l) \in Page
        BY HeadTailProperties
      <3>3. l # <<>> => Head(l).seen \in Times
        BY <3>2 DEF Page
      <3>4. Times \subseteq Int
        OBVIOUS
      <3> QED BY <3>1, <3>3, <3>4, Zenon
    <2> QED BY <2>1, <2>2
  <1>5. /\ op' \in Op /\ cur' \in Keys \cup {NoKey} /\ pc' \in {"idle", "send", "flush"}
        /\ packets' \in Nat /\ flushes' \in Nat
        /\ pc' = "idle" => cur' = NoKey
        /\ pc' = "send" => cur' = cur /\ pc = "send" /\ ret' = ret
        /\ pc = "send" => pc' = "send" /\ cur' = cur
        /\ Flushing'
    <2>1. CASE \E k \in Keys : \E p \in Packets(k) : AssembleNothing(k, p)
      BY <1>0, <1>1, <1>3, <2>1 DEF AssembleNothing, TypeOK, Flushing
    <2>2. CASE FlushWithOptions
      <3>1. PICK t \in FlushTimes, all \in BOOLEAN : FlushStart("flushOptions", t, all)
        BY <2>2 DEF FlushWithOptions
      <3>2. [kind |-> "flushOptions", t |-> t, closeAll |-> all,
             todo |-> {k \in Keys : conns[k].open}] \in Op
        BY DEF Op
      <3>3. Flushing'
        BY <1>1, <1>4, <3>1 DEF FlushStart, Flushing
      <3> QED BY <1>0, <3>1, <3>2, <3>3 DEF FlushStart, TypeOK
    <2>3. CASE FlushAll
      <3>1. [kind |-> "flushAll", t |-> 0, closeAll |-> TRUE,
             todo |-> {k \in Keys : conns[k].open}] \in Op
        BY DEF Op
      <3>2. Flushing'
        BY <1>1, <2>3 DEF FlushAll, FlushStart, Flushing
      <3> QED BY <1>0, <2>3, <3>1, <3>2 DEF FlushAll, FlushStart, TypeOK
    <2>4. CASE \E k \in Keys : FlushNext(k)
      <3>1. PICK k \in Keys : FlushNext(k)
        BY <2>4
      <3>2. PICK o : o = [op EXCEPT !.todo = op.todo \ {k}]
        OBVIOUS
      <3>3. o \in Op /\ o.kind = op.kind /\ o.t = op.t /\ o.todo = op.todo \ {k}
        BY <1>3, <3>2 DEF Op
      <3>4. op' = o /\ cur = NoKey /\ cur' = k /\ pc = "flush" /\ pc' = "flush"
        BY <3>1, <3>2 DEF FlushNext
      <3>5. Flushing'
        BY <1>0, <1>1, <3>3, <3>4 DEF Flushing
      <3> QED BY <1>0, <3>1, <3>3, <3>4, <3>5 DEF FlushNext, TypeOK
    <2>5. CASE FlushLeave
      <3>1. /\ cur \in Keys /\ cur' = NoKey /\ pc = "flush" /\ UNCHANGED <<pc, op, packets, flushes>>
            /\ conns[cur].open => ~mustSkip(conns[cur]) /\ ~mustClose(conns[cur])
        BY <1>0, <2>5 DEF FlushLeave, TypeOK
      <3>2. op.kind = "flushAll" => ~conns[cur].open
        BY <3>1 DEF mustSkip, mustClose
      <3>3. op.kind = "flushOptions" /\ conns[cur].list # <<>> =>
               Head(conns[cur].list).seen >= op.t
        <4> HAVE op.kind = "flushOptions" /\ conns[cur].list # <<>>
        <4>1. ~(Head(conns[cur].list).seen < op.t)
          BY <1>4, <3>1 DEF mustSkip
        <4>2. op.t \in FlushTimes \cup {0}
          BY <1>3 DEF Op
        <4>3. op.t \in Int
          <5>1. FlushTimes \subseteq Int /\ 0 \in Int
            OBVIOUS
          <5> QED BY <4>2, <5>1, Zenon
        <4>4. Head(conns[cur].list).seen \in Int
          BY <1>4, <3>1
        <4> QED BY <4>1, <4>3, <4>4
      <3>4. Flushing'
        BY <1>0, <1>1, <3>1, <3>2, <3>3 DEF Flushing
      <3> QED BY <1>0, <1>3, <3>1, <3>4 DEF TypeOK
    <2>6. CASE FlushReturn
      <3>1. Flushing'
        BY <1>3, <2>6 DEF FlushReturn, Flushing
      <3> QED BY <1>0, <1>3, <2>6, <3>1 DEF FlushReturn, TypeOK
    <2>7. CASE UNCHANGED vars
      BY <1>0, <1>3, <2>7 DEF vars, TypeOK, Flushing
    <2> QED BY <2>1, <2>2, <2>3, <2>4, <2>5, <2>6, <2>7
  <1>6. ret' \in Seq(Told)
    <2>1. <<>> \in Seq(Told) /\ ret \in Seq(Told)
      BY <1>0 DEF TypeOK
    <2> QED BY <1>2, <2>1, Zenon
  <1>7. TypeOK'
    BY <1>0, <1>1, <1>5, <1>6 DEF TypeOK, Op
  <1>8. Counted'
    BY <1>0, <1>1 DEF Counted, BufferedPages, OnePage
  <1>9. \A k \in Keys : Booked(conns'[k])
    BY <1>1 DEF BookInv
  <1>10. \A k \in Keys : (pc' = "send" /\ cur' = k) \/ Blocked(conns'[k])
    BY <1>1, <1>5 DEF BookInv
  <1> QED BY <1>5, <1>7, <1>8, <1>9, <1>10 DEF BookInv

-----------------------------------------------------------------------------
\* The books of an Assembler are right in every reachable state: one step per
\* handler or handler step, for every packet a flow may carry.
THEOREM BooksInductive == Spec => []BookInv
  <1>1. BookInv /\ [Next]_vars => BookInv'
    <2> SUFFICES ASSUME BookInv, [Next]_vars PROVE BookInv'
      OBVIOUS
    <2>1. CASE \E k \in Keys : \E p \in Packets(k) : \E ts \in Times :
                  AssembleWithTimestamp(k, p, ts)
      BY <2>1, BookAssemble
    <2>2. CASE AddContiguous \/ SkipFlush
      BY <2>2, BookPop
    <2>3. CASE SendToConnection
      BY <2>3, BookSend
    <2>4. CASE FlushClose
      BY <2>4, BookFlushClose
    <2>5. CASE \/ \E k \in Keys : \E p \in Packets(k) : AssembleNothing(k, p)
               \/ FlushWithOptions \/ FlushAll
               \/ \E k \in Keys : FlushNext(k)
               \/ FlushLeave \/ FlushReturn
               \/ UNCHANGED vars
      BY <2>5, BookControl
    <2> QED BY <2>1, <2>2, <2>3, <2>4, <2>5 DEF Next, Step
  <1> QED BY BookInit, <1>1, PTL DEF Spec

\* Type correctness: every handler leaves values of the code's types, and
\* sends only to an open connection and with something in a.ret.
THEOREM TypeCorrect == Spec => []TypeOK
  <1>1. BookInv => TypeOK
    BY DEF BookInv
  <1> QED BY BooksInductive, <1>1, PTL

\* Once a handler returns, the first page of every connection is one that
\* must wait: the panic of insertIntoConn is out of reach.
THEOREM HeadsBlocked == Spec => []HeadBlocked
  <1>1. BookInv => HeadBlocked
    BY DEF BookInv, HeadBlocked, Blocked
  <1> QED BY BooksInductive, <1>1, PTL

\* The page counts of the connections and of the page cache never drift from
\* the pages really buffered, and the two MaxBufferedPages limits hold.
THEOREM LimitsHold == Spec => []BufferLimits
  <1>1. BookInv => BufferLimits
    BY DEF BookInv, Booked, Counted, BufferLimits, PageAccounting, OnePage
  <1> QED BY BooksInductive, <1>1, PTL

\* FlushWithOptions leaves no connection waiting with a first page older than
\* its time, and FlushAll neither a connection nor a page, however many
\* pages had to be skipped to and however many connections were closed.
THEOREM FlushesComplete == Spec => FlushLeavesNothingOld
  <1>1. BookInv /\ [Next]_vars =>
          [FlushReturn => \A k \in Keys :
              IF op.kind = "flushAll" THEN ~conns[k].open /\ used = 0
              ELSE conns[k].list # <<>> => Head(conns[k].list).seen >= op.t]_vars
    <2> SUFFICES ASSUME BookInv, FlushReturn, NEW k \in Keys
                 PROVE  IF op.kind = "flushAll" THEN ~conns[k].open /\ used = 0
                        ELSE conns[k].list # <<>> => Head(conns[k].list).seen >= op.t
      OBVIOUS
    <2>1. /\ TypeOK /\ Flushing /\ Counted /\ NoKey \notin Keys
          /\ pc = "flush" /\ cur = NoKey /\ op.todo = {}
      BY ConstantsAssumption DEF BookInv, FlushReturn
    <2>2. op.kind \in {"flushOptions", "flushAll"}
      BY <2>1 DEF Flushing
    <2>3. CASE op.kind = "flushAll"
      <3>1. \A l \in Keys : ~conns[l].open
        BY <2>1, <2>3 DEF Flushing
      <3>2. \A l \in Keys : conns[l].list = <<>>
        BY <3>1 DEF BookInv, Booked
      <3>3. BufferedPages = {}
        BY <3>2 DEF BufferedPages
      <3>4. used = 0
        BY <2>1, <3>3, FS_EmptySet DEF Counted
      <3> QED BY <2>3, <3>1, <3>4
    <2>4. CASE op.kind = "flushOptions"
      BY <2>1, <2>4 DEF Flushing
    <2> QED BY <2>2, <2>3, <2>4
  <1> QED BY BooksInductive, <1>1, PTL DEF Spec, FlushLeavesNothingOld

\* The loops of the handlers close no connection by taking a page off it.
LEMMA PopStaysOpen ==
    ASSUME BookInv, AddContiguous \/ SkipFlush, NEW k \in Keys, conns[k].open
    PROVE  conns'[k].open
  <1>0. TypeOK
    BY DEF BookInv
  <1>1. PICK r : r = IF pc = "send" THEN ret ELSE <<>>
    OBVIOUS
  <1>2. PICK w : w = Working(cur, conns[cur], streams[cur], r)
    OBVIOUS
  <1>3. PICK x : x = addNextFromConn(w)
    OBVIOUS
  <1>4. /\ cur \in Keys /\ conns[cur].open /\ conns[cur].list # <<>> /\ Store(cur, x)
    BY <1>0, <1>1, <1>2, <1>3 DEF AddContiguous, SkipFlush, Contiguous, mustSkip, TypeOK
  <1>5. r \in Seq(Told)
    BY <1>0, <1>1, EmptySeq DEF TypeOK
  <1>6. BookWork(w) /\ w.c = conns[cur]
    BY <1>2, <1>4, <1>5, WorkingBooks
  <1>7. x.c.open
    BY <1>3, <1>4, <1>6, PopType DEF BookWork
  <1>8. conns' = [conns EXCEPT ![cur] = x.c]
    BY <1>4 DEF Store
  <1>9. conns \in [Keys -> Connection]
    BY <1>0 DEF TypeOK
  <1> QED BY <1>4, <1>7, <1>8, <1>9

\* A connection that FlushWithOptions closes was drained and heard of nothing
\* since its time, since the time compared is never older than what the
\* connection heard, whichever object of the free list it lives in; or the last
\* of what was pushed to its stream is the end.
THEOREM ActiveSpared == Spec => FlushSparesActive
  <1> DEFINE Spared ==
        \A k \in Keys :
          op.kind = "flushOptions" /\ conns[k].open /\ ~conns'[k].open =>
              \/ op.closeAll /\ conns[k].list = <<>> /\ conns[k].heard < op.t
              \/ ret # <<>> /\ ret[Len(ret)].end /\ streams'[k].log = streams[k].log \o ret
  <1>1. BookInv /\ [Next]_vars => [Spared]_vars
    <2> SUFFICES ASSUME BookInv, Next, NEW k \in Keys,
                        op.kind = "flushOptions", conns[k].open, ~conns'[k].open
                 PROVE  \/ op.closeAll /\ conns[k].list = <<>> /\ conns[k].heard < op.t
                        \/ ret # <<>> /\ ret[Len(ret)].end /\ streams'[k].log = streams[k].log \o ret
      OBVIOUS
    <2>1. TypeOK /\ Flushing
      BY DEF BookInv
    <2>2. pc # "idle"
      BY <2>1 DEF Flushing
    <2>3. CASE FlushClose
      <3>1. cur \in Keys /\ mustClose(conns[cur]) /\ closeConnection(cur, streams[cur].log)
        BY <2>1, <2>3 DEF FlushClose, TypeOK
      <3>2. k = cur
        BY <2>1, <3>1 DEF closeConnection, TypeOK
      <3>3. conns[k].list = <<>> /\ op.closeAll /\ conns[k].lastSeen < op.t
        BY <3>1, <3>2 DEF mustClose
      <3>4. conns[k].heard \in Nat /\ conns[k].lastSeen \in Nat /\ op.t \in Nat
        <4>1. /\ conns[k].heard \in Times \cup {0} /\ conns[k].lastSeen \in Times \cup {0}
              /\ op.t \in FlushTimes \cup {0}
          BY <2>1 DEF TypeOK, Connection
        <4>2. Times \subseteq Nat /\ FlushTimes \subseteq Nat /\ 0 \in Nat
          BY ConstantsAssumption
        <4> QED BY <4>1, <4>2, Zenon
      <3>5. conns[k].heard <= conns[k].lastSeen
        BY DEF BookInv, Booked
      <3> QED BY <3>3, <3>4, <3>5
    <2>4. CASE SendToConnection
      <3>1. /\ cur \in Keys /\ ret # <<>> /\ ret[Len(ret)].end
            /\ closeConnection(cur, streams[cur].log \o ret)
        BY <2>1, <2>4 DEF SendToConnection, TypeOK
      <3>2. k = cur
        BY <2>1, <3>1 DEF closeConnection, TypeOK
      <3>3. streams'[k].log = streams[k].log \o ret
        <4>1. PICK log : log = streams[cur].log \o ret
          OBVIOUS
        <4>2. PICK s : s = [streams[cur] EXCEPT !.log = log, !.complete = TRUE]
          OBVIOUS
        <4>3. streams[cur] \in Stream /\ streams \in [Keys -> Stream]
          BY <2>1, <3>1 DEF TypeOK
        <4>4. s.log = log
          BY <4>2, <4>3 DEF Stream
        <4>5. streams' = [streams EXCEPT ![cur] = s]
          BY <3>1, <4>1, <4>2 DEF closeConnection
        <4> QED BY <3>1, <3>2, <4>1, <4>3, <4>4, <4>5
      <3> QED BY <3>1, <3>3
    <2>5. CASE AddContiguous \/ SkipFlush
      BY <2>5, PopStaysOpen
    <2>6. CASE (\E l \in Keys : FlushNext(l)) \/ FlushLeave \/ FlushReturn
      BY <2>6 DEF FlushNext, FlushLeave, FlushReturn
    <2>7. CASE FlushWithOptions \/ FlushAll
      BY <2>2, <2>7 DEF FlushWithOptions, FlushAll, FlushStart
    <2>8. CASE \E l \in Keys : \E p \in Packets(l) :
                 AssembleNothing(l, p) \/ \E ts \in Times : AssembleWithTimestamp(l, p, ts)
      <3>1. \A l, p : AssembleNothing(l, p) => pc = "idle"
        BY DEF AssembleNothing
      <3>2. ASSUME NEW l, NEW p, NEW ts, AssembleWithTimestamp(l, p, ts) PROVE pc = "idle"
        BY <3>2, Zenon DEF AssembleWithTimestamp
      <3> QED BY <2>2, <2>8, <3>1, <3>2, Zenon
    <2> QED BY <2>3, <2>4, <2>5, <2>6, <2>7, <2>8 DEF Next, Step
  <1> QED BY BooksInductive, <1>1, PTL DEF Spec, FlushSparesActive

-----------------------------------------------------------------------------
(***************************************************************************)
(* No byte is lost, where SYN packets carry no data and a flow is not      *)
(* reused.                                                                 *)
(***************************************************************************)

\* The bytes of a sequence of pages, or of what a stream was told.
Held(q) == UNION {offsets(q[j].bytes) : j \in DOMAIN q}

\* The order of a list of pages: a page that leaves a gap behind everything
\* before it, and behind the reader, starts no later than any page after it.
\* Pages of overlapping packets need not be sorted.
Orderly(list, pos) ==
    \A j \in DOMAIN list :
        \/ list[j].bytes.from <= pos
        \/ \E m \in 1 .. j - 1 :
              list[j].bytes.from <= list[m].bytes.from + list[m].bytes.len
        \/ \A m \in j .. Len(list) : list[j].bytes.from <= list[m].bytes.from

\* What arrived for the stream s of connection c is told, in its log or in the
\* batch r, or buffered; told if the reader is past it.
Kept(c, s, r) ==
    /\ c.nextSeq = invalidSequence => s.pos = -1
    /\ Orderly(c.list, s.pos)
    /\ s.got \subseteq (Held(s.log) \cup Held(r)) \cup Held(c.list)
    /\ \A o \in s.got : o < s.pos => o \in Held(s.log) \cup Held(r)

\* The batch under way to flow k.
Batch(k) == IF pc = "send" /\ cur = k THEN ret ELSE <<>>

\* What is added to IInv and BookInv for the bytes.
ByteInv == \A k \in Keys : conns[k].open => Kept(conns[k], streams[k], Batch(k))

\* The bytes of a batch with one more Reassembly.
LEMMA HeldAppend ==
    ASSUME NEW rs \in Seq(Told), NEW v \in Told, NEW q, q = Append(rs, v)
    PROVE  Held(q) = Held(rs) \cup offsets(v.bytes)
  <1>1. PICK n \in Nat : n = Len(rs) /\ DOMAIN rs = 1 .. n
    OBVIOUS
  <1>2. /\ Len(q) = n + 1 /\ DOMAIN q = 1 .. n + 1
        /\ \A j \in 1 .. n : q[j] = rs[j]
        /\ q[n + 1] = v
    BY <1>1, AppendProperties
  <1>3. \A o : o \in Held(q) => o \in Held(rs) \cup offsets(v.bytes)
    <2> SUFFICES ASSUME NEW j \in 1 .. n + 1, NEW o \in offsets(q[j].bytes)
                 PROVE  o \in Held(rs) \cup offsets(v.bytes)
      BY <1>2 DEF Held
    <2>1. CASE j = n + 1
      BY <1>2, <2>1
    <2>2. CASE j # n + 1
      <3>1. j \in 1 .. n
        BY <2>2
      <3>2. q[j] = rs[j] /\ j \in DOMAIN rs
        BY <1>1, <1>2, <3>1
      <3> QED BY <3>2 DEF Held
    <2> QED BY <2>1, <2>2
  <1>4. \A o : o \in Held(rs) => o \in Held(q)
    <2> SUFFICES ASSUME NEW j \in 1 .. n, NEW o \in offsets(rs[j].bytes)
                 PROVE  o \in Held(q)
      BY <1>1 DEF Held
    <2>1. j \in DOMAIN q /\ q[j] = rs[j]
      BY <1>2
    <2> QED BY <2>1 DEF Held
  <1>5. \A o : o \in offsets(v.bytes) => o \in Held(q)
    <2>1. n + 1 \in DOMAIN q /\ q[n + 1] = v
      BY <1>2
    <2> QED BY <2>1 DEF Held
  <1> QED BY <1>3, <1>4, <1>5

\* The bytes of a log that a batch is appended to.
LEMMA HeldConcat ==
    ASSUME NEW a \in Seq(Told), NEW b \in Seq(Told), NEW q, q = a \o b
    PROVE  Held(q) = Held(a) \cup Held(b)
  <1>1. PICK n \in Nat, m \in Nat : /\ n = Len(a) /\ DOMAIN a = 1 .. n
                                    /\ m = Len(b) /\ DOMAIN b = 1 .. m
    OBVIOUS
  <1>2. /\ Len(q) = n + m /\ DOMAIN q = 1 .. n + m
        /\ \A j \in 1 .. n + m : q[j] = IF j <= n THEN a[j] ELSE b[j - n]
    BY <1>1, ConcatProperties
  <1>3. \A o : o \in Held(q) => o \in Held(a) \cup Held(b)
    <2> SUFFICES ASSUME NEW j \in 1 .. n + m, NEW o \in offsets(q[j].bytes)
                 PROVE  o \in Held(a) \cup Held(b)
      BY <1>2 DEF Held
    <2>1. CASE j <= n
      <3>1. j \in DOMAIN a /\ q[j] = a[j]
        BY <1>1, <1>2, <2>1
      <3> QED BY <3>1 DEF Held
    <2>2. CASE ~(j <= n)
      <3>1. j - n \in DOMAIN b /\ q[j] = b[j - n]
        BY <1>1, <1>2, <2>2
      <3> QED BY <3>1 DEF Held
    <2> QED BY <2>1, <2>2
  <1>4. \A o : o \in Held(a) => o \in Held(q)
    <2> SUFFICES ASSUME NEW j \in 1 .. n, NEW o \in offsets(a[j].bytes)
                 PROVE  o \in Held(q)
      BY <1>1 DEF Held
    <2>1. j \in DOMAIN q /\ q[j] = a[j]
      BY <1>2
    <2> QED BY <2>1 DEF Held
  <1>5. \A o : o \in Held(b) => o \in Held(q)
    <2> SUFFICES ASSUME NEW j \in 1 .. m, NEW o \in offsets(b[j].bytes)
                 PROVE  o \in Held(q)
      BY <1>1 DEF Held
    <2>1. n + j \in DOMAIN q /\ ~(n + j <= n) /\ (n + j) - n = j
      BY <1>2
    <2>2. q[n + j] = b[j]
      BY <1>2, <2>1
    <2> QED BY <2>1, <2>2 DEF Held
  <1> QED BY <1>3, <1>4, <1>5

\* A connection that expects number e has its reader at pos; what of a payload
\* the reader is not past, and where it is after that.
Expects(i, e, pos) ==
    \/ e = invalidSequence /\ pos = -1
    \/ e # invalidSequence /\ pos \in 0 .. StreamLen /\ e = Add(i, pos + 1)

Rest(b, pos) == {o \in offsets(b) : o >= pos}

After(b, pos) == IF b.from + b.len >= pos THEN b.from + b.len ELSE pos

\* Where the reader puts what byteSpan keeps.
Places(b, e, pos) == IF e = invalidSequence \/ b.from >= pos THEN b.from ELSE pos

\* What byteSpan keeps of a segment is what the reader is not past, and the
\* reader is at the end of the segment then, unless it was past it.
LEMMA SpanHolds ==
    ASSUME NEW i \in Sequence, NEW pos, NEW e, NEW b \in Bytes, b.from + b.len <= StreamLen,
           Expects(i, e, pos), NEW sp, sp = byteSpan(e, Add(i, b.from + 1), b)
    PROVE  /\ offsets(sp.bytes) = Rest(b, pos)
           /\ Places(b, e, pos) + sp.bytes.len = After(b, pos)
  <1> USE DEF Rest, After, Places
  <1>0. b.from \in Nat /\ b.len \in Nat /\ StreamLen \in Nat
    BY ConstantsAssumption DEF Bytes
  <1>1. CASE e = invalidSequence /\ pos = -1
    <2>1. sp.bytes = b
      BY <1>1, SpanUnknown
    <2>2. \A o \in offsets(b) : o >= pos
      BY <1>0, <1>1 DEF offsets
    <2>3. b.from + b.len >= pos
      BY <1>0, <1>1
    <2> QED BY <1>1, <2>1, <2>2, <2>3
  <1>2. CASE e # invalidSequence /\ pos \in 0 .. StreamLen /\ e = Add(i, pos + 1)
    <2>1. /\ b.from >= pos => sp.bytes = b
          /\ b.from < pos /\ b.from + b.len < pos => sp.bytes = NoBytes
          /\ b.from < pos /\ b.from + b.len >= pos =>
                sp.bytes = [from |-> pos, len |-> b.from + b.len - pos]
      BY <1>2, SpanKnown
    <2>2. CASE b.from >= pos
      <3>1. sp.bytes = b
        BY <2>1, <2>2
      <3>2. \A o \in offsets(b) : o >= pos
        BY <1>0, <1>2, <2>2 DEF offsets
      <3>3. b.from + b.len >= pos
        BY <1>0, <1>2, <2>2
      <3> QED BY <2>2, <3>1, <3>2, <3>3
    <2>3. CASE b.from < pos /\ b.from + b.len < pos
      <3>1. sp.bytes.from = 0 /\ sp.bytes.len = 0
        BY <2>1, <2>3 DEF NoBytes
      <3>2. offsets(sp.bytes) = {}
        BY <3>1 DEF offsets
      <3>3. \A o \in offsets(b) : ~(o >= pos)
        BY <1>0, <1>2, <2>3 DEF offsets
      <3>4. ~(b.from >= pos) /\ ~(b.from + b.len >= pos)
        BY <1>0, <1>2, <2>3
      <3> QED BY <1>2, <3>1, <3>2, <3>3, <3>4
    <2>4. CASE b.from < pos /\ b.from + b.len >= pos
      <3>1. sp.bytes.from = pos /\ sp.bytes.len = b.from + b.len - pos
        BY <2>1, <2>4
      <3>2. PICK f \in Nat, l \in Nat, n \in Nat : f = b.from /\ l = b.len /\ n = pos
        BY <1>0, <1>2
      <3>3. \A o : o \in n .. n + (f + l - n) - 1 <=> o \in f .. f + l - 1 /\ o >= n
        BY <2>4, <3>2
      <3>4. offsets(sp.bytes) = n .. n + (f + l - n) - 1 /\ offsets(b) = f .. f + l - 1
        BY <3>1, <3>2 DEF offsets
      <3>5. offsets(sp.bytes) = {o \in offsets(b) : o >= pos}
        BY <3>2, <3>3, <3>4
      <3>6. n + (f + l - n) = f + l /\ ~(f >= n)
        BY <2>4, <3>2
      <3> QED BY <1>2, <2>4, <3>1, <3>2, <3>5, <3>6
    <2> QED BY <1>0, <1>2, <2>2, <2>3, <2>4
  <1> QED BY <1>1, <1>2 DEF Expects

\* What addNextFromConn tells, and where the reader is after it.
LEMMA PopPlaces ==
    ASSUME NEW i \in Sequence, NEW x, Good(i, x), x.c.list # <<>>,
           x.c.nextSeq = invalidSequence => x.s.pos = -1,
           NEW b, b = Head(x.c.list).bytes, NEW z, z = addNextFromConn(x)
    PROVE  /\ b \in Bytes /\ b.from + b.len <= StreamLen
           /\ Held(z.ret) = Held(x.ret) \cup Rest(b, x.s.pos)
           /\ z.s.pos = After(b, x.s.pos)
           /\ z.s.log = x.s.log /\ z.s.got = x.s.got
           /\ z.c.list = Tail(x.c.list) /\ z.c.nextSeq # invalidSequence
  <1>1. x \in Work /\ x.c.list \in Seq(Page) /\ InStep(i, x.c, x.s) /\ AllNumbered(i, x.c.list)
        /\ x.ret \in Seq(Told)
    BY DEF Good, Work, Connection
  <1>2. PICK first : first = Head(x.c.list)
    OBVIOUS
  <1>3. first \in Page /\ Numbered(i, first)
    BY <1>1, <1>2 DEF AllNumbered
  <1>4. b = first.bytes /\ b \in Bytes /\ b.from + b.len <= StreamLen
        /\ first.seq = Add(i, b.from + 1)
    BY <1>2, <1>3 DEF Page, Numbered
  <1>5. PICK sp : sp = byteSpan(x.c.nextSeq, Add(i, b.from + 1), b)
    OBVIOUS
  <1>6. PICK pos, e : pos = x.s.pos /\ e = x.c.nextSeq
    OBVIOUS
  <1>7. offsets(sp.bytes) = Rest(b, pos) /\ Places(b, e, pos) + sp.bytes.len = After(b, pos)
    <2>1. Expects(i, e, pos)
      BY <1>1, <1>6 DEF InStep, Expects
    <2> QED BY <1>4, <1>5, <1>6, <2>1, SpanHolds
  <1>8. z.s.pos = Places(b, e, pos) + sp.bytes.len
    BY <1>2, <1>4, <1>5, <1>6, AddNextGood DEF Places
  <1>9. /\ z.s.log = x.s.log /\ z.s.got = x.s.got
        /\ z.c.list = Tail(x.c.list) /\ z.c.nextSeq \in Sequence
        /\ \E v \in Told : v.bytes = sp.bytes /\ z.ret = Append(x.ret, v)
    BY <1>1, <1>2, <1>4, <1>5, PopType
  <1>10. PICK v \in Told : v.bytes = sp.bytes /\ z.ret = Append(x.ret, v)
    BY <1>9
  <1>11. Held(z.ret) = Held(x.ret) \cup offsets(sp.bytes)
    <2>1. PICK rs, q : rs = x.ret /\ q = z.ret
      OBVIOUS
    <2>2. rs \in Seq(Told) /\ q = Append(rs, v)
      BY <1>1, <1>10, <2>1
    <2>3. Held(q) = Held(rs) \cup offsets(v.bytes)
      BY <2>2, HeldAppend
    <2> QED BY <1>10, <2>1, <2>3
  <1>12. z.c.nextSeq # invalidSequence
    BY <1>9 DEF Sequence, invalidSequence
  <1> QED BY <1>4, <1>6, <1>7, <1>8, <1>9, <1>11, <1>12

\* addNextFromConn loses no byte: what the first page holds is told, or was
\* told before, and if it leaves a gap then no page of the list is in the gap.
LEMMA PopKept ==
    ASSUME NEW i \in Sequence, NEW x, Good(i, x), x.c.list # <<>>, Kept(x.c, x.s, x.ret),
           NEW z, z = addNextFromConn(x)
    PROVE  Kept(z.c, z.s, z.ret)
  <1>1. PICK list \in Seq(Page) : list = x.c.list
    BY DEF Good, Work, Connection
  <1>2. PICK n \in Nat : n = Len(list) /\ DOMAIN list = 1 .. n /\ n # 0
    BY <1>1
  <1>3. PICK pos \in Int, got \in SUBSET Nat : pos = x.s.pos /\ got = x.s.got
    BY DEF Good, Work, Stream
  <1>4. PICK told, b : told = Held(x.s.log) \cup Held(x.ret) /\ b = list[1].bytes
    OBVIOUS
  <1>5. /\ Orderly(list, pos) /\ got \subseteq told \cup Held(list)
        /\ \A o \in got : o < pos => o \in told
    BY <1>1, <1>3, <1>4 DEF Kept
  <1>6. b = Head(x.c.list).bytes
    BY <1>1, <1>2, <1>4
  <1>7. /\ b \in Bytes
        /\ Held(z.ret) = Held(x.ret) \cup Rest(b, pos)
        /\ z.s.pos = After(b, pos)
        /\ z.s.log = x.s.log /\ z.s.got = got
        /\ z.c.list = Tail(list) /\ z.c.nextSeq # invalidSequence
    BY <1>1, <1>3, <1>6, PopPlaces DEF Kept
  <1>8. PICK f \in Nat, l \in Nat, q \in Int : f = b.from /\ l = b.len /\ q = After(b, pos)
    BY <1>7 DEF Bytes, After
  <1>9. q = IF f + l >= pos THEN f + l ELSE pos
    BY <1>8 DEF After
  <1>10. PICK t \in Seq(Page) : /\ t = Tail(list) /\ Len(t) = n - 1
                                /\ \A j \in 1 .. n - 1 : t[j] = list[j + 1]
    <2>1. list # <<>>
      BY <1>1
    <2>2. /\ Tail(list) \in Seq(Page) /\ Len(Tail(list)) = n - 1
          /\ \A j \in 1 .. Len(Tail(list)) : Tail(list)[j] = list[j + 1]
      BY <1>2, <2>1, HeadTailProperties
    <2> QED BY <2>2
  <1>11. DOMAIN t = 1 .. n - 1
    BY <1>2, <1>10
  <1>12. \A j \in 1 .. n : list[j].bytes.from \in Nat /\ list[j].bytes.len \in Nat
    <2> TAKE j \in 1 .. n
    <2>1. list[j] \in Page
      BY <1>2
    <2>2. list[j].bytes \in Bytes
      BY <2>1 DEF Page
    <2> QED BY <2>2 DEF Bytes
  <1>13. Held(z.s.log) \cup Held(z.ret) = told \cup Rest(b, pos)
    BY <1>4, <1>7
  <1>14. Orderly(t, q)
    <2> SUFFICES ASSUME NEW j \in 1 .. n - 1
                 PROVE  \/ t[j].bytes.from <= q
                        \/ \E m \in 1 .. j - 1 : t[j].bytes.from <= t[m].bytes.from + t[m].bytes.len
                        \/ \A m \in j .. Len(t) : t[j].bytes.from <= t[m].bytes.from
      BY <1>11 DEF Orderly
    <2>1. j + 1 \in 1 .. n /\ t[j] = list[j + 1]
      BY <1>2, <1>10
    <2>2. PICK g \in Nat : g = list[j + 1].bytes.from
      BY <1>12, <2>1
    <2>3. CASE g <= pos
      <3>1. g <= q
        BY <1>9, <2>3
      <3> QED BY <2>1, <2>2, <3>1
    <2>4. ASSUME NEW m \in 1 .. (j + 1) - 1, g <= list[m].bytes.from + list[m].bytes.len
          PROVE  g <= q \/ \E p \in 1 .. j - 1 : g <= t[p].bytes.from + t[p].bytes.len
      <3>1. CASE m = 1
        BY <1>4, <1>8, <1>9, <2>4, <3>1
      <3>2. CASE m # 1
        <4>1. m - 1 \in 1 .. j - 1 /\ t[m - 1] = list[m]
          <5>1. m - 1 \in 1 .. j - 1 /\ m - 1 \in 1 .. n - 1 /\ (m - 1) + 1 = m
            BY <3>2
          <5> QED BY <1>10, <5>1
        <4> QED BY <2>4, <4>1
      <3> QED BY <3>1, <3>2
    <2>5. ASSUME \A m \in j + 1 .. n : g <= list[m].bytes.from, NEW m \in j .. n - 1
          PROVE  g <= t[m].bytes.from
      <3>1. m + 1 \in j + 1 .. n /\ m \in 1 .. n - 1
        OBVIOUS
      <3> QED BY <1>10, <2>5, <3>1
    <2>6. \/ g <= pos
          \/ \E m \in 1 .. (j + 1) - 1 : g <= list[m].bytes.from + list[m].bytes.len
          \/ \A m \in j + 1 .. n : g <= list[m].bytes.from
      BY <1>2, <1>5, <2>1, <2>2 DEF Orderly
    <2> QED BY <1>10, <2>1, <2>2, <2>3, <2>4, <2>5, <2>6
  <1>15. \A o \in Held(list) : o \in offsets(b) \/ o \in Held(t)
    <2> SUFFICES ASSUME NEW j \in 1 .. n, NEW o \in offsets(list[j].bytes), j # 1
                 PROVE  o \in Held(t)
      BY <1>2, <1>4 DEF Held
    <2>1. j - 1 \in 1 .. n - 1 /\ (j - 1) + 1 = j
      OBVIOUS
    <2>2. t[j - 1] = list[j] /\ j - 1 \in DOMAIN t
      BY <1>10, <1>11, <2>1
    <2> QED BY <2>2 DEF Held
  <1>16. ASSUME NEW o \in got PROVE o \in (told \cup Rest(b, pos)) \cup Held(t)
    <2>1. CASE o < pos
      BY <1>5, <2>1
    <2>2. CASE ~(o < pos)
      <3>1. o >= pos
        BY <2>2
      <3> QED BY <1>5, <1>15, <3>1 DEF Rest
    <2> QED BY <2>1, <2>2
  <1>17. ASSUME NEW o \in got, o < q PROVE o \in told \cup Rest(b, pos)
    <2>1. CASE o < pos
      BY <1>5, <2>1
    <2>2. CASE ~(o < pos) /\ o >= f
      <3>1. o \in f .. f + l - 1 /\ o >= pos
        BY <1>9, <1>17, <2>2
      <3> QED BY <1>8, <3>1 DEF Rest, offsets
    <2>3. CASE ~(o < pos) /\ ~(o >= f)
      <3>1. ~(f <= pos)
        BY <2>3
      <3>2. \A m \in 1 .. n : f <= list[m].bytes.from
        <4>1. 1 \in 1 .. n /\ ~\E m \in 1 .. 1 - 1 : TRUE
          BY <1>2
        <4> QED BY <1>2, <1>4, <1>5, <1>8, <3>1, <4>1 DEF Orderly
      <3>3. o \notin Held(list)
        <4> SUFFICES ASSUME NEW m \in 1 .. n, o \in offsets(list[m].bytes) PROVE FALSE
          BY <1>2 DEF Held
        <4>1. list[m].bytes.from <= o
          BY <1>12 DEF offsets
        <4> QED BY <1>12, <2>3, <3>2, <4>1
      <3> QED BY <1>5, <3>3
    <2> QED BY <2>1, <2>2, <2>3
  <1> QED BY <1>7, <1>8, <1>10, <1>13, <1>14, <1>16, <1>17 DEF Kept

\* The pages of a segment hold all of its bytes, each page starts where the
\* one before it ends, and none before the segment.
LEMMA PagesHold ==
    ASSUME NEW p \in AnyPacket, NEW ts \in Times, NEW new, new = pagesFromTCP(p, ts)
    PROVE  /\ offsets(p.bytes) \subseteq Held(new)
           /\ new[1].bytes.from = p.bytes.from
           /\ \A j \in 1 .. Len(new) : new[j].bytes.from >= p.bytes.from
           /\ \A j \in 2 .. Len(new) :
                 new[j].bytes.from <= new[j - 1].bytes.from + new[j - 1].bytes.len
  <1>0. PICK s \in Nat \ {0} : s = PageBytes
    BY ConstantsAssumption
  <1>1. PICK f \in Nat, l \in Nat : f = p.bytes.from /\ l = p.bytes.len
    BY DEF AnyPacket, Bytes
  <1>2. PICK n \in Nat \ {0} : /\ n = Len(new) /\ n = numPages(p.bytes) /\ DOMAIN new = 1 .. n
    BY PagesType
  <1>3. ASSUME NEW j \in 1 .. n
        PROVE  /\ (j - 1) * s \in 0 .. l
               /\ new[j].bytes.from = f + (j - 1) * s
               /\ new[j].bytes.len = IF l - (j - 1) * s < s THEN l - (j - 1) * s ELSE s
    <2>1. /\ (j - 1) * PageBytes \in 0 .. p.bytes.len
          /\ new[j].bytes.from = p.bytes.from + (j - 1) * PageBytes
          /\ new[j].bytes.len = IF p.bytes.len - (j - 1) * PageBytes < PageBytes
                                THEN p.bytes.len - (j - 1) * PageBytes ELSE PageBytes
      BY <1>2, PagesType
    <2> QED BY <1>0, <1>1, <2>1, Zenon
  <1>4. new[1].bytes.from = f
    <2>1. (1 - 1) * s = 0 /\ 1 \in 1 .. n
      BY <1>2
    <2> QED BY <1>3, <2>1
  <1>5. \A j \in 1 .. n : new[j].bytes.from >= f
    <2> TAKE j \in 1 .. n
    <2>1. PICK d \in 0 .. l : d = (j - 1) * s
      BY <1>3
    <2>2. new[j].bytes.from = f + d
      BY <1>3, <2>1, Zenon
    <2> QED BY <2>2
  <1>6. ASSUME NEW j \in 2 .. n
        PROVE  new[j].bytes.from <= new[j - 1].bytes.from + new[j - 1].bytes.len
    <2>1. j \in 1 .. n /\ j - 1 \in 1 .. n
      OBVIOUS
    <2>2. PICK d \in 0 .. l, e \in 0 .. l : d = (j - 1) * s /\ e = ((j - 1) - 1) * s
      BY <1>3, <2>1
    <2>3. d = e + s
      <3>1. PICK u \in Nat : u = j - 2
        OBVIOUS
      <3>2. d = (u + 1) * s /\ e = u * s
        BY <2>2, <3>1
      <3> QED BY <3>2
    <2>4. new[j].bytes.from = f + d /\ new[j - 1].bytes.from = f + e
          /\ new[j - 1].bytes.len = IF l - e < s THEN l - e ELSE s
      BY <1>3, <2>1, <2>2
    <2> QED BY <2>3, <2>4
  <1>7. ASSUME NEW o \in offsets(p.bytes) PROVE o \in Held(new)
    <2>1. o \in f .. f + l - 1
      BY <1>1 DEF offsets
    <2>2. PICK u \in Nat : u = o - f /\ u <= l - 1
      BY <2>1
    <2>3. PICK a \in Nat : a = u \div s /\ a * s <= u /\ u < a * s + s
      <3>1. u \div s \in Nat /\ (u \div s) * s <= u /\ u < (u \div s) * s + s
        OBVIOUS
      <3> QED BY <3>1
    <2>4. a + 1 \in 1 .. n
      <3>1. n = (l + s - 1) \div s
        BY <1>0, <1>1, <1>2, <2>2 DEF numPages
      <3>2. l + s - 1 < n * s + s
        <4>1. PICK v \in Nat : v = l + s - 1
          OBVIOUS
        <4>2. v < (v \div s) * s + s
          BY <4>1
        <4> QED BY <3>1, <4>1, <4>2
      <3>3. a * s < n * s
        BY <2>2, <2>3, <3>2
      <3>4. a < n
        BY <3>3
      <3> QED BY <3>4
    <2>5. PICK j \in 1 .. n : j = a + 1 /\ j - 1 = a
      BY <2>4
    <2>6. PICK d \in 0 .. l : d = a * s
      BY <1>3, <2>5
    <2>7. new[j].bytes.from = f + d /\ new[j].bytes.len = IF l - d < s THEN l - d ELSE s
      BY <1>3, <2>5, <2>6
    <2>8. o \in offsets(new[j].bytes)
      <3>1. PICK m \in Nat : m = new[j].bytes.len /\ m = IF l - d < s THEN l - d ELSE s
        BY <2>7
      <3>2. o \in f + d .. (f + d) + m - 1
        BY <2>1, <2>2, <2>3, <2>6, <3>1
      <3> QED BY <2>7, <3>1, <3>2 DEF offsets
    <2> QED BY <1>2, <2>8 DEF Held
  <1> QED BY <1>1, <1>2, <1>4, <1>5, <1>6, <1>7

\* The pages of a segment that starts at f; a place in a list for them.
Copied(new, f) ==
    /\ new[1].bytes.from = f
    /\ \A j \in 1 .. Len(new) : new[j].bytes.from >= f
    /\ \A j \in 2 .. Len(new) :
          new[j].bytes.from <= new[j - 1].bytes.from + new[j - 1].bytes.len

Between(list, m, f) ==
    /\ m # 0 => list[m].bytes.from <= f
    /\ \A j \in 1 .. Len(list) : j > m => f <= list[j].bytes.from

\* Linking the pages of a segment in behind the last page that starts no later
\* keeps the order of the list and every byte in it.
LEMMA PushOrderly ==
    ASSUME NEW list \in Seq(Page), NEW new \in Seq(Page), new # <<>>, NEW m \in 0 .. Len(list),
           NEW pos \in Int, NEW f \in Nat, Orderly(list, pos),
           Copied(new, f), Between(list, m, f), NEW q, q = pushBetween(list, m, new)
    PROVE  Orderly(q, pos) /\ Held(list) \cup Held(new) \subseteq Held(q)
  <1>0. /\ new[1].bytes.from = f /\ \A j \in 1 .. Len(new) : new[j].bytes.from >= f
        /\ \A j \in 2 .. Len(new) :
              new[j].bytes.from <= new[j - 1].bytes.from + new[j - 1].bytes.len
        /\ m # 0 => list[m].bytes.from <= f
        /\ \A j \in 1 .. Len(list) : j > m => f <= list[j].bytes.from
    BY DEF Copied, Between
  <1>1. PICK a \in Nat, b \in Nat \ {0} : /\ a = Len(list) /\ DOMAIN list = 1 .. a
                                          /\ b = Len(new) /\ DOMAIN new = 1 .. b
    OBVIOUS
  <1>2. Len(q) = a + b /\ q \in Seq(Page)
    BY <1>1, PushType
  <1>3. DOMAIN q = 1 .. a + b
    BY <1>2
  <1>4. \A j \in 1 .. a + b : q[j] = IF j <= m THEN list[j]
                                     ELSE IF j <= m + b THEN new[j - m] ELSE list[j - b]
    BY <1>1 DEF pushBetween
  <1>5. \A j \in 1 .. m : j \in 1 .. a + b /\ j \in 1 .. a /\ q[j] = list[j]
    BY <1>1, <1>4
  <1>6. \A j \in 1 .. b : m + j \in 1 .. a + b /\ q[m + j] = new[j]
    <2> TAKE j \in 1 .. b
    <2>1. m + j \in 1 .. a + b /\ ~(m + j <= m) /\ m + j <= m + b /\ (m + j) - m = j
      BY <1>1
    <2> QED BY <1>4, <2>1
  <1>7. \A j \in 1 .. a : j > m => j + b \in 1 .. a + b /\ q[j + b] = list[j]
    <2> SUFFICES ASSUME NEW j \in 1 .. a, j > m
                 PROVE  j + b \in 1 .. a + b /\ q[j + b] = list[j]
      OBVIOUS
    <2>1. j + b \in 1 .. a + b /\ ~(j + b <= m) /\ ~(j + b <= m + b) /\ (j + b) - b = j
      BY <1>1
    <2> QED BY <1>4, <2>1
  <1>8. /\ \A j \in 1 .. a : list[j].bytes.from \in Nat /\ list[j].bytes.len \in Nat
        /\ \A j \in 1 .. b : new[j].bytes.from \in Nat /\ new[j].bytes.len \in Nat
        /\ \A j \in 1 .. a + b : q[j].bytes.from \in Nat
    <2>1. ASSUME NEW r \in Page PROVE r.bytes.from \in Nat /\ r.bytes.len \in Nat
      <3>1. r.bytes \in Bytes
        BY DEF Page
      <3> QED BY <3>1 DEF Bytes
    <2>2. /\ \A j \in 1 .. a : list[j] \in Page
          /\ \A j \in 1 .. b : new[j] \in Page
          /\ \A j \in 1 .. a + b : q[j] \in Page
      BY <1>1, <1>2, <1>3
    <2> QED BY <2>1, <2>2
  <1>9. Held(list) \cup Held(new) \subseteq Held(q)
    <2>1. ASSUME NEW j \in 1 .. a, NEW o \in offsets(list[j].bytes) PROVE o \in Held(q)
      <3>1. CASE j <= m
        <4>1. j \in 1 .. m
          BY <3>1
        <4> QED BY <1>3, <1>5, <4>1 DEF Held
      <3>2. CASE ~(j <= m)
        <4>1. j > m
          BY <3>2
        <4> QED BY <1>3, <1>7, <4>1 DEF Held
      <3> QED BY <3>1, <3>2
    <2>2. ASSUME NEW j \in 1 .. b, NEW o \in offsets(new[j].bytes) PROVE o \in Held(q)
      BY <1>3, <1>6 DEF Held
    <2>3. \A o \in Held(list) : o \in Held(q)
      BY <1>1, <2>1 DEF Held
    <2>4. \A o \in Held(new) : o \in Held(q)
      BY <1>1, <2>2 DEF Held
    <2> QED BY <2>3, <2>4
  <1>10. ASSUME NEW j \in 1 .. a
         PROVE  \/ list[j].bytes.from <= pos
                \/ \E r \in 1 .. j - 1 :
                      list[j].bytes.from <= list[r].bytes.from + list[r].bytes.len
                \/ \A r \in j .. a : list[j].bytes.from <= list[r].bytes.from
    BY <1>1 DEF Orderly
  <1>11. ASSUME NEW j \in 1 .. a + b
         PROVE  \/ q[j].bytes.from <= pos
                \/ \E r \in 1 .. j - 1 : q[j].bytes.from <= q[r].bytes.from + q[r].bytes.len
                \/ \A r \in j .. a + b : q[j].bytes.from <= q[r].bytes.from
    <2>1. CASE j <= m
      <3>1. j \in 1 .. a /\ j \in 1 .. m /\ q[j] = list[j]
        BY <1>1, <1>5, <2>1
      <3>2. ASSUME NEW r \in 1 .. j - 1,
                   list[j].bytes.from <= list[r].bytes.from + list[r].bytes.len
            PROVE  \E s \in 1 .. j - 1 : q[j].bytes.from <= q[s].bytes.from + q[s].bytes.len
        <4>1. r \in 1 .. m
          BY <2>1
        <4> QED BY <1>5, <3>1, <3>2, <4>1
      <3>3. ASSUME \A r \in j .. a : list[j].bytes.from <= list[r].bytes.from,
                   NEW r \in j .. a + b
            PROVE  q[j].bytes.from <= q[r].bytes.from
        <4>1. CASE r <= m
          <5>1. r \in 1 .. m /\ r \in j .. a
            BY <1>1, <4>1
          <5> QED BY <1>5, <3>1, <3>3, <5>1
        <4>2. CASE r > m /\ r <= m + b
          <5>1. PICK s \in 1 .. b : r = m + s
            <6>1. r - m \in 1 .. b /\ r = m + (r - m)
              BY <4>2
            <6> QED BY <6>1
          <5>2. q[r] = new[s] /\ new[s].bytes.from >= f
            BY <1>0, <1>1, <1>6, <5>1
          <5>3. m # 0 /\ m \in j .. a /\ m \in 1 .. a
            BY <1>1, <2>1
          <5>4. list[j].bytes.from <= list[m].bytes.from /\ list[m].bytes.from <= f
            BY <1>0, <3>3, <5>3
          <5>5. PICK u \in Nat, v \in Nat, w \in Nat :
                    u = list[j].bytes.from /\ v = list[m].bytes.from /\ w = new[s].bytes.from
            BY <1>8, <3>1, <5>3
          <5>6. u <= v /\ v <= f /\ w >= f
            BY <5>2, <5>4, <5>5, Zenon
          <5>7. u <= w
            BY <5>6
          <5> QED BY <3>1, <5>2, <5>5, <5>7
        <4>3. CASE r > m + b
          <5>1. PICK s \in 1 .. a : r = s + b /\ s > m
            <6>1. r - b \in 1 .. a /\ r = (r - b) + b /\ r - b > m
              BY <4>3
            <6> QED BY <6>1
          <5>2. q[r] = list[s] /\ s \in j .. a
            BY <1>7, <2>1, <5>1
          <5> QED BY <3>1, <3>3, <5>2
        <4> QED BY <4>1, <4>2, <4>3
      <3> QED BY <1>10, <3>1, <3>2, <3>3
    <2>2. CASE j = m + 1
      <3>1. q[j] = new[1] /\ q[j].bytes.from = f
        BY <1>0, <1>6, <2>2
      <3>2. ASSUME NEW r \in j .. a + b PROVE f <= q[r].bytes.from
        <4>1. CASE r <= m + b
          <5>1. PICK s \in 1 .. b : r = m + s
            <6>1. r - m \in 1 .. b /\ r = m + (r - m)
              BY <2>2, <4>1
            <6> QED BY <6>1
          <5> QED BY <1>0, <1>1, <1>6, <1>8, <5>1
        <4>2. CASE r > m + b
          <5>1. PICK s \in 1 .. a : r = s + b /\ s > m
            <6>1. r - b \in 1 .. a /\ r = (r - b) + b /\ r - b > m
              BY <4>2
            <6> QED BY <6>1
          <5> QED BY <1>0, <1>1, <1>7, <5>1
        <4> QED BY <4>1, <4>2
      <3> QED BY <3>1, <3>2
    <2>3. CASE j > m + 1 /\ j <= m + b
      <3>1. PICK s \in 2 .. b : j = m + s
        <4>1. j - m \in 2 .. b /\ j = m + (j - m)
          BY <2>3
        <4> QED BY <4>1
      <3>2. s \in 1 .. b /\ s - 1 \in 1 .. b /\ m + (s - 1) \in 1 .. j - 1
        BY <3>1
      <3>3. q[j] = new[s] /\ q[m + (s - 1)] = new[s - 1]
        BY <1>6, <3>1, <3>2
      <3>4. new[s].bytes.from <= new[s - 1].bytes.from + new[s - 1].bytes.len
        BY <1>0, <1>1
      <3> QED BY <3>2, <3>3, <3>4
    <2>4. CASE j > m + b
      <3>1. PICK s \in 1 .. a : j = s + b /\ s > m
        <4>1. j - b \in 1 .. a /\ j = (j - b) + b /\ j - b > m
          BY <2>4
        <4> QED BY <4>1
      <3>2. q[j] = list[s]
        BY <1>7, <3>1
      <3>3. ASSUME NEW r \in 1 .. s - 1,
                   list[s].bytes.from <= list[r].bytes.from + list[r].bytes.len
            PROVE  \E u \in 1 .. j - 1 : q[j].bytes.from <= q[u].bytes.from + q[u].bytes.len
        <4>1. CASE r <= m
          <5>1. r \in 1 .. m /\ r \in 1 .. j - 1
            BY <3>1, <4>1
          <5> QED BY <1>5, <3>2, <3>3, <5>1
        <4>2. CASE r > m
          <5>1. r \in 1 .. a /\ r + b \in 1 .. j - 1
            BY <3>1, <4>2
          <5> QED BY <1>7, <3>2, <3>3, <4>2, <5>1
        <4> QED BY <4>1, <4>2
      <3>4. ASSUME \A r \in s .. a : list[s].bytes.from <= list[r].bytes.from,
                   NEW r \in j .. a + b
            PROVE  q[j].bytes.from <= q[r].bytes.from
        <4>1. PICK u \in s .. a : r = u + b /\ u > m /\ u \in 1 .. a
          <5>1. r - b \in s .. a /\ r = (r - b) + b /\ r - b > m /\ r - b \in 1 .. a
            BY <3>1
          <5> QED BY <5>1
        <4> QED BY <1>7, <3>2, <3>4, <4>1
      <3> QED BY <1>10, <3>2, <3>3, <3>4
    <2> QED BY <2>1, <2>2, <2>3, <2>4
  <1>12. Orderly(q, pos)
    BY <1>2, <1>3, <1>11 DEF Orderly
  <1> QED BY <1>9, <1>12

\* What Kept becomes when the payload b has arrived and is not handled yet.
Arrived(c, s, r, b) ==
    /\ c.nextSeq = invalidSequence => s.pos = -1
    /\ Orderly(c.list, s.pos)
    /\ s.got \subseteq ((Held(s.log) \cup Held(r)) \cup Held(c.list)) \cup Rest(b, s.pos)
    /\ \A o \in s.got : o < s.pos => o \in Held(s.log) \cup Held(r)

\* insertIntoConn buffers all of a segment, and tells what it pops.
LEMMA InsertKept ==
    ASSUME NEW i \in Sequence, NEW x, Good(i, x), NEW p \in Segment(i), NEW ts \in Times,
           Arrived(x.c, x.s, x.ret, p.bytes), NEW z, z = insertIntoConn(x, p, ts)
    PROVE  Kept(z.c, z.s, z.ret)
  <1>1. /\ x \in Work /\ x.c \in Connection /\ x.c.open /\ x.c.pages \in Int /\ x.used \in Int
        /\ wellPlaced(x.ret) /\ wellPlaced(x.s.log)
        /\ InStep(i, x.c, x.s) /\ AllNumbered(i, x.c.list)
    BY DEF Good, Work, Connection
  <1>2. PICK list \in Seq(Page), n \in Nat : list = x.c.list /\ n = Len(list) /\ DOMAIN list = 1 .. n
    BY <1>1 DEF Connection
  <1>3. PICK new : new = pagesFromTCP(p, ts)
    OBVIOUS
  <1>4. p \in AnyPacket
    BY DEF Segment, AnyPacket
  <1>5. /\ new \in Seq(Page) /\ new # <<>> /\ AllNumbered(i, new)
    BY <1>3, PagesNumbered
  <1>6. PICK f \in 0 .. StreamLen : f = p.bytes.from /\ p.seq = Add(i, f + 1)
    BY ConstantsAssumption DEF Segment, Numbered, Bytes
  <1>7. /\ offsets(p.bytes) \subseteq Held(new) /\ new[1].bytes.from = f
        /\ \A j \in 1 .. Len(new) : new[j].bytes.from >= f
        /\ \A j \in 2 .. Len(new) :
              new[j].bytes.from <= new[j - 1].bytes.from + new[j - 1].bytes.len
    BY <1>3, <1>4, <1>6, PagesHold
  <1>8. PICK m \in 0 .. n : /\ m = traverseConn(list, p.seq)
                            /\ m # 0 => Difference(list[m].seq, p.seq) >= 0
                            /\ \A j \in 1 .. n : j > m => ~(Difference(list[j].seq, p.seq) >= 0)
    BY <1>2, TraverseInList
  <1>9. ASSUME NEW j \in 1 .. n
        PROVE  /\ list[j].bytes.from \in Nat
               /\ Difference(list[j].seq, p.seq) = f - list[j].bytes.from
    <2>1. list[j] \in Page /\ Numbered(i, list[j])
      BY <1>1, <1>2 DEF AllNumbered
    <2>2. list[j].bytes \in Bytes
      BY <2>1 DEF Page
    <2>3. PICK g \in 0 .. StreamLen : g = list[j].bytes.from /\ list[j].seq = Add(i, g + 1)
      BY <2>1, <2>2, ConstantsAssumption DEF Numbered, Bytes
    <2>4. Difference(Add(i, g + 1), Add(i, f + 1)) = f - g
      BY DifferenceFromExpected
    <2> QED BY <1>6, <2>3, <2>4, ConstantsAssumption
  <1>10. m # 0 => list[m].bytes.from <= f
    <2> HAVE m # 0
    <2>1. m \in 1 .. n
      OBVIOUS
    <2>2. f - list[m].bytes.from >= 0 /\ list[m].bytes.from \in Nat
      BY <1>8, <1>9, <2>1
    <2> QED BY <1>6, <2>2
  <1>11. \A j \in 1 .. n : j > m => f <= list[j].bytes.from
    <2> SUFFICES ASSUME NEW j \in 1 .. n, j > m PROVE f <= list[j].bytes.from
      OBVIOUS
    <2>1. ~(f - list[j].bytes.from >= 0) /\ list[j].bytes.from \in Nat
      BY <1>8, <1>9
    <2> QED BY <1>6, <2>1
  <1>12. PICK q : q = pushBetween(list, m, new)
    OBVIOUS
  <1>13. PICK pos \in Int : pos = x.s.pos
    BY <1>1 DEF Work, Stream
  <1>14. Orderly(q, pos) /\ Held(list) \cup Held(new) \subseteq Held(q)
    <2>1. m \in 0 .. Len(list) /\ f \in Nat /\ Orderly(list, pos)
      BY <1>2, <1>6, <1>8, <1>13, ConstantsAssumption DEF Arrived
    <2>2. Between(list, m, f)
      BY <1>2, <1>10, <1>11 DEF Between
    <2>3. Copied(new, f)
      BY <1>7 DEF Copied
    <2> QED BY <1>2, <1>5, <1>12, <1>13, <2>1, <2>2, <2>3, PushOrderly
  <1>15. q \in Seq(Page) /\ q # <<>> /\ AllNumbered(i, q)
    <2>1. m \in 0 .. Len(list) /\ AllNumbered(i, list)
      BY <1>1, <1>2, <1>8
    <2> QED BY <1>5, <1>12, <2>1, PushNumbered
  <1>16. PICK k \in Int, u \in Int : k = x.c.pages + Len(new) /\ u = x.used + Len(new)
    BY <1>1, <1>5
  <1>17. PICK c : c = [x.c EXCEPT !.list = q, !.pages = k]
    OBVIOUS
  <1>18. c \in Connection /\ c.open /\ c.list = q /\ c.nextSeq = x.c.nextSeq
    BY <1>1, <1>15, <1>16, <1>17 DEF Connection
  <1>19. PICK y : y = [x EXCEPT !.c = c, !.used = u]
    OBVIOUS
  <1>20. y \in Work /\ y.c = c /\ y.s = x.s /\ y.ret = x.ret
    BY <1>1, <1>16, <1>18, <1>19 DEF Work
  <1>21. z \in {y, addNextFromConn(y)}
    BY <1>2, <1>3, <1>8, <1>12, <1>16, <1>17, <1>19 DEF insertIntoConn
  <1>22. Good(i, y)
    BY <1>1, <1>15, <1>18, <1>20 DEF Good, InStep
  <1>23. Kept(y.c, y.s, y.ret)
    <2>1. Rest(p.bytes, pos) \subseteq Held(new)
      BY <1>7 DEF Rest
    <2>2. x.s.got \subseteq (Held(x.s.log) \cup Held(x.ret)) \cup Held(q)
      <3>1. x.s.got \subseteq ((Held(x.s.log) \cup Held(x.ret)) \cup Held(list)) \cup Rest(p.bytes, pos)
        BY <1>2, <1>13 DEF Arrived
      <3> QED BY <1>14, <2>1, <3>1
    <2> QED BY <1>13, <1>14, <1>18, <1>20, <2>2 DEF Kept, Arrived
  <1>24. Kept(addNextFromConn(y).c, addNextFromConn(y).s, addNextFromConn(y).ret)
    BY <1>15, <1>18, <1>20, <1>22, <1>23, PopKept
  <1> QED BY <1>21, <1>23, <1>24

\* A Reassembly that is told at once, up to the new position of the reader.
LEMMA TellKept ==
    ASSUME NEW x \in Work, NEW b, Arrived(x.c, x.s, x.ret, b), NEW r \in Reassemblies,
           NEW e \in Sequence,
           NEW n \in Int, n = readerAt(x.s.pos, r) + r.bytes.len, n >= x.s.pos,
           Rest(b, x.s.pos) \subseteq offsets(r.bytes),
           \A o \in Nat : o >= x.s.pos /\ o < n => o \in offsets(r.bytes),
           NEW z, z = [appendRet(x, r) EXCEPT !.c = [x.c EXCEPT !.nextSeq = e]]
    PROVE  Kept(z.c, z.s, z.ret)
  <1>1. PICK y : y = appendRet(x, r)
    OBVIOUS
  <1>2. /\ y \in Work /\ y.s.log = x.s.log /\ y.s.got = x.s.got /\ y.s.pos = n
        /\ \E v \in Told : v.bytes = r.bytes /\ y.ret = Append(x.ret, v)
    BY <1>1, AppendType
  <1>3. PICK v \in Told : v.bytes = r.bytes /\ y.ret = Append(x.ret, v)
    BY <1>2
  <1>4. Held(y.ret) = Held(x.ret) \cup offsets(r.bytes)
    <2>1. PICK rs, q : rs = x.ret /\ q = y.ret
      OBVIOUS
    <2>2. rs \in Seq(Told) /\ q = Append(rs, v)
      BY <1>3, <2>1 DEF Work
    <2>3. Held(q) = Held(rs) \cup offsets(v.bytes)
      BY <2>2, HeldAppend
    <2> QED BY <1>3, <2>1, <2>3
  <1>5. PICK c : c = [x.c EXCEPT !.nextSeq = e]
    OBVIOUS
  <1>6. x.c \in Connection
    BY DEF Work
  <1>7. c.list = x.c.list /\ c.nextSeq = e
    BY <1>5, <1>6 DEF Connection
  <1>8. z = [y EXCEPT !.c = c]
    BY <1>1, <1>5
  <1>9. z.c = c /\ z.s = y.s /\ z.ret = y.ret
    BY <1>2, <1>8 DEF Work
  <1>10. e # invalidSequence
    BY DEF Sequence, invalidSequence
  <1>11. PICK pos \in Int, got \in SUBSET Nat, list \in Seq(Page) :
            pos = x.s.pos /\ got = x.s.got /\ list = x.c.list
    BY <1>6 DEF Work, Stream, Connection
  <1>12. Orderly(list, n)
    <2>1. Orderly(list, pos)
      BY <1>11 DEF Arrived
    <2>2. ASSUME NEW j \in DOMAIN list, list[j].bytes.from <= pos
          PROVE  list[j].bytes.from <= n
      <3>1. list[j] \in Page
        BY <1>11
      <3>2. list[j].bytes \in Bytes
        BY <3>1 DEF Page
      <3>3. list[j].bytes.from \in Nat
        BY <3>2 DEF Bytes
      <3> QED BY <1>11, <2>2, <3>3
    <2> QED BY <2>1, <2>2 DEF Orderly
  <1>13. PICK told : told = Held(x.s.log) \cup Held(x.ret)
    OBVIOUS
  <1>14. ASSUME NEW o \in got
         PROVE  /\ o \in (told \cup offsets(r.bytes)) \cup Held(list)
                /\ o < n => o \in told \cup offsets(r.bytes)
    <2>1. o \in (told \cup Held(list)) \cup Rest(b, pos)
      BY <1>11, <1>13 DEF Arrived
    <2>2. o \in (told \cup offsets(r.bytes)) \cup Held(list)
      BY <1>11, <2>1
    <2>3. o < pos => o \in told
      BY <1>11, <1>13 DEF Arrived
    <2>4. o < n => o \in told \cup offsets(r.bytes)
      <3>1. o \in Nat /\ (o < pos \/ o >= pos)
        BY <1>11
      <3> QED BY <1>11, <2>3, <3>1
    <2> QED BY <2>2, <2>4
  <1>15. Held(z.s.log) \cup Held(z.ret) = told \cup offsets(r.bytes)
    BY <1>2, <1>4, <1>9, <1>13
  <1> QED BY <1>2, <1>7, <1>9, <1>10, <1>11, <1>12, <1>14, <1>15 DEF Kept

\* What AssembleWithTimestamp does with the payload of a packet.
LEMMA AssembleKept ==
    ASSUME NEW i \in Sequence, NEW x, Good(i, x), NEW ts \in Times,
           NEW p, p \in Segment(i) \/ IsSyn(i, p),
           Arrived(x.c, x.s, x.ret, p.bytes), NEW z, z = assemblePacket(x, p, ts)
    PROVE  Kept(z.c, z.s, z.ret)
  <1>0. NoBytes \in Bytes /\ NoBytes.len = 0 /\ NoBytes.from = 0 /\ offsets(NoBytes) = {}
    BY DEF NoBytes, Bytes, offsets
  <1>a. PICK next : next = x.c.nextSeq
    OBVIOUS
  <1>1. PICK pos \in Int : pos = x.s.pos /\ next = x.c.nextSeq
    BY <1>a DEF Good, Work, Stream
  <1>2. Expects(i, next, pos) /\ x \in Work
    BY <1>1 DEF Good, InStep, Arrived, Expects
  <1>3. \A n \in Int : Rest(NoBytes, n) = {}
    BY <1>0 DEF Rest
  <1>4. CASE IsSyn(i, p) /\ next = invalidSequence
    <2>1. p.syn /\ p.seq = i /\ p.bytes = NoBytes
      BY <1>4 DEF IsSyn
    <2>2. PICK r : r = Reassembly(NoBytes, 0, TRUE, FALSE)
      OBVIOUS
    <2>3. r \in Reassemblies /\ r.bytes = NoBytes /\ readerAt(pos, r) = 0
      BY <1>0, <2>2 DEF Reassembly, Reassemblies, readerAt
    <2>4. PICK e \in Sequence : e = Add(i, 0 + 1)
      <3>1. 0 + 1 \in Nat
        OBVIOUS
      <3> QED BY <3>1, AddType
    <2>5. z = [appendRet(x, r) EXCEPT !.c = [x.c EXCEPT !.nextSeq = e]]
      BY <1>0, <1>1, <1>4, <2>1, <2>2, <2>4 DEF assemblePacket
    <2>6. pos = -1
      BY <1>2, <1>4 DEF Expects
    <2>7. /\ 0 \in Int /\ 0 = readerAt(x.s.pos, r) + r.bytes.len /\ 0 >= x.s.pos
          /\ Rest(p.bytes, x.s.pos) \subseteq offsets(r.bytes)
      BY <1>0, <1>1, <1>3, <2>1, <2>3, <2>6
    <2>8. \A o \in Nat : o >= x.s.pos /\ o < 0 => o \in offsets(r.bytes)
      OBVIOUS
    <2> QED BY <1>2, <2>3, <2>5, <2>7, <2>8, TellKept
  <1>5. CASE IsSyn(i, p) /\ next # invalidSequence
    <2>1. p.syn /\ p.seq = i /\ p.bytes = NoBytes /\ p.end = FALSE
      BY <1>5 DEF IsSyn
    <2>2. pos \in 0 .. StreamLen /\ next = Add(i, pos + 1)
      BY <1>2, <1>5 DEF Expects
    <2>3. Difference(i, next) = pos + 1 /\ Difference(next, i) = 0 - (pos + 1)
      <3>1. PICK a \in 0 .. Quarter - 1 : a = pos + 1
        BY <2>2, ConstantsAssumption, QuarterAssumption
      <3>2. 0 \in 0 .. Quarter - 1 /\ Add(i, 0) = i
        BY AddWraps, QuarterAssumption DEF Sequence, SeqSpace
      <3>3. /\ Difference(Add(i, 0), Add(i, a)) = a - 0
            /\ Difference(Add(i, a), Add(i, 0)) = 0 - a
        BY <3>2, DifferenceIsDistance
      <3> QED BY <2>2, <3>1, <3>2, <3>3
    <2>4. byteSpan(next, p.seq, p.bytes) = [bytes |-> NoBytes, next |-> next]
      BY <1>0, <1>5, <2>1, <2>2, <2>3, ConstantsAssumption DEF byteSpan
    <2>5. ~(Difference(next, p.seq) > 0)
      BY <2>1, <2>2, <2>3, ConstantsAssumption
    <2>6. PICK r : r = Reassembly(NoBytes, 0, FALSE, FALSE)
      OBVIOUS
    <2>7. r \in Reassemblies /\ r.bytes = NoBytes /\ readerAt(pos, r) = pos
      BY <1>0, <2>6 DEF Reassembly, Reassemblies, readerAt
    <2>8. next \in Sequence
      BY <1>1, <1>2, <1>5 DEF Work, Connection
    <2>9. z = [appendRet(x, r) EXCEPT !.c = [x.c EXCEPT !.nextSeq = next]]
      <3>1. PICK span : span = byteSpan(x.c.nextSeq, p.seq, p.bytes)
        OBVIOUS
      <3>2. z = [appendRet(x, Reassembly(span.bytes, 0, FALSE, p.end)) EXCEPT
                   !.c = [x.c EXCEPT !.nextSeq = span.next]]
        BY <1>1, <1>5, <2>5, <3>1 DEF assemblePacket
      <3>3. span.bytes = NoBytes /\ span.next = next
        BY <1>1, <2>4, <3>1
      <3>4. Reassembly(span.bytes, 0, FALSE, p.end) = r
        BY <2>1, <2>6, <3>3, Zenon
      <3> QED BY <3>2, <3>3, <3>4
    <2>10. /\ pos \in Int /\ pos = readerAt(x.s.pos, r) + r.bytes.len /\ pos >= x.s.pos
           /\ Rest(p.bytes, x.s.pos) \subseteq offsets(r.bytes)
      BY <1>0, <1>1, <1>3, <2>1, <2>7
    <2>11. \A o \in Nat : o >= x.s.pos /\ o < pos => o \in offsets(r.bytes)
      BY <1>1
    <2> QED BY <1>2, <2>7, <2>8, <2>9, <2>10, <2>11, TellKept
  <1>6. CASE /\ p \in Segment(i)
             /\ next = invalidSequence \/ Difference(next, p.seq) > 0
    <2>1. ~p.syn
      BY <1>6 DEF Segment
    <2>2. z = insertIntoConn(x, p, ts)
      BY <1>1, <1>6, <2>1 DEF assemblePacket
    <2> QED BY <1>6, <2>2, InsertKept
  <1>7. CASE /\ p \in Segment(i)
             /\ ~(next = invalidSequence \/ Difference(next, p.seq) > 0)
    <2>1. PICK b \in Bytes : b = p.bytes
      BY <1>7 DEF Segment
    <2>2. PICK f \in Nat, l \in Nat : f = b.from /\ l = b.len
      BY DEF Bytes
    <2>3. /\ f + l <= StreamLen /\ p.seq = Add(i, f + 1) /\ ~p.syn /\ p.end \in BOOLEAN
      BY <1>7, <2>1, <2>2 DEF Segment, Numbered
    <2>4. pos \in 0 .. StreamLen /\ next = Add(i, pos + 1)
      BY <1>2, <1>7 DEF Expects
    <2>5. f <= pos
      <3>1. f \in 0 .. StreamLen
        BY <2>3, ConstantsAssumption
      <3>2. Difference(next, p.seq) = f - pos
        BY <2>3, <2>4, <3>1, DifferenceFromExpected
      <3> QED BY <1>7, <3>2
    <2>6. PICK sp : sp = byteSpan(next, Add(i, b.from + 1), b)
      OBVIOUS
    <2>7. offsets(sp.bytes) = Rest(b, pos) /\ Places(b, next, pos) + sp.bytes.len = After(b, pos)
      BY <1>2, <2>2, <2>3, <2>6, SpanHolds
    <2>8. Places(b, next, pos) = pos
      BY <1>7, <2>2, <2>5 DEF Places
    <2>9. sp.bytes \in Bytes /\ sp.next \in Sequence
      <3>1. next \in Sequence \cup {invalidSequence} /\ p.seq \in Sequence
        BY <1>1, <1>2, <1>7 DEF Work, Connection, Segment
      <3> QED BY <2>2, <2>3, <2>6, <3>1, SpanType
    <2>10. PICK r : r = Reassembly(sp.bytes, 0, FALSE, p.end)
      OBVIOUS
    <2>11. r \in Reassemblies /\ r.bytes = sp.bytes /\ readerAt(pos, r) = pos
      BY <2>3, <2>9, <2>10 DEF Reassembly, Reassemblies, readerAt
    <2>12. PICK e \in Sequence : e = sp.next
      BY <2>9
    <2>13. z = [appendRet(x, r) EXCEPT !.c = [x.c EXCEPT !.nextSeq = e]]
      BY <1>1, <1>7, <2>1, <2>2, <2>3, <2>6, <2>10, <2>12 DEF assemblePacket
    <2>14. PICK n \in Int : n = After(b, pos) /\ n = IF f + l >= pos THEN f + l ELSE pos
      BY <2>2 DEF After
    <2>15. /\ n = readerAt(x.s.pos, r) + r.bytes.len
           /\ Rest(p.bytes, x.s.pos) \subseteq offsets(r.bytes)
      BY <1>1, <2>1, <2>7, <2>8, <2>11, <2>14
    <2>16. n >= x.s.pos
      BY <1>1, <2>14
    <2>17. ASSUME NEW o \in Nat, o >= x.s.pos, o < n PROVE o \in offsets(r.bytes)
      <3>1. o \in f .. f + l - 1 /\ o >= pos
        BY <1>1, <2>5, <2>14, <2>17
      <3>2. o \in Rest(b, pos)
        BY <2>2, <3>1 DEF Rest, offsets
      <3> QED BY <2>7, <2>11, <3>2
    <2>18. \A o \in Nat : o >= x.s.pos /\ o < n => o \in offsets(r.bytes)
      BY <2>17
    <2>19. r \in Reassemblies /\ x \in Work
      BY <1>2, <2>11
    <2> QED BY <2>13, <2>15, <2>16, <2>18, <2>19, TellKept
  <1> QED BY <1>4, <1>5, <1>6, <1>7

\* AssembleWithTimestamp.
LEMMA ByteAssemble ==
    ASSUME SynLen = 0, Reuse = FALSE, IInv, BookInv, ByteInv,
           NEW k \in Keys, NEW p \in Packets(k), NEW ts \in Times,
           AssembleWithTimestamp(k, p, ts)
    PROVE  ByteInv'
  <1>0. TypeOK /\ isn[k] \in Sequence
    BY ConstantsAssumption DEF BookInv, TypeOK
  <1>1. PICK w, x :
            /\ BookWork(w) /\ w.ret = <<>>
            /\ IF conns[k].open
               THEN /\ w.c.list = conns[k].list /\ w.c.nextSeq = conns[k].nextSeq
                    /\ w.s.log = streams[k].log /\ w.s.pos = streams[k].pos
                    /\ w.s.got = streams[k].got \cup {o \in offsets(p.bytes) : o >= w.s.pos}
               ELSE /\ w.c.list = <<>> /\ w.c.nextSeq = invalidSequence
                    /\ w.s.log = <<>> /\ w.s.pos = -1 /\ w.s.got = offsets(p.bytes)
            /\ x = assemblePacket(w, p, ts) /\ Store(k, x)
            /\ IF x.ret = <<>> THEN UNCHANGED <<pc, op, cur>>
               ELSE pc' = "send" /\ cur' = k /\ op' = [NoOp EXCEPT !.kind = "assemble"]
            /\ pc = "idle"
    BY AssembleStarts
  <1>2. p \in Segment(isn[k]) \/ IsSyn(isn[k], p)
    BY <1>0, PacketShape
  <1>3. Held(<<>>) = {}
    BY DEF Held
  <1>4. Good(isn[k], w)
    <2>1. w \in Work /\ w.c.open
      BY <1>1 DEF BookWork
    <2>2. /\ InStep(isn[k], conns[k], streams[k]) /\ AllNumbered(isn[k], conns[k].list)
          /\ wellPlaced(streams[k].log)
      BY DEF IInv, InOrder
    <2>3. InStep(isn[k], w.c, w.s)
      BY <1>1, <2>2 DEF InStep
    <2>4. AllNumbered(isn[k], w.c.list)
      BY <1>1, <2>2 DEF AllNumbered
    <2>5. wellPlaced(w.ret) /\ wellPlaced(w.s.log)
      BY <1>1, <2>2 DEF wellPlaced
    <2> QED BY <2>1, <2>3, <2>4, <2>5 DEF Good
  <1>5. Arrived(w.c, w.s, w.ret, p.bytes)
    <2>1. CASE conns[k].open
      <3>1. Kept(conns[k], streams[k], <<>>)
        BY <1>1, <2>1 DEF ByteInv, Batch
      <3>2. PICK pos \in Int, got \in SUBSET Nat : pos = streams[k].pos /\ got = streams[k].got
        BY <1>0 DEF TypeOK, Stream
      <3>3. w.s.got = got \cup Rest(p.bytes, pos) /\ w.s.pos = pos
        BY <1>1, <2>1, <3>2 DEF Rest
      <3>4. /\ w.c.nextSeq = invalidSequence => pos = -1
            /\ Orderly(w.c.list, pos)
        BY <1>1, <2>1, <3>1, <3>2 DEF Kept
      <3>5. PICK told : told = Held(w.s.log) \cup Held(w.ret)
        OBVIOUS
      <3>6. told = Held(streams[k].log) \cup Held(<<>>) /\ Held(w.c.list) = Held(conns[k].list)
        BY <1>1, <2>1, <3>5
      <3>7. got \subseteq told \cup Held(w.c.list) /\ \A o \in got : o < pos => o \in told
        BY <3>1, <3>2, <3>6 DEF Kept
      <3>8. \A o \in Rest(p.bytes, pos) : ~(o < pos)
        <4> TAKE o \in Rest(p.bytes, pos)
        <4>1. o \in offsets(p.bytes) /\ o >= pos
          BY DEF Rest
        <4>2. o \in Int
          BY <4>1 DEF offsets
        <4> QED BY <4>1, <4>2
      <3> QED BY <3>3, <3>4, <3>5, <3>7, <3>8 DEF Arrived
    <2>2. CASE ~conns[k].open
      <3>1. /\ w.c.list = <<>> /\ w.s.pos = -1 /\ w.s.got = offsets(p.bytes)
        BY <1>1, <2>2
      <3>2. p.bytes.from \in Nat
        BY <1>2 DEF Segment, IsSyn, NoBytes, Bytes
      <3>3. \A o \in offsets(p.bytes) : o >= -1 /\ ~(o < -1)
        BY <3>2 DEF offsets
      <3>4. Orderly(<<>>, -1)
        BY DEF Orderly
      <3>5. offsets(p.bytes) \subseteq Rest(p.bytes, -1)
        BY <3>3 DEF Rest
      <3> QED BY <3>1, <3>3, <3>4, <3>5 DEF Arrived
    <2> QED BY <2>1, <2>2
  <1>6. Kept(x.c, x.s, x.ret)
    BY <1>0, <1>1, <1>2, <1>4, <1>5, AssembleKept
  <1>7. /\ conns' = [conns EXCEPT ![k] = x.c] /\ streams' = [streams EXCEPT ![k] = x.s]
        /\ ret' = x.ret
    BY <1>1 DEF Store
  <1>8. /\ conns'[k] = x.c /\ streams'[k] = x.s
        /\ \A l \in Keys \ {k} : conns'[l] = conns[l] /\ streams'[l] = streams[l]
    BY <1>0, <1>7 DEF TypeOK
  <1>9. (IF pc' = "send" /\ cur' = k THEN ret' ELSE <<>>) = x.ret
    BY <1>1, <1>7
  <1>10. \A l \in Keys \ {k} : (IF pc' = "send" /\ cur' = l THEN ret' ELSE <<>>) = <<>>
    BY <1>1, <1>7
  <1>11. \A l \in Keys \ {k} : conns[l].open => Kept(conns[l], streams[l], <<>>)
    BY <1>1 DEF ByteInv, Batch
  <1>12. \A l \in Keys : conns'[l].open =>
            Kept(conns'[l], streams'[l], IF pc' = "send" /\ cur' = l THEN ret' ELSE <<>>)
    <2> TAKE l \in Keys
    <2>1. CASE l = k
      BY <1>6, <1>8, <1>9, <2>1
    <2>2. CASE l # k
      BY <1>8, <1>10, <1>11, <2>2
    <2> QED BY <2>1, <2>2
  <1> QED BY <1>12 DEF ByteInv, Batch

\* addContiguous and skipFlush.
LEMMA BytePop ==
    ASSUME IInv, ByteInv, AddContiguous \/ SkipFlush
    PROVE  ByteInv'
  <1>0. TypeOK /\ InOrder
    BY DEF IInv
  <1>1. PICK r : r = Batch(cur)
    OBVIOUS
  <1>2. r = IF pc = "send" THEN ret ELSE <<>>
    BY <1>1 DEF Batch
  <1>3. PICK w : w = Working(cur, conns[cur], streams[cur], r)
    OBVIOUS
  <1>4. PICK x : x = addNextFromConn(w)
    OBVIOUS
  <1>5. /\ cur \in Keys /\ conns[cur].open /\ conns[cur].list # <<>>
        /\ Store(cur, x) /\ pc' = "send" /\ cur' = cur
    BY <1>0, <1>2, <1>3, <1>4 DEF AddContiguous, SkipFlush, Contiguous, mustSkip, TypeOK
  <1>6. r \in Seq(Told) /\ wellPlaced(r)
    BY <1>0, <1>2, EmptySeq DEF TypeOK, InOrder, wellPlaced
  <1>7. isn[cur] \in Sequence /\ Good(isn[cur], w)
    BY <1>3, <1>5, <1>6, WorkingGood
  <1>8. w.c = conns[cur] /\ w.s = streams[cur] /\ w.ret = r
    BY <1>3 DEF Working
  <1>9. Kept(w.c, w.s, w.ret) /\ w.c.list # <<>>
    BY <1>1, <1>5, <1>8 DEF ByteInv
  <1>10. Kept(x.c, x.s, x.ret)
    BY <1>4, <1>7, <1>9, PopKept
  <1>11. /\ conns' = [conns EXCEPT ![cur] = x.c] /\ streams' = [streams EXCEPT ![cur] = x.s]
         /\ ret' = x.ret
    BY <1>5 DEF Store
  <1>12. /\ conns'[cur] = x.c /\ streams'[cur] = x.s
         /\ \A l \in Keys \ {cur} : conns'[l] = conns[l] /\ streams'[l] = streams[l]
    BY <1>0, <1>5, <1>11 DEF TypeOK
  <1>13. \A l \in Keys : conns'[l].open =>
            Kept(conns'[l], streams'[l], IF pc' = "send" /\ cur' = l THEN ret' ELSE <<>>)
    <2> TAKE l \in Keys
    <2>1. CASE l = cur
      BY <1>5, <1>10, <1>11, <1>12, <2>1
    <2>2. CASE l # cur
      <3>1. conns[l].open => Kept(conns[l], streams[l], <<>>)
        BY <2>2 DEF ByteInv, Batch
      <3> QED BY <1>5, <1>12, <2>2, <3>1
    <2> QED BY <2>1, <2>2
  <1> QED BY <1>13 DEF ByteInv, Batch

\* sendToConnection: the batch becomes part of the log, or the stream ends.
LEMMA ByteSend ==
    ASSUME IInv, ByteInv, SendToConnection
    PROVE  ByteInv'
  <1>0. TypeOK
    BY DEF IInv
  <1>1. PICK log : log = streams[cur].log \o ret
    OBVIOUS
  <1>2. /\ cur \in Keys /\ pc = "send" /\ pc' # "send" /\ streams[cur] \in Stream
        /\ conns[cur].open /\ Held(<<>>) = {}
    BY <1>0 DEF TypeOK, SendToConnection, Held
  <1>3. \/ closeConnection(cur, log)
        \/ streams' = [streams EXCEPT ![cur].log = log] /\ UNCHANGED conns
    BY <1>1 DEF SendToConnection
  <1>4. \A l \in Keys \ {cur} : conns'[l] = conns[l] /\ streams'[l] = streams[l]
    BY <1>0, <1>3 DEF TypeOK, closeConnection
  <1>5. \A l \in Keys : conns'[l].open => Kept(conns'[l], streams'[l], <<>>)
    <2> TAKE l \in Keys
    <2>1. CASE l # cur
      <3>1. conns[l].open => Kept(conns[l], streams[l], <<>>)
        BY <2>1 DEF ByteInv, Batch
      <3> QED BY <1>4, <2>1, <3>1
    <2>2. CASE l = cur /\ closeConnection(cur, log)
      <3>1. conns'[l] = NoConn
        BY <1>0, <2>2 DEF closeConnection, TypeOK
      <3> QED BY <3>1 DEF NoConn
    <2>3. CASE l = cur /\ streams' = [streams EXCEPT ![cur].log = log] /\ UNCHANGED conns
      <3>1. PICK s : s = [streams[cur] EXCEPT !.log = log]
        OBVIOUS
      <3>2. s.log = log /\ s.pos = streams[cur].pos /\ s.got = streams[cur].got
        BY <1>2, <3>1 DEF Stream
      <3>3. streams'[l] = s /\ conns'[l] = conns[cur]
        BY <1>0, <1>2, <2>3, <3>1 DEF TypeOK
      <3>4. Held(log) = Held(streams[cur].log) \cup Held(ret)
        <4>1. PICK a \in Seq(Told), b \in Seq(Told) : a = streams[cur].log /\ b = ret
          BY <1>0, <1>2 DEF TypeOK, Stream
        <4>2. Held(log) = Held(a) \cup Held(b)
          BY <1>1, <4>1, HeldConcat
        <4> QED BY <4>1, <4>2
      <3>5. Kept(conns[cur], streams[cur], ret)
        BY <1>2 DEF ByteInv, Batch
      <3>6. Held(s.log) \cup Held(<<>>) = Held(streams[cur].log) \cup Held(ret)
        BY <1>2, <3>2, <3>4
      <3>7. Kept(conns[cur], s, <<>>)
        BY <3>2, <3>5, <3>6 DEF Kept
      <3> QED BY <3>3, <3>7
    <2> QED BY <1>3, <2>1, <2>2, <2>3
  <1> QED BY <1>2, <1>5 DEF ByteInv, Batch

\* The other steps close a connection or leave connections and streams alone.
LEMMA ByteControl ==
    ASSUME IInv, ByteInv,
           \/ FlushClose
           \/ \E k \in Keys : \E p \in Packets(k) : AssembleNothing(k, p)
           \/ FlushWithOptions \/ FlushAll
           \/ \E k \in Keys : FlushNext(k)
           \/ FlushLeave \/ FlushReturn
           \/ UNCHANGED vars
    PROVE  ByteInv'
  <1>0. TypeOK
    BY DEF IInv
  <1>1. CASE FlushClose
    <2>1. /\ cur \in Keys /\ closeConnection(cur, streams[cur].log) /\ pc = "flush" /\ pc' = pc
      BY <1>0, <1>1 DEF FlushClose, TypeOK
    <2>2. /\ conns'[cur] = NoConn
          /\ \A l \in Keys \ {cur} : conns'[l] = conns[l] /\ streams'[l] = streams[l]
      BY <1>0, <2>1 DEF closeConnection, TypeOK
    <2>3. \A l \in Keys : conns[l].open => Kept(conns[l], streams[l], <<>>)
      BY <2>1 DEF ByteInv, Batch
    <2>4. \A l \in Keys : conns'[l].open => Kept(conns'[l], streams'[l], <<>>)
      BY <2>2, <2>3 DEF NoConn
    <2> QED BY <2>1, <2>4 DEF ByteInv, Batch
  <1>2. CASE \/ \E k \in Keys : \E p \in Packets(k) : AssembleNothing(k, p)
             \/ FlushWithOptions \/ FlushAll
             \/ \E k \in Keys : FlushNext(k)
             \/ FlushLeave \/ FlushReturn
    <2>1. pc # "send" /\ pc' # "send" /\ UNCHANGED <<conns, streams>>
      BY <1>2 DEF AssembleNothing, FlushWithOptions, FlushAll, FlushStart, FlushNext,
                  FlushLeave, FlushReturn
    <2>2. \A l \in Keys : conns[l].open => Kept(conns[l], streams[l], <<>>)
      BY <2>1 DEF ByteInv, Batch
    <2> QED BY <2>1, <2>2 DEF ByteInv, Batch
  <1>3. CASE UNCHANGED vars
    <2>1. UNCHANGED <<conns, streams, pc, cur, ret>>
      BY <1>3 DEF vars
    <2>2. \A l \in Keys : conns[l].open =>
              Kept(conns[l], streams[l], IF pc = "send" /\ cur = l THEN ret ELSE <<>>)
      BY DEF ByteInv, Batch
    <2>3. \A l \in Keys : conns'[l].open =>
              Kept(conns'[l], streams'[l], IF pc' = "send" /\ cur' = l THEN ret' ELSE <<>>)
      BY <2>1, <2>2
    <2> QED BY <2>3 DEF ByteInv, Batch
  <1> QED BY <1>1, <1>2, <1>3

\* Where SYN packets carry no data and a flow is not reused, every byte that
\* arrives before the stream's reader is past it is passed to the stream or
\* still buffered, however packets overlap and whatever the limits and the
\* flushes skip.
THEOREM EveryByteKept ==
    ASSUME SynLen = 0, Reuse = FALSE
    PROVE  Spec => []NoByteLost
  <1>1. Init => ByteInv
    <2> SUFFICES ASSUME Init, NEW k \in Keys, conns[k].open PROVE FALSE
      BY DEF ByteInv
    <2>1. conns[k] = NoConn
      BY DEF Init
    <2> QED BY <2>1 DEF NoConn
  <1>2. IInv /\ BookInv /\ ByteInv /\ [Next]_vars => ByteInv'
    <2> SUFFICES ASSUME IInv, BookInv, ByteInv, [Next]_vars PROVE ByteInv'
      OBVIOUS
    <2>1. CASE \E k \in Keys : \E p \in Packets(k) : \E ts \in Times :
                  AssembleWithTimestamp(k, p, ts)
      BY <2>1, ByteAssemble
    <2>2. CASE AddContiguous \/ SkipFlush
      BY <2>2, BytePop
    <2>3. CASE SendToConnection
      BY <2>3, ByteSend
    <2>4. CASE \/ FlushClose
               \/ \E k \in Keys : \E p \in Packets(k) : AssembleNothing(k, p)
               \/ FlushWithOptions \/ FlushAll
               \/ \E k \in Keys : FlushNext(k)
               \/ FlushLeave \/ FlushReturn
               \/ UNCHANGED vars
      BY <2>4, ByteControl
    <2> QED BY <2>1, <2>2, <2>3, <2>4 DEF Next, Step
  <1>3. ByteInv => NoByteLost
    <2> SUFFICES ASSUME ByteInv, pc = "idle", NEW k \in Keys, conns[k].open
                 PROVE  streams[k].got \subseteq Delivered(k) \cup Buffered(k)
      BY DEF NoByteLost
    <2>1. Kept(conns[k], streams[k], <<>>) /\ Held(<<>>) = {}
      BY DEF ByteInv, Batch, Held
    <2>2. Delivered(k) = Held(streams[k].log) /\ Buffered(k) = Held(conns[k].list)
      BY DEF Delivered, Buffered, Held
    <2> QED BY <2>1, <2>2 DEF Kept
  <1> QED BY Inductive, BooksInductive, <1>1, <1>2, <1>3, PTL DEF Spec
=============================================================================
