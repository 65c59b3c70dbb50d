-------------------------- MODULE ReassemblyProofs --------------------------
(***************************************************************************)
(* Proofs about the reassembly package.                                    *)
(*                                                                         *)
(* Reassembly: whatever the packets, the limits and the parts that the     *)
(* Stream keeps, used covers the pages of both halves, a flush leaves      *)
(* nothing old, and the Stream is completed once.  Nothing is assumed of   *)
(* what the pages hold, nor of the sequence numbers but that they are      *)
(* integers: the account of pages does not depend on them.                 *)
(*                                                                         *)
(* TcpCheck: TCPSimpleFSM refuses no packet with data or a FIN of a        *)
(* connection that was not reset, however many packets are under way and   *)
(* however the two directions interleave.                                  *)
(***************************************************************************)
EXTENDS Reassembly, TcpCheck, FiniteSetTheorems, SequenceTheorems, WellFoundedInduction, TLAPS

-----------------------------------------------------------------------------
(* The Assembler of Reassembly: sequences, pages and halves.               *)

\* A sequence, of whatever elements.
IsSeq(s) == s \in Seq({s[i] : i \in DOMAIN s})

PageFields == {"seq", "bytes", "end", "seen", "live"}
HalfFields == {"nextSeq", "queue", "saved", "pages", "closed", "lastSeen",
               "recv", "upTo", "asked"}

\* A byteContainer, and what a list of them has to be.  Which bytes a page has
\* does not matter here, however it was cut.
IsPage(p) ==
    /\ DOMAIN p = PageFields /\ p.seq \in Int /\ IsSeq(p.bytes)
    /\ p.seen \in Times /\ p.live \in BOOLEAN

IsBatch(s) == IsSeq(s) /\ \A i \in 1..Len(s) : IsPage(s[i])
IsQueue(s) == IsBatch(s) /\ \A i \in 1..Len(s) : ~s[i].live

IsHalf(h) ==
    /\ DOMAIN h = HalfFields /\ h.nextSeq \in Int
    /\ IsQueue(h.queue) /\ IsQueue(h.saved)
    /\ h.closed \in BOOLEAN /\ h.lastSeen \in Nat

LEMMA Constants ==
    /\ uint32Max \in Nat \ {0} /\ MaxLen \in Nat \ {0} /\ pageBytes \in Nat \ {0}
    /\ Times \subseteq Nat /\ \E last \in Times : \A t \in Times : t <= last
    /\ \A d \in Dirs : Length[d] \in Nat /\ ISN[d] \in Int
    /\ Keeps \subseteq Int
  BY ReassemblyAssumption

LEMMA SeqFacts ==
    ASSUME NEW s, IsSeq(s)
    PROVE  Len(s) \in Nat /\ DOMAIN s = 1..Len(s) /\ s = [i \in 1..Len(s) |-> s[i]]
  BY DEF IsSeq

LEMMA MakeSeq ==
    ASSUME NEW s, NEW n \in Nat, DOMAIN s = 1..n, s = [i \in 1..n |-> s[i]]
    PROVE  IsSeq(s) /\ Len(s) = n
  BY DEF IsSeq

LEMMA AnySeq ==
    ASSUME NEW S, NEW s \in Seq(S)
    PROVE  IsSeq(s)
  <1>1. Len(s) \in Nat /\ DOMAIN s = 1..Len(s) /\ s = [i \in 1..Len(s) |-> s[i]]
    OBVIOUS
  <1> QED BY <1>1, MakeSeq

LEMMA Cat ==
    ASSUME NEW s, NEW t, IsSeq(s), IsSeq(t)
    PROVE  /\ IsSeq(s \o t) /\ Len(s \o t) = Len(s) + Len(t)
           /\ \A i \in 1..Len(s) : (s \o t)[i] = s[i]
           /\ \A i \in (Len(s) + 1)..(Len(s) + Len(t)) : (s \o t)[i] = t[i - Len(s)]
  <1> DEFINE S == {s[i] : i \in DOMAIN s} \cup {t[i] : i \in DOMAIN t}
  <1>1. s \in Seq(S) /\ t \in Seq(S)
    BY DEF IsSeq
  <1> HIDE DEF S
  <1>2. s \o t \in Seq(S)
    BY <1>1
  <1>3. IsSeq(s \o t)
    BY <1>2, AnySeq, Zenon
  <1> QED BY <1>1, <1>3

LEMMA CatIs ==
    ASSUME NEW s, NEW t, IsSeq(s), IsSeq(t), NEW x, x = s \o t
    PROVE  /\ IsSeq(x) /\ Len(x) = Len(s) + Len(t)
           /\ \A i \in 1..Len(s) : x[i] = s[i]
           /\ \A i \in (Len(s) + 1)..(Len(s) + Len(t)) : x[i] = t[i - Len(s)]
  BY Cat, Zenon

LEMMA Sub ==
    ASSUME NEW s, IsSeq(s), NEW m \in 1..(Len(s) + 1), NEW n \in (m - 1)..Len(s)
    PROVE  /\ IsSeq(SubSeq(s, m, n)) /\ Len(SubSeq(s, m, n)) = 1 + n - m
           /\ \A i \in 1..(1 + n - m) : SubSeq(s, m, n)[i] = s[i + m - 1]
  <1>1. Len(s) \in Nat
    BY SeqFacts
  <1>2. SubSeq(s, m, n) = [i \in 1..(1 + n - m) |-> s[i + m - 1]]
    BY <1>1
  <1> DEFINE r == [i \in 1..(1 + n - m) |-> s[i + m - 1]]
  <1>3. 1 + n - m \in Nat /\ DOMAIN r = 1..(1 + n - m) /\ r = [i \in 1..(1 + n - m) |-> r[i]]
    BY <1>1
  <1>4. \A i \in 1..(1 + n - m) : r[i] = s[i + m - 1]
    OBVIOUS
  <1>5. IsSeq(r) /\ Len(r) = 1 + n - m
    <2> HIDE DEF r
    <2> QED BY <1>3, MakeSeq
  <1> QED BY <1>2, <1>4, <1>5

\* However the limits of a slice lie, it is a sequence.
LEMMA AnySub ==
    ASSUME NEW s, NEW m \in Int, NEW n \in Int
    PROVE  IsSeq(SubSeq(s, m, n))
  <1> DEFINE r == [i \in 1..(1 + n - m) |-> s[i + m - 1]]
  <1>1. SubSeq(s, m, n) = r
    OBVIOUS
  <1>2. DOMAIN r = 1..(1 + n - m) /\ r = [i \in 1..(1 + n - m) |-> r[i]]
    OBVIOUS
  <1> HIDE DEF r
  <1>3. CASE 1 + n - m \in Nat
    BY <1>1, <1>2, <1>3, MakeSeq
  <1>4. CASE 1 + n - m < 0
    <2>1. 1..(1 + n - m) = 1..0
      BY <1>4
    <2> QED BY <1>1, <1>2, <2>1, MakeSeq
  <1> QED BY <1>3, <1>4

LEMMA CatQueue ==
    ASSUME NEW s, NEW t
    PROVE  /\ IsBatch(s) /\ IsBatch(t) => IsBatch(s \o t)
           /\ IsQueue(s) /\ IsQueue(t) => IsQueue(s \o t)
           /\ IsBatch(s) /\ IsBatch(t) => Len(s \o t) = Len(s) + Len(t)
  <1> SUFFICES ASSUME IsBatch(s), IsBatch(t)
               PROVE  /\ IsBatch(s \o t) /\ Len(s \o t) = Len(s) + Len(t)
                      /\ IsQueue(s) /\ IsQueue(t) => IsQueue(s \o t)
    BY DEF IsQueue
  <1>1. IsSeq(s) /\ IsSeq(t) /\ Len(s) \in Nat /\ Len(t) \in Nat
    BY SeqFacts DEF IsBatch
  <1>2. /\ IsSeq(s \o t) /\ Len(s \o t) = Len(s) + Len(t)
        /\ \A i \in 1..Len(s) : (s \o t)[i] = s[i]
        /\ \A i \in (Len(s) + 1)..(Len(s) + Len(t)) : (s \o t)[i] = t[i - Len(s)]
    BY <1>1, Cat
  <1>3. ASSUME NEW i \in 1..Len(s \o t)
        PROVE  \/ i \in 1..Len(s) /\ (s \o t)[i] = s[i]
               \/ i - Len(s) \in 1..Len(t) /\ (s \o t)[i] = t[i - Len(s)]
    BY <1>1, <1>2
  <1>4. IsBatch(s \o t)
    BY <1>2, <1>3 DEF IsBatch
  <1>5. IsQueue(s) /\ IsQueue(t) => IsQueue(s \o t)
    BY <1>3, <1>4 DEF IsQueue
  <1> QED BY <1>2, <1>4, <1>5

LEMMA SubQueue ==
    ASSUME NEW s, IsBatch(s), NEW m \in 1..(Len(s) + 1), NEW n \in (m - 1)..Len(s)
    PROVE  /\ IsBatch(SubSeq(s, m, n)) /\ Len(SubSeq(s, m, n)) = 1 + n - m
           /\ IsQueue(s) => IsQueue(SubSeq(s, m, n))
           /\ \A i \in 1..(1 + n - m) : SubSeq(s, m, n)[i] = s[i + m - 1]
  <1>1. IsSeq(s) /\ Len(s) \in Nat
    BY SeqFacts DEF IsBatch
  <1>2. /\ IsSeq(SubSeq(s, m, n)) /\ Len(SubSeq(s, m, n)) = 1 + n - m
        /\ \A i \in 1..(1 + n - m) : SubSeq(s, m, n)[i] = s[i + m - 1]
    BY <1>1, Sub
  <1>3. \A i \in 1..(1 + n - m) : i + m - 1 \in 1..Len(s)
    BY <1>1
  <1>4. IsBatch(SubSeq(s, m, n))
    BY <1>2, <1>3 DEF IsBatch
  <1>5. IsQueue(s) => IsQueue(SubSeq(s, m, n))
    BY <1>2, <1>3, <1>4 DEF IsQueue
  <1> QED BY <1>2, <1>4, <1>5

LEMMA HeadTail ==
    ASSUME NEW q, IsQueue(q), q # <<>>
    PROVE  /\ IsPage(Head(q)) /\ ~Head(q).live /\ IsQueue(Tail(q)) /\ Len(Tail(q)) = Len(q) - 1
  <1>1. IsSeq(q) /\ Len(q) \in Nat
    BY SeqFacts DEF IsBatch, IsQueue
  <1>2. q \in Seq({q[i] : i \in DOMAIN q})
    BY <1>1 DEF IsSeq
  <1>3. Len(q) > 0 /\ Head(q) = q[1] /\ Tail(q) = SubSeq(q, 2, Len(q))
    BY <1>2
  <1>4. 2 \in 1..(Len(q) + 1) /\ Len(q) \in (2 - 1)..Len(q) /\ 1 \in 1..Len(q)
    BY <1>1, <1>3
  <1>5. IsQueue(SubSeq(q, 2, Len(q))) /\ Len(SubSeq(q, 2, Len(q))) = 1 + Len(q) - 2
    BY <1>4, SubQueue DEF IsQueue
  <1>6. IsPage(q[1]) /\ ~q[1].live
    BY <1>4 DEF IsQueue, IsBatch
  <1>7. Len(Tail(q)) = Len(q) - 1
    BY <1>1, <1>3, <1>5
  <1> QED BY <1>3, <1>5, <1>6, <1>7

LEMMA EmptyQueue == IsQueue(<<>>) /\ Len(<<>>) = 0
  <1>1. <<>> \in Seq({})
    OBVIOUS
  <1>2. IsSeq(<<>>)
    BY <1>1, AnySeq, Zenon
  <1>3. Len(<<>>) = 0
    OBVIOUS
  <1> QED BY <1>2, <1>3 DEF IsQueue, IsBatch

LEMMA Single ==
    ASSUME NEW c, IsPage(c)
    PROVE  IsBatch(<<c>>) /\ Len(<<c>>) = 1 /\ <<c>>[1] = c /\ (~c.live => IsQueue(<<c>>))
  <1>1. <<c>> \in Seq({c}) /\ Len(<<c>>) = 1 /\ <<c>>[1] = c
    OBVIOUS
  <1>2. IsSeq(<<c>>)
    BY <1>1, AnySeq, Zenon
  <1> QED BY <1>1, <1>2 DEF IsQueue, IsBatch

-----------------------------------------------------------------------------
(* What the helpers of the Assembler make of pages.                        *)

LEMMA NumberFacts ==
    ASSUME NEW s \in Int, NEW t \in Int
    PROVE  Difference(s, t) \in Int /\ Add(s, t) \in Int
  <1>1. uint32Max \in Nat /\ uint32Max + 1 \in Nat \ {0}
    BY Constants
  <1>2. Difference(s, t) \in Int
    BY <1>1 DEF Difference
  <1>3. (s + t) % (uint32Max + 1) \in Int
    BY <1>1
  <1> QED BY <1>2, <1>3 DEF Add

\* A nonempty finite set of numbers has a greatest one, and Max is it.
LEMMA MaxIs ==
    ASSUME NEW S \in SUBSET Int, NEW m \in S, \A j \in S : j <= m
    PROVE  Max(S) = m
  <1>0. \A j \in S : m >= j
    OBVIOUS
  <1>1. Max(S) \in S /\ \A j \in S : Max(S) >= j
    BY <1>0, Zenon DEF Max
  <1>2. Max(S) \in Int /\ m \in Int /\ Max(S) >= m /\ Max(S) <= m
    BY <1>1
  <1> QED BY <1>2

LEMMA MaxUpTo ==
    ASSUME NEW N \in Nat, NEW S \in SUBSET (0..N), S # {}
    PROVE  Max(S) \in S /\ \A j \in S : j <= Max(S)
  <1> DEFINE T == {N - j : j \in S}
             R == OpToRel(<, Nat)
  <1>1. T \in SUBSET Nat /\ T # {}
    <2>1. \A j \in S : j \in 0..N
      OBVIOUS
    <2>2. \A j \in S : N - j \in Nat
      BY <2>1
    <2>3. T \subseteq Nat
      BY <2>2, Zenon
    <2> QED BY <2>3, Zenon
  <1>2. IsWellFoundedOn(R, Nat)
    BY NatLessThanWellFounded
  <1>3. PICK i \in T : \A j \in T : ~(<<j, i>> \in R)
    <2> HIDE DEF R, T
    <2> QED BY <1>1, <1>2, WFMin
  <1>4. \A j \in T : ~(j < i)
    BY <1>1, <1>3 DEF OpToRel
  <1>5. PICK k \in S : i = N - k
    BY <1>3
  <1>6. ASSUME NEW j \in S PROVE j <= k
    <2>1. N - j \in T
      OBVIOUS
    <2>2. ~(N - j < N - k)
      BY <1>4, <1>5, <2>1
    <2> QED BY <2>2
  <1>7. S \in SUBSET Int
    OBVIOUS
  <1> QED BY <1>5, <1>6, <1>7, MaxIs

\* A nonempty set of numbers has a least one, and Min is it.
LEMMA MinIs ==
    ASSUME NEW S \in SUBSET Nat, S # {}
    PROVE  Min(S) \in S /\ \A j \in S : Min(S) <= j
  <1> DEFINE R == OpToRel(<, Nat)
  <1>1. IsWellFoundedOn(R, Nat)
    BY NatLessThanWellFounded
  <1>2. PICK i \in S : \A j \in S : ~(<<j, i>> \in R)
    <2> HIDE DEF R
    <2> QED BY <1>1, WFMin
  <1>3. \A j \in S : ~(j < i)
    BY <1>2 DEF OpToRel
  <1>4. \A j \in S : i <= j
    BY <1>3
  <1> QED BY <1>4 DEF Min

LEMMA EndInt ==
    ASSUME NEW p, IsPage(p)
    PROVE  End(p) \in Int /\ Len(p.bytes) \in Nat
  <1>1. p.seq \in Int /\ Len(p.bytes) \in Nat
    BY SeqFacts DEF IsPage
  <1>2. Len(p.bytes) \in Int
    BY <1>1
  <1>3. Add(p.seq, Len(p.bytes)) \in Int
    BY <1>1, <1>2, NumberFacts, Zenon
  <1> QED BY <1>1, <1>3 DEF End

LEMMA CutPage ==
    ASSUME NEW p, IsPage(p), NEW x \in Int
    PROVE  /\ IsPage(CutEnd(p, x)) /\ CutEnd(p, x).live = p.live /\ CutEnd(p, x).seen = p.seen
           /\ IsPage(CutStart(p, x)) /\ CutStart(p, x).live = p.live
           /\ CutStart(p, x).seen = p.seen
  <1>1. /\ DOMAIN p = PageFields /\ p.seq \in Int /\ Len(p.bytes) \in Nat
        /\ p.seen \in Times /\ p.live \in BOOLEAN
    BY EndInt DEF IsPage
  <1>2. PICK n \in Int : n = -Difference(x, p.seq)
    <2>1. PICK y \in Int : y = Difference(x, p.seq)
      BY <1>1, NumberFacts, Zenon
    <2>2. -y \in Int /\ -y = -Difference(x, p.seq)
      BY <2>1
    <2> QED BY <2>2
  <1>3. PICK m \in Int : m = -Difference(x, p.seq)
    BY <1>2
  <1>4. PICK b : b = SubSeq(p.bytes, 1, m)
    OBVIOUS
  <1>5. PICK c : c = SubSeq(p.bytes, n + 1, Len(p.bytes))
    OBVIOUS
  <1>6. IsSeq(b) /\ IsSeq(c)
    BY <1>1, <1>4, <1>5, AnySub
  <1>7. PICK a \in Int : a = Add(p.seq, n)
    BY <1>1, NumberFacts, Zenon
  <1>8. CutEnd(p, x) = [p EXCEPT !.bytes = b]
    BY <1>3, <1>4 DEF CutEnd
  <1>9. CutStart(p, x) = [p EXCEPT !.bytes = c, !.seq = a]
    BY <1>2, <1>5, <1>7 DEF CutStart
  <1> HIDE DEF CutEnd, CutStart
  <1>10. PICK y : y = [p EXCEPT !.bytes = b]
    OBVIOUS
  <1>11. /\ DOMAIN y = PageFields /\ y.bytes = b /\ y.seq = p.seq /\ y.seen = p.seen
         /\ y.live = p.live
    BY <1>1, <1>10 DEF PageFields
  <1>12. PICK z : z = [p EXCEPT !.bytes = c, !.seq = a]
    OBVIOUS
  <1>13. /\ DOMAIN z = PageFields /\ z.bytes = c /\ z.seq = a /\ z.seen = p.seen
         /\ z.live = p.live
    BY <1>1, <1>12 DEF PageFields
  <1> QED BY <1>1, <1>6, <1>8, <1>9, <1>10, <1>11, <1>12, <1>13 DEF IsPage

\* The parts of checkOverlap.
Stop(queue, s, e) ==
    Max({0} \cup {i \in DOMAIN queue : Before(queue[i], s, e) \/ LosesEnd(queue[i], s, e)})
Left(queue, s, e, i) ==
    IF i = Stop(queue, s, e) /\ LosesEnd(queue[i], s, e) THEN CutEnd(queue[i], s)
    ELSE IF i > Stop(queue, s, e) /\ LosesStart(queue[i], s, e) THEN CutStart(queue[i], e)
    ELSE queue[i]
LeftStep(queue, s, e, l, n) ==
    LET i == Len(queue) + 1 - n IN
    IF Covered(queue[i], s, e) THEN l ELSE <<Left(queue, s, e, i)>> \o l
LeftLoop(queue, s, e, h) ==
    [n \in 0..(Len(queue) - Stop(queue, s, e)) |->
        IF n = 0 THEN <<>> ELSE LeftStep(queue, s, e, h[n - 1], n)]
LeftChain(queue, s, e) == CHOOSE h : h = LeftLoop(queue, s, e, h)

LEMMA OverlapIs ==
    ASSUME NEW queue, NEW s, NEW e
    PROVE  LET over == checkOverlap(queue, s, e)
               stop == Stop(queue, s, e) IN
           /\ over.before = [i \in 1..stop |-> Left(queue, s, e, i)]
           /\ over.behind = LeftChain(queue, s, e)[Len(queue) - stop]
           /\ over.dropped = Len(queue) - stop - Len(over.behind)
  <1>1. \A a, b, c, d : /\ [before |-> a, behind |-> b, dropped |-> c, inside |-> d].before = a
                        /\ [before |-> a, behind |-> b, dropped |-> c, inside |-> d].behind = b
                        /\ [before |-> a, behind |-> b, dropped |-> c, inside |-> d].dropped = c
    OBVIOUS
  <1>2. checkOverlap(queue, s, e) =
            [before |-> [i \in 1..Stop(queue, s, e) |-> Left(queue, s, e, i)],
             behind |-> LeftChain(queue, s, e)[Len(queue) - Stop(queue, s, e)],
             dropped |-> Len(queue) - Stop(queue, s, e)
                           - Len(LeftChain(queue, s, e)[Len(queue) - Stop(queue, s, e)]),
             inside |-> \E i \in (Stop(queue, s, e) + 1)..Len(queue) : Surrounds(queue[i], s, e)]
    BY Zenon DEF checkOverlap, LeftChain, LeftLoop, LeftStep, Left, Stop
  <1> QED BY <1>1, <1>2

LEMMA StopIs ==
    ASSUME NEW q, IsSeq(q), NEW s, NEW e
    PROVE  Stop(q, s, e) \in 0..Len(q)
  <1> DEFINE S == {0} \cup {i \in DOMAIN q : Before(q[i], s, e) \/ LosesEnd(q[i], s, e)}
  <1>1. Len(q) \in Nat /\ DOMAIN q = 1..Len(q)
    BY SeqFacts
  <1>2. S \in SUBSET (0..Len(q)) /\ S # {}
    BY <1>1
  <1>3. Max(S) \in S
    <2> HIDE DEF S
    <2> QED BY <1>1, <1>2, MaxUpTo
  <1> QED BY <1>2, <1>3 DEF Stop

\* Recursion over numbers is well defined.
LEMMA LeftExists ==
    ASSUME NEW q, IsSeq(q), NEW s, NEW e
    PROVE  LeftChain(q, s, e) = LeftLoop(q, s, e, LeftChain(q, s, e))
  <1> DEFINE Good(m, g) ==
          g = [n \in 0..m |-> IF n = 0 THEN <<>> ELSE LeftStep(q, s, e, g[n - 1], n)]
  <1> DEFINE Bad == {m \in Nat : \A g : ~Good(m, g)}
  <1>1. 0 \notin Bad
    <2>1. PICK g : g = [n \in 0..0 |-> <<>>]
      OBVIOUS
    <2>2. Good(0, g)
      BY <2>1
    <2> QED BY <2>2
  <1>2. ASSUME NEW m \in Nat, m \notin Bad
        PROVE  m + 1 \notin Bad
    <2>1. PICK g : Good(m, g)
      BY <1>2
    <2>2. PICK w : w = LeftStep(q, s, e, g[m], m + 1)
      OBVIOUS
    <2>3. PICK f : f = [n \in 0..(m + 1) |-> IF n = m + 1 THEN w ELSE g[n]]
      OBVIOUS
    <2>4. ASSUME NEW n \in 0..(m + 1)
          PROVE  f[n] = IF n = 0 THEN <<>> ELSE LeftStep(q, s, e, f[n - 1], n)
      <3>1. CASE n = m + 1
        <4>1. f[n - 1] = g[m] /\ f[n] = w /\ n # 0
          BY <2>3, <3>1
        <4> QED BY <2>2, <3>1, <4>1, Zenon
      <3>2. CASE n \in 0..m
        <4>1. f[n] = g[n] /\ (n # 0 => f[n - 1] = g[n - 1])
          BY <2>3, <3>2
        <4>2. g[n] = IF n = 0 THEN <<>> ELSE LeftStep(q, s, e, g[n - 1], n)
          BY <2>1, <3>2, Zenon
        <4> QED BY <4>1, <4>2, Zenon
      <3> QED BY <3>1, <3>2
    <2>5. f = [n \in 0..(m + 1) |-> f[n]]
      BY <2>3
    <2>6. Good(m + 1, f)
      BY <2>4, <2>5, Zenon
    <2>7. m + 1 \in Nat
      OBVIOUS
    <2> QED BY <2>6, <2>7, Zenon
  <1>3. Bad = {}
    <2> SUFFICES ASSUME Bad # {} PROVE FALSE
      OBVIOUS
    <2>1. PICK b \in Bad : \A j \in Bad : b <= j
      <3>1. Bad \in SUBSET Nat
        OBVIOUS
      <3> QED BY <3>1, MinIs
    <2>2. b \in Nat /\ b # 0
      BY <1>1, <2>1
    <2>3. b - 1 \in Nat /\ (b - 1) + 1 = b /\ ~(b <= b - 1)
      BY <2>2
    <2>4. b - 1 \notin Bad
      BY <2>1, <2>3, Zenon
    <2> HIDE DEF Bad
    <2> QED BY <1>2, <2>1, <2>3, <2>4
  <1>4. PICK N \in Nat : N = Len(q) - Stop(q, s, e)
    <2>1. Len(q) \in Nat /\ Stop(q, s, e) \in 0..Len(q)
      BY SeqFacts, StopIs
    <2> QED BY <2>1
  <1>5. \E g : Good(N, g)
    BY <1>3, <1>4
  <1>6. \E g : g = LeftLoop(q, s, e, g)
    BY <1>4, <1>5, Zenon DEF LeftLoop
  <1> QED BY <1>6, Zenon DEF LeftChain

\* What checkOverlap leaves of a page is a page.
LEMMA LeftIsPage ==
    ASSUME NEW q, IsQueue(q), NEW s \in Int, NEW e \in Int, NEW i \in 1..Len(q)
    PROVE  IsPage(Left(q, s, e, i)) /\ ~Left(q, s, e, i).live
  <1>1. PICK p : p = q[i]
    OBVIOUS
  <1>2. IsPage(p) /\ ~p.live
    BY <1>1 DEF IsQueue, IsBatch
  <1>3. /\ IsPage(CutEnd(p, s)) /\ CutEnd(p, s).live = p.live
        /\ IsPage(CutStart(p, e)) /\ CutStart(p, e).live = p.live
    BY <1>2, CutPage, Zenon
  <1>4. Left(q, s, e, i) \in {p, CutEnd(p, s), CutStart(p, e)}
    BY <1>1, Zenon DEF Left
  <1> QED BY <1>2, <1>3, <1>4

\* checkOverlap returns lists of pages, and counts what it drops.
LEMMA Overlap ==
    ASSUME NEW q, IsQueue(q), NEW s \in Int, NEW e \in Int
    PROVE  LET over == checkOverlap(q, s, e) IN
           /\ IsQueue(over.before) /\ IsQueue(over.behind)
           /\ over.dropped = Len(q) - Len(over.before) - Len(over.behind)
           /\ over.dropped \in Int
  <1>1. PICK stop : stop = Stop(q, s, e)
    OBVIOUS
  <1>2. IsSeq(q) /\ Len(q) \in Nat /\ stop \in 0..Len(q)
    BY <1>1, SeqFacts, StopIs DEF IsQueue, IsBatch
  <1>3. PICK N \in Nat : N = Len(q) - stop
    BY <1>2
  <1>4. PICK h : h = LeftChain(q, s, e)
    OBVIOUS
  <1>5. h = LeftLoop(q, s, e, h)
    BY <1>2, <1>4, LeftExists, Zenon
  <1>6. \A n \in 0..N : h[n] = IF n = 0 THEN <<>> ELSE LeftStep(q, s, e, h[n - 1], n)
    BY <1>1, <1>3, <1>5, Zenon DEF LeftLoop
  <1> DEFINE Bad == {n \in 0..N : ~IsQueue(h[n])}
  <1>7. ASSUME NEW n \in 0..N, n # 0, IsQueue(h[n - 1])
        PROVE  IsQueue(h[n])
    <2>1. PICK i : i = Len(q) + 1 - n
      OBVIOUS
    <2>2. i \in 1..Len(q)
      BY <1>2, <1>3, <1>7, <2>1
    <2>3. PICK p : p = Left(q, s, e, i)
      OBVIOUS
    <2>4. IsPage(p) /\ ~p.live
      BY <2>2, <2>3, LeftIsPage
    <2>5. IsQueue(<<p>> \o h[n - 1])
      <3>1. IsQueue(<<p>>)
        BY <2>4, Single, Zenon
      <3> QED BY <1>7, <3>1, CatQueue, Zenon
    <2>6. h[n] = LeftStep(q, s, e, h[n - 1], n)
      BY <1>6, <1>7, Zenon
    <2>7. h[n] \in {h[n - 1], <<p>> \o h[n - 1]}
      BY <2>1, <2>3, <2>6, Zenon DEF LeftStep
    <2> QED BY <1>7, <2>5, <2>7, Zenon
  <1>8. IsQueue(h[0])
    <2>1. h[0] = <<>>
      BY <1>6
    <2> QED BY <2>1, EmptyQueue, Zenon
  <1>9. Bad = {}
    <2> SUFFICES ASSUME Bad # {} PROVE FALSE
      OBVIOUS
    <2>1. PICK b \in Bad : \A j \in Bad : b <= j
      <3>1. Bad \in SUBSET Nat
        OBVIOUS
      <3> QED BY <3>1, MinIs
    <2>2. b \in 0..N /\ ~IsQueue(h[b])
      BY <2>1
    <2>3. b # 0
      BY <1>8, <2>2
    <2>4. b - 1 \in 0..N /\ ~(b <= b - 1)
      BY <2>2, <2>3
    <2>5. b - 1 \notin Bad
      BY <2>1, <2>4
    <2>6. IsQueue(h[b - 1])
      BY <2>4, <2>5
    <2> QED BY <1>7, <2>2, <2>3, <2>6
  <1>10. PICK x : x = [i \in 1..stop |-> Left(q, s, e, i)]
    OBVIOUS
  <1>11. IsQueue(x) /\ Len(x) = stop
    <2>1. stop \in Nat /\ DOMAIN x = 1..stop /\ x = [i \in 1..stop |-> x[i]]
      BY <1>2, <1>10
    <2>2. IsSeq(x) /\ Len(x) = stop
      BY <2>1, MakeSeq
    <2>3. ASSUME NEW i \in 1..stop PROVE IsPage(x[i]) /\ ~x[i].live
      <3>1. i \in 1..Len(q) /\ x[i] = Left(q, s, e, i)
        BY <1>2, <1>10
      <3> QED BY <3>1, LeftIsPage
    <2> QED BY <2>2, <2>3 DEF IsQueue, IsBatch
  <1>12. PICK y : y = h[N]
    OBVIOUS
  <1>13. IsQueue(y)
    BY <1>9, <1>12
  <1>14. PICK over : over = checkOverlap(q, s, e)
    OBVIOUS
  <1>15. over.before = x /\ over.behind = y /\ over.dropped = N - Len(y)
    BY <1>1, <1>3, <1>4, <1>10, <1>12, <1>14, OverlapIs
  <1>16. Len(y) \in Nat
    BY <1>13, SeqFacts DEF IsQueue, IsBatch
  <1> QED BY <1>2, <1>3, <1>11, <1>13, <1>14, <1>15, <1>16

\* The smaller of two numbers.
LEMMA MinOfTwo ==
    ASSUME NEW a \in Nat, NEW b \in Nat
    PROVE  Min({a, b}) \in Nat
  <1>1. {a, b} \in SUBSET Nat /\ {a, b} # {}
    OBVIOUS
  <1>2. Min({a, b}) \in {a, b}
    BY <1>1, MinIs, Zenon
  <1> QED BY <1>2

\* convertToPages makes pages, which are not live.
LEMMA Converted ==
    ASSUME NEW c, IsPage(c), NEW stale
    PROVE  IsQueue(convertToPages(c, stale))
  <1>1. /\ c.seq \in Int /\ Len(c.bytes) \in Nat /\ c.seen \in Times
    BY EndInt DEF IsPage
  <1>2. pageBytes \in Nat \ {0}
    BY Constants
  <1>3. PICK n \in Nat :
            n = IF c.bytes = <<>> THEN 1 ELSE (Len(c.bytes) + pageBytes - 1) \div pageBytes
    <2>0. Len(c.bytes) + pageBytes - 1 \in Nat
      BY <1>1, <1>2
    <2>1. PICK a \in Nat : a = Len(c.bytes) + pageBytes - 1
      BY <2>0
    <2>2. PICK b \in Nat \ {0} : b = pageBytes
      BY <1>2
    <2>3. a \div b \in Nat
      OBVIOUS
    <2> QED BY <2>1, <2>2, <2>3
  <1> DEFINE bytes(i) == SubSeq(c.bytes, (i - 1) * pageBytes + 1, Min({i * pageBytes, Len(c.bytes)}))
             page(i) == Container(Add(c.seq, (i - 1) * pageBytes), bytes(i),
                                  IF i = n THEN c.end ELSE stale, c.seen, FALSE)
  <1>4. PICK q : q = [i \in 1..n |-> page(i)]
    OBVIOUS
  <1>5. convertToPages(c, stale) = q
    BY <1>3, <1>4, Zenon DEF convertToPages
  <1>6. ASSUME NEW i \in 1..n PROVE IsPage(q[i]) /\ ~q[i].live
    <2>1. PICK b : b = bytes(i)
      OBVIOUS
    <2>2. IsSeq(b)
      <3>1. PICK from \in Int : from = (i - 1) * pageBytes + 1
        <4>1. (i - 1) * pageBytes \in Int
          BY <1>2
        <4> QED BY <4>1
      <3>2. PICK to \in Int : to = Min({i * pageBytes, Len(c.bytes)})
        <4>1. PICK k \in Nat : k = i * pageBytes
          <5>1. i \in Nat /\ pageBytes \in Nat
            BY <1>2
          <5> QED BY <5>1
        <4> QED BY <1>1, <4>1, MinOfTwo
      <3> QED BY <2>1, <3>1, <3>2, AnySub
    <2>3. PICK a \in Int : a = Add(c.seq, (i - 1) * pageBytes)
      <3>1. PICK k \in Int : k = (i - 1) * pageBytes
        BY <1>2
      <3> QED BY <1>1, <3>1, NumberFacts, Zenon
    <2>4. PICK z : z = IF i = n THEN c.end ELSE stale
      OBVIOUS
    <2>5. q[i] = [seq |-> a, bytes |-> b, end |-> z, seen |-> c.seen, live |-> FALSE]
      BY <1>4, <2>1, <2>3, <2>4, Zenon DEF Container
    <2> HIDE DEF bytes, page
    <2> QED BY <1>1, <2>2, <2>5 DEF IsPage, PageFields
  <1>7. DOMAIN q = 1..n /\ q = [i \in 1..n |-> q[i]]
    BY <1>4
  <1>8. IsSeq(q) /\ Len(q) = n
    BY <1>7, MakeSeq
  <1> QED BY <1>5, <1>6, <1>8 DEF IsQueue, IsBatch

\* FlattenSeq, of sequences over S.
FlatLoop(seqs, h) == [i \in 1..Len(seqs) |-> IF i = 1 THEN seqs[i] ELSE h[i - 1] \o seqs[i]]
FlatChain(seqs) == CHOOSE h : h = FlatLoop(seqs, h)

LEMMA FlatExists ==
    ASSUME NEW q, Len(q) \in Nat
    PROVE  FlatChain(q) = FlatLoop(q, FlatChain(q))
  <1> DEFINE Good(m, g) == g = [i \in 1..m |-> IF i = 1 THEN q[i] ELSE g[i - 1] \o q[i]]
  <1> DEFINE Bad == {m \in Nat : \A g : ~Good(m, g)}
  <1>1. 0 \notin Bad
    <2>1. PICK g : g = [i \in 1..0 |-> q[i]]
      OBVIOUS
    <2>2. Good(0, g)
      BY <2>1
    <2> QED BY <2>2
  <1>2. ASSUME NEW m \in Nat, m \notin Bad
        PROVE  m + 1 \notin Bad
    <2>1. PICK g : Good(m, g)
      BY <1>2
    <2>2. PICK w : w = IF m + 1 = 1 THEN q[m + 1] ELSE g[m] \o q[m + 1]
      OBVIOUS
    <2>3. PICK f : f = [n \in 1..(m + 1) |-> IF n = m + 1 THEN w ELSE g[n]]
      OBVIOUS
    <2>4. ASSUME NEW n \in 1..(m + 1)
          PROVE  f[n] = IF n = 1 THEN q[n] ELSE f[n - 1] \o q[n]
      <3>1. CASE n = m + 1
        <4>1. f[n] = w /\ (n # 1 => f[n - 1] = g[m])
          BY <2>3, <3>1
        <4> QED BY <2>2, <3>1, <4>1, Zenon
      <3>2. CASE n \in 1..m
        <4>1. f[n] = g[n] /\ (n # 1 => f[n - 1] = g[n - 1])
          BY <2>3, <3>2
        <4>2. g[n] = IF n = 1 THEN q[n] ELSE g[n - 1] \o q[n]
          BY <2>1, <3>2, Zenon
        <4> QED BY <4>1, <4>2, Zenon
      <3> QED BY <3>1, <3>2
    <2>5. f = [n \in 1..(m + 1) |-> f[n]]
      BY <2>3
    <2>6. Good(m + 1, f)
      BY <2>4, <2>5, Zenon
    <2>7. m + 1 \in Nat
      OBVIOUS
    <2> QED BY <2>6, <2>7, Zenon
  <1>3. Bad = {}
    <2> SUFFICES ASSUME Bad # {} PROVE FALSE
      OBVIOUS
    <2>1. PICK b \in Bad : \A j \in Bad : b <= j
      <3>1. Bad \in SUBSET Nat
        OBVIOUS
      <3> QED BY <3>1, MinIs
    <2>2. b \in Nat /\ b # 0
      BY <1>1, <2>1
    <2>3. b - 1 \in Nat /\ (b - 1) + 1 = b /\ ~(b <= b - 1)
      BY <2>2
    <2>4. b - 1 \notin Bad
      BY <2>1, <2>3, Zenon
    <2> HIDE DEF Bad
    <2> QED BY <1>2, <2>1, <2>3, <2>4
  <1>4. PICK N \in Nat : N = Len(q)
    OBVIOUS
  <1>5. \E g : Good(N, g)
    <2> HIDE DEF Good
    <2> QED BY <1>3
  <1>6. \E g : g = FlatLoop(q, g)
    BY <1>4, <1>5, Zenon DEF FlatLoop
  <1> QED BY <1>6, Zenon DEF FlatChain

LEMMA Flat ==
    ASSUME NEW S, NEW q, IsSeq(q), \A i \in 1..Len(q) : q[i] \in Seq(S)
    PROVE  FlattenSeq(q) \in Seq(S)
  <1>1. PICK N \in Nat : N = Len(q)
    BY SeqFacts
  <1>2. CASE N = 0
    <2>1. FlattenSeq(q) = q
      BY <1>1, <1>2, Zenon DEF FlattenSeq
    <2>2. q = <<>>
      <3>1. DOMAIN q = 1..0 /\ q \in Seq({q[i] : i \in DOMAIN q})
        BY <1>1, <1>2, SeqFacts DEF IsSeq
      <3> QED BY <1>1, <1>2, <3>1
    <2> QED BY <2>1, <2>2
  <1>3. CASE N # 0
    <2>1. PICK h : h = FlatChain(q)
      OBVIOUS
    <2>2. h = FlatLoop(q, h)
      BY <1>1, <2>1, FlatExists, Zenon
    <2>3. \A i \in 1..N : h[i] = IF i = 1 THEN q[i] ELSE h[i - 1] \o q[i]
      BY <1>1, <2>2, Zenon DEF FlatLoop
    <2> DEFINE Bad == {i \in 1..N : h[i] \notin Seq(S)}
    <2>4. Bad = {}
      <3> SUFFICES ASSUME Bad # {} PROVE FALSE
        OBVIOUS
      <3>1. PICK b \in Bad : \A j \in Bad : b <= j
        <4>1. Bad \in SUBSET Nat
          OBVIOUS
        <4> QED BY <4>1, MinIs
      <3>2. b \in 1..N /\ h[b] \notin Seq(S) /\ q[b] \in Seq(S)
        BY <1>1, <3>1
      <3>3. b # 1
        BY <2>3, <3>2
      <3>4. b - 1 \in 1..N /\ ~(b <= b - 1)
        BY <3>2, <3>3
      <3>5. h[b - 1] \in Seq(S)
        BY <3>1, <3>4
      <3>6. h[b] = h[b - 1] \o q[b]
        BY <2>3, <3>2, <3>3
      <3> QED BY <3>2, <3>5, <3>6
    <2>5. h[N] \in Seq(S)
      BY <1>3, <2>4
    <2>6. FlattenSeq(q) = FlatChain(q)[Len(q)]
      BY <1>1, <1>3, Zenon DEF FlattenSeq, FlatChain, FlatLoop
    <2> QED BY <1>1, <2>1, <2>5, <2>6
  <1> QED BY <1>2, <1>3

\* The bytes of a list of pages.
LEMMA BytesSeq ==
    ASSUME NEW s, IsBatch(s)
    PROVE  IsSeq(Bytes(s)) /\ Len(Bytes(s)) \in Nat /\ Len(Bytes(s)) \in Int
  <1>1. PICK n \in Nat : n = Len(s) /\ DOMAIN s = 1..n
    BY SeqFacts DEF IsBatch
  <1>2. PICK q : q = [i \in DOMAIN s |-> s[i].bytes]
    OBVIOUS
  <1>3. DOMAIN q = 1..n /\ q = [i \in 1..n |-> q[i]] /\ \A i \in 1..n : q[i] = s[i].bytes
    BY <1>1, <1>2
  <1>4. IsSeq(q) /\ Len(q) = n
    BY <1>3, MakeSeq
  <1>5. PICK S : S = UNION {{q[i][k] : k \in DOMAIN q[i]} : i \in 1..n}
    OBVIOUS
  <1>6. ASSUME NEW i \in 1..n PROVE q[i] \in Seq(S)
    <2>1. PICK b : b = q[i]
      OBVIOUS
    <2>2. IsSeq(b)
      BY <1>1, <1>3, <2>1 DEF IsBatch, IsPage
    <2>3. Len(b) \in Nat /\ DOMAIN b = 1..Len(b) /\ b = [k \in 1..Len(b) |-> b[k]]
      BY <2>2, SeqFacts
    <2>4. \A k \in 1..Len(b) : b[k] \in S
      BY <1>5, <2>1, <2>3
    <2> HIDE <1>5
    <2>5. b \in Seq(S)
      BY <2>3, <2>4
    <2> QED BY <2>1, <2>5
  <1>7. FlattenSeq(q) \in Seq(S)
    BY <1>4, <1>6, Flat
  <1>8. IsSeq(FlattenSeq(q))
    BY <1>7, AnySeq, Zenon
  <1>9. Len(FlattenSeq(q)) \in Nat
    BY <1>7
  <1> QED BY <1>2, <1>8, <1>9 DEF Bytes

\* Lists of pages, joined.
LEMMA FlatQueue ==
    ASSUME NEW q, IsSeq(q), \A i \in 1..Len(q) : IsQueue(q[i])
    PROVE  IsQueue(FlattenSeq(q))
  <1>1. PICK n \in Nat : n = Len(q)
    BY SeqFacts
  <1>2. PICK S : S = UNION {{q[i][k] : k \in DOMAIN q[i]} : i \in 1..n}
    OBVIOUS
  <1>3. ASSUME NEW i \in 1..n PROVE q[i] \in Seq(S)
    <2>1. PICK b : b = q[i]
      OBVIOUS
    <2>2. IsSeq(b)
      BY <1>1, <2>1 DEF IsQueue, IsBatch
    <2>3. Len(b) \in Nat /\ DOMAIN b = 1..Len(b) /\ b = [k \in 1..Len(b) |-> b[k]]
      BY <2>2, SeqFacts
    <2>4. \A k \in 1..Len(b) : b[k] \in S
      BY <1>2, <2>1, <2>3
    <2> HIDE <1>2
    <2>5. b \in Seq(S)
      BY <2>3, <2>4
    <2> QED BY <2>1, <2>5
  <1>4. ASSUME NEW x \in S PROVE IsPage(x) /\ ~x.live
    <2>1. PICK i \in 1..n : x \in {q[i][k] : k \in DOMAIN q[i]}
      BY <1>2
    <2>2. PICK b : b = q[i]
      OBVIOUS
    <2>3. IsQueue(b) /\ DOMAIN b = 1..Len(b)
      BY <1>1, <2>2, SeqFacts DEF IsQueue, IsBatch
    <2>4. PICK k \in 1..Len(b) : x = b[k]
      BY <2>1, <2>2, <2>3
    <2> QED BY <2>3, <2>4 DEF IsQueue, IsBatch
  <1>5. PICK r : r = FlattenSeq(q)
    OBVIOUS
  <1>6. r \in Seq(S)
    BY <1>1, <1>3, <1>5, Flat
  <1>7. IsSeq(r)
    BY <1>6, AnySeq, Zenon
  <1>8. \A i \in 1..Len(r) : r[i] \in S
    BY <1>6
  <1> QED BY <1>4, <1>5, <1>7, <1>8 DEF IsQueue, IsBatch

-----------------------------------------------------------------------------
(* The ScatterGather, and how many of its containers are pages.            *)

OneLive(s) == \A i, j \in 1..Len(s) : s[i].live /\ s[j].live => i = j
Lives(s) == IF \E i \in 1..Len(s) : s[i].live THEN 1 ELSE 0

LEMMA PagesIs ==
    ASSUME NEW s, IsBatch(s), OneLive(s)
    PROVE  Pages(s) = Len(s) - Lives(s) /\ Pages(s) \in Int
  <1>1. PICK n \in Nat : n = Len(s) /\ DOMAIN s = 1..n
    BY SeqFacts DEF IsBatch
  <1>2. IsFiniteSet(1..n) /\ Cardinality(1..n) = n
    BY FS_Interval
  <1>3. PICK D : D = {i \in DOMAIN s : ~s[i].live}
    OBVIOUS
  <1>4. /\ \A i \in 1..n : s[i].live \in BOOLEAN
        /\ Pages(s) = Cardinality(D)
    BY <1>1, <1>3 DEF IsBatch, IsPage, Pages
  <1>5. CASE \E i \in 1..n : s[i].live
    <2>1. PICK k \in 1..n : s[k].live
      BY <1>5
    <2>2. \A i \in 1..n : s[i].live <=> i = k
      BY <1>1, <1>4, <2>1 DEF OneLive
    <2>3. D = (1..n) \ {k}
      BY <1>1, <1>3, <2>2
    <2>4. Cardinality(D) = n - 1
      BY <1>2, <2>3, FS_RemoveElement
    <2>5. Lives(s) = 1
      BY <1>1, <1>5 DEF Lives
    <2> QED BY <1>1, <1>4, <2>4, <2>5
  <1>6. CASE ~(\E i \in 1..n : s[i].live)
    <2>1. D = 1..n
      BY <1>1, <1>3, <1>6
    <2>2. Lives(s) = 0
      BY <1>1, <1>6 DEF Lives
    <2> QED BY <1>1, <1>2, <1>4, <2>1, <2>2
  <1> QED BY <1>5, <1>6

\* A batch is cut in two: each page is in one of the parts.
LEMMA PagesSplit ==
    ASSUME NEW s, IsBatch(s), OneLive(s), NEW f \in 1..(Len(s) + 1)
    PROVE  /\ Pages(SubSeq(s, 1, f - 1)) + Pages(SubSeq(s, f, Len(s))) = Pages(s)
           /\ Pages(SubSeq(s, 1, f - 1)) \in Int /\ Pages(SubSeq(s, f, Len(s))) \in Int
           /\ Pages(s) \in Int
  <1>1. PICK n \in Nat : n = Len(s)
    BY SeqFacts DEF IsBatch
  <1>2. PICK a : a = SubSeq(s, 1, f - 1)
    OBVIOUS
  <1>3. PICK b : b = SubSeq(s, f, n)
    OBVIOUS
  <1>4. /\ IsBatch(a) /\ Len(a) = f - 1
        /\ \A i \in 1..(f - 1) : a[i] = s[i]
    <2>1. 1 \in 1..(Len(s) + 1) /\ f - 1 \in (1 - 1)..Len(s) /\ 1 + (f - 1) - 1 = f - 1
      BY <1>1
    <2>2. /\ IsBatch(a) /\ Len(a) = 1 + (f - 1) - 1
          /\ \A i \in 1..(1 + (f - 1) - 1) : a[i] = s[i + 1 - 1]
      BY <1>2, <2>1, SubQueue, Zenon
    <2> QED BY <1>1, <2>1, <2>2
  <1>5. /\ IsBatch(b) /\ Len(b) = 1 + n - f
        /\ \A i \in 1..(1 + n - f) : b[i] = s[i + f - 1]
    <2>1. f \in 1..(Len(s) + 1) /\ n \in (f - 1)..Len(s)
      BY <1>1
    <2> QED BY <1>3, <2>1, SubQueue, Zenon
  <1>6. \A i \in 1..(1 + n - f) : i + f - 1 \in 1..n
    OBVIOUS
  <1>7. OneLive(a) /\ OneLive(b)
    <2>1. \A i, j \in 1..n : s[i].live /\ s[j].live => i = j
      BY <1>1 DEF OneLive
    <2>2. ASSUME NEW i \in 1..(f - 1), NEW j \in 1..(f - 1), a[i].live, a[j].live
          PROVE  i = j
      <3>1. i \in 1..n /\ j \in 1..n /\ s[i].live /\ s[j].live
        BY <1>1, <1>4, <2>2
      <3> QED BY <2>1, <3>1
    <2>3. ASSUME NEW i \in 1..(1 + n - f), NEW j \in 1..(1 + n - f), b[i].live, b[j].live
          PROVE  i = j
      <3>1. /\ i + f - 1 \in 1..n /\ j + f - 1 \in 1..n
            /\ s[i + f - 1].live /\ s[j + f - 1].live
        BY <1>5, <1>6, <2>3
      <3>2. i + f - 1 = j + f - 1
        BY <2>1, <3>1
      <3> QED BY <3>2
    <2> QED BY <1>4, <1>5, <2>2, <2>3 DEF OneLive
  <1>8. Lives(s) = Lives(a) + Lives(b)
    <2>1. CASE \E i \in 1..n : s[i].live
      <3>1. PICK k \in 1..n : s[k].live
        BY <2>1
      <3>2. \A i \in 1..n : s[i].live => i = k
        BY <1>1, <3>1 DEF OneLive
      <3>3. Lives(s) = 1
        BY <1>1, <2>1 DEF Lives
      <3>4. CASE k < f
        <4>1. k \in 1..Len(a) /\ a[k].live
          BY <1>4, <3>1, <3>4
        <4>2. \A i \in 1..Len(b) : ~b[i].live
          BY <1>5, <1>6, <3>2, <3>4
        <4> QED BY <3>3, <4>1, <4>2 DEF Lives
      <3>5. CASE k >= f
        <4>1. k - f + 1 \in 1..Len(b) /\ b[k - f + 1].live
          BY <1>5, <3>1, <3>5
        <4>2. \A i \in 1..Len(a) : ~a[i].live
          BY <1>1, <1>4, <3>2, <3>5
        <4> QED BY <3>3, <4>1, <4>2 DEF Lives
      <3> QED BY <3>4, <3>5
    <2>2. CASE ~(\E i \in 1..n : s[i].live)
      BY <1>1, <1>4, <1>5, <1>6, <2>2 DEF Lives
    <2> QED BY <2>1, <2>2
  <1>9. /\ Pages(s) = Len(s) - Lives(s) /\ Pages(a) = Len(a) - Lives(a)
        /\ Pages(b) = Len(b) - Lives(b)
    BY <1>4, <1>5, <1>7, PagesIs
  <1>10. Lives(s) \in Int /\ Lives(a) \in Int /\ Lives(b) \in Int
    BY DEF Lives
  <1> QED BY <1>1, <1>2, <1>3, <1>4, <1>5, <1>8, <1>9, <1>10, SMTT(60)

\* What buildSG puts together.
Joined(s, c, t) == s \o <<c>> \o t

LEMMA Built ==
    ASSUME NEW s, IsQueue(s), NEW c, IsPage(c), NEW t, IsQueue(t), NEW all,
           all = Joined(s, c, t)
    PROVE  /\ IsBatch(all) /\ OneLive(all) /\ Len(s) \in Nat /\ Len(t) \in Nat
           /\ Pages(all) = Len(s) + Len(t) + (IF c.live THEN 0 ELSE 1)
  <1>1. PICK m \in Nat, n \in Nat : m = Len(s) /\ n = Len(t)
    BY SeqFacts DEF IsQueue, IsBatch
  <1>2. IsSeq(s) /\ IsSeq(t) /\ IsBatch(s) /\ IsBatch(t)
    BY DEF IsQueue, IsBatch
  <1>3. IsBatch(<<c>>) /\ IsSeq(<<c>>) /\ Len(<<c>>) = 1 /\ <<c>>[1] = c
    BY Single DEF IsBatch
  <1>4. PICK u : u = s \o <<c>>
    OBVIOUS
  <1>5. /\ IsBatch(u) /\ IsSeq(u) /\ Len(u) = m + 1
        /\ \A i \in 1..m : u[i] = s[i]
        /\ u[m + 1] = c
    <2>1. IsBatch(u)
      BY <1>2, <1>3, <1>4, CatQueue, Zenon
    <2>2. /\ Len(u) = Len(s) + Len(<<c>>)
          /\ \A i \in 1..Len(s) : u[i] = s[i]
          /\ \A i \in (Len(s) + 1)..(Len(s) + Len(<<c>>)) : u[i] = <<c>>[i - Len(s)]
      BY <1>2, <1>3, <1>4, Cat, Zenon
    <2>3. /\ Len(u) = m + 1 /\ \A i \in 1..m : u[i] = s[i]
          /\ u[m + 1] = c
      BY <1>1, <1>3, <2>2
    <2> QED BY <2>1, <2>3 DEF IsBatch
  <1>6. /\ IsBatch(all) /\ Len(all) = m + 1 + n
        /\ \A i \in 1..(m + 1) : all[i] = u[i]
        /\ \A i \in (m + 2)..(m + 1 + n) : all[i] = t[i - (m + 1)]
    <2>1. IsBatch(all)
      <3>1. all = u \o t
        BY <1>4, Zenon DEF Joined
      <3> QED BY <1>2, <1>5, <3>1, CatQueue, Zenon
    <2>2. /\ Len(all) = Len(u) + Len(t)
          /\ \A i \in 1..Len(u) : all[i] = u[i]
          /\ \A i \in (Len(u) + 1)..(Len(u) + Len(t)) : all[i] = t[i - Len(u)]
      <3>1. IsSeq(u) /\ IsSeq(t) /\ all = u \o t
        BY <1>2, <1>4, <1>5, Zenon DEF Joined
      <3>2. PICK x : x = u \o t
        OBVIOUS
      <3>3. /\ Len(x) = Len(u) + Len(t)
            /\ \A i \in 1..Len(u) : x[i] = u[i]
            /\ \A i \in (Len(u) + 1)..(Len(u) + Len(t)) : x[i] = t[i - Len(u)]
        BY <3>1, <3>2, Cat
      <3>4. x = all
        BY <3>1, <3>2
      <3> HIDE <3>2
      <3> QED BY <3>3, <3>4
    <2> QED BY <1>1, <1>5, <2>1, <2>2
  <1>7. ASSUME NEW i \in 1..(m + 1 + n), i # m + 1
        PROVE  ~all[i].live
    <2>1. CASE i \in 1..m
      <3>1. all[i] = s[i]
        BY <1>5, <1>6, <2>1
      <3> QED BY <1>1, <2>1, <3>1 DEF IsQueue
    <2>2. CASE i \in (m + 2)..(m + 1 + n)
      <3>1. all[i] = t[i - (m + 1)] /\ i - (m + 1) \in 1..n
        BY <1>6, <2>2
      <3> QED BY <1>1, <3>1 DEF IsQueue
    <2>3. i \in 1..m \/ i \in (m + 2)..(m + 1 + n)
      BY <1>7
    <2> QED BY <2>1, <2>2, <2>3
  <1>8. all[m + 1] = c
    BY <1>5, <1>6
  <1>9. OneLive(all)
    BY <1>6, <1>7 DEF OneLive
  <1>10. Lives(all) = IF c.live THEN 1 ELSE 0
    <2>1. m + 1 \in 1..(m + 1 + n)
      OBVIOUS
    <2>2. (\E i \in 1..Len(all) : all[i].live) <=> c.live
      BY <1>6, <1>7, <1>8, <2>1
    <2> QED BY <2>2 DEF Lives
  <1>11. Pages(all) = Len(all) - Lives(all)
    BY <1>6, <1>9, PagesIs
  <1>12. Pages(all) = m + n + (IF c.live THEN 0 ELSE 1)
    BY <1>6, <1>10, <1>11
  <1> QED BY <1>1, <1>6, <1>9, <1>12

-----------------------------------------------------------------------------
(* The invariant of the Assembler.                                         *)

Other(d) == IF d = "s2c" THEN "c2s" ELSE "s2c"

Held(h) == Len(h.queue) + Len(h.saved)

IsSG(x) ==
    /\ x # NoSG /\ x.dir \in Dirs /\ x.nextSeq \in Int
    /\ IsBatch(x.all) /\ OneLive(x.all)

HalvesOK == DOMAIN half = Dirs /\ \A d \in Dirs : IsHalf(half[d])

\* used covers the pages in the queues, those that are saved, and, while the
\* Stream looks at a ScatterGather, the pages in it; what is saved of that
\* direction is among them.
Counted ==
    /\ used \in Int
    /\ sg = NoSG => used >= Held(half["s2c"]) + Held(half["c2s"])
    /\ sg # NoSG =>
        /\ IsSG(sg) /\ ~half[sg.dir].closed
        /\ used >= Held(half[Other(sg.dir)]) + Len(half[sg.dir].queue) + Pages(sg.all)

\* What a flush owes to a half when it has left it.
Settled(d) ==
    \/ half[d].closed
    \/ half[d].queue = <<>> /\ LastSeen >= flush.tc
    \/ half[d].queue # <<>> /\ Head(half[d].queue).seen >= flush.t /\ flush.t # Forever

\* A flush has settled the halves that are behind it, and its ScatterGather is
\* of the half that it is at.
FlushOK ==
    flush # NoFlush =>
        /\ DOMAIN flush = {"todo", "t", "tc"}
        /\ flush.todo \in {<<"s2c", "c2s">>, <<"c2s">>, <<>>}
        /\ flush.t \in Nat /\ flush.tc \in Nat
        /\ flush.todo # <<"s2c", "c2s">> => Settled("s2c")
        /\ flush.todo = <<>> => Settled("c2s")
        /\ sg # NoSG => flush.todo # <<>> /\ sg.dir = Head(flush.todo)

\* The inductive invariant.
AssemblerInv == HalvesOK /\ Counted /\ FlushOK /\ CompletedOnce

LEMMA OtherFacts ==
    ASSUME NEW d \in Dirs
    PROVE  /\ Other(d) \in Dirs /\ Other(d) # d /\ Dirs = {d, Other(d)}
           /\ Dirs \ {d} = {Other(d)} /\ Other(Other(d)) = d
  BY DEF Other, Dirs

LEMMA HeldNat ==
    ASSUME NEW h, IsHalf(h)
    PROVE  Held(h) \in Nat /\ Len(h.queue) \in Nat /\ Len(h.saved) \in Nat
  <1>1. IsSeq(h.queue) /\ IsSeq(h.saved)
    BY DEF IsHalf, IsQueue, IsBatch
  <1>2. Len(h.queue) \in Nat /\ Len(h.saved) \in Nat
    BY <1>1, SeqFacts
  <1>3. PICK a \in Nat, b \in Nat : a = Len(h.queue) /\ b = Len(h.saved)
    BY <1>2, Zenon
  <1>4. a + b \in Nat
    OBVIOUS
  <1> QED BY <1>3, <1>4, Zenon DEF Held

LEMMA SumOfBoth ==
    ASSUME HalvesOK, NEW d \in Dirs
    PROVE  /\ Held(half["s2c"]) + Held(half["c2s"]) = Held(half[d]) + Held(half[Other(d)])
           /\ Held(half[d]) \in Nat /\ Held(half[Other(d)]) \in Nat
  <1>1. "s2c" \in Dirs /\ "c2s" \in Dirs
    BY DEF Dirs
  <1>2. IsHalf(half["s2c"]) /\ IsHalf(half["c2s"])
    BY <1>1 DEF HalvesOK
  <1>3. Held(half["s2c"]) \in Nat /\ Held(half["c2s"]) \in Nat
    BY <1>2, HeldNat
  <1>4. (d = "s2c" /\ Other(d) = "c2s") \/ (d = "c2s" /\ Other(d) = "s2c")
    BY DEF Dirs, Other
  <1> QED BY <1>3, <1>4

\* One half changes.
LEMMA HalfChanges ==
    ASSUME HalvesOK, NEW d \in Dirs, NEW g, IsHalf(g), half' = [half EXCEPT ![d] = g]
    PROVE  HalvesOK' /\ half'[d] = g /\ half'[Other(d)] = half[Other(d)]
  <1>1. DOMAIN half = Dirs /\ Other(d) \in Dirs /\ Other(d) # d /\ Dirs = {d, Other(d)}
    BY OtherFacts DEF HalvesOK
  <1>2. DOMAIN half' = Dirs /\ half'[d] = g /\ half'[Other(d)] = half[Other(d)]
    BY <1>1
  <1>3. IsHalf(half[Other(d)])
    BY <1>1 DEF HalvesOK
  <1>4. \A e \in Dirs : IsHalf(half'[e])
    BY <1>1, <1>2, <1>3
  <1> QED BY <1>2, <1>4 DEF HalvesOK

\* The later of two times.
LEMMA MaxOfTwo ==
    ASSUME NEW a \in Nat, NEW b \in Nat
    PROVE  Max({a, b}) \in Nat /\ Max({a, b}) >= a /\ Max({a, b}) >= b
  <1>1. {a, b} \in SUBSET Int
    OBVIOUS
  <1>2. CASE a <= b
    <2>1. Max({a, b}) = b
      BY <1>1, <1>2, MaxIs
    <2> QED BY <1>2, <2>1
  <1>3. CASE b <= a
    <2>1. Max({a, b}) = a
      BY <1>1, <1>3, MaxIs
    <2> QED BY <1>3, <2>1
  <1> QED BY <1>2, <1>3

LEMMA LastSeenNat ==
    ASSUME HalvesOK
    PROVE  LastSeen \in Nat
  <1>1. "s2c" \in Dirs /\ "c2s" \in Dirs /\ Dirs = {"s2c", "c2s"}
    BY DEF Dirs
  <1>2. PICK a \in Nat, b \in Nat : a = half["s2c"].lastSeen /\ b = half["c2s"].lastSeen
    BY <1>1 DEF HalvesOK, IsHalf
  <1>3. {half[d].lastSeen : d \in Dirs} = {a, b}
    BY <1>1, <1>2
  <1> QED BY <1>3, MaxOfTwo DEF LastSeen

LEMMA ForeverIs ==
    /\ Forever \in Nat
    /\ \A t \in Times \cup {Max(Times) + 1} : t \in Nat /\ t < Forever
  <1>1. PICK last \in Times : \A t \in Times : t <= last
    BY Constants
  <1>2. Times \in SUBSET Int /\ Times \subseteq Nat
    BY Constants
  <1>3. Max(Times) = last
    BY <1>1, <1>2, MaxIs
  <1> QED BY <1>1, <1>2, <1>3 DEF Forever

\* LastSeen depends on lastSeen only.
LEMMA LastSeenSame ==
    ASSUME \A d \in Dirs : half'[d].lastSeen = half[d].lastSeen
    PROVE  LastSeen' = LastSeen
  <1>1. {half'[d].lastSeen : d \in Dirs} = {half[d].lastSeen : d \in Dirs}
    OBVIOUS
  <1> QED BY <1>1 DEF LastSeen

\* addPending and addContiguous return lists of pages.
LEMMA Pending ==
    ASSUME NEW h, IsHalf(h), NEW s
    PROVE  IsQueue(addPending(h, s))
  <1>1. addPending(h, s) \in {h.saved, <<>>}
    BY Zenon DEF addPending
  <1> QED BY <1>1, EmptyQueue DEF IsHalf

LEMMA ContiguousIs ==
    ASSUME NEW q, IsQueue(q), NEW s
    PROVE  \E n \in 0..Len(q) : /\ addContiguous(q, s) = SubSeq(q, 1, n)
                                /\ IsQueue(SubSeq(q, 1, n)) /\ Len(SubSeq(q, 1, n)) = n
  <1> DEFINE S == {k \in 0..Len(q) : \A i \in 1..k : Follows(q, s, i)}
  <1>1. PICK m \in Nat : m = Len(q)
    BY SeqFacts DEF IsQueue, IsBatch
  <1>2. S \in SUBSET (0..m) /\ 0 \in S
    BY <1>1
  <1>3. PICK n \in 0..m : n = Max(S)
    <2> HIDE DEF S
    <2>1. Max(S) \in S
      BY <1>2, MaxUpTo
    <2> QED BY <1>2, <2>1
  <1>4. addContiguous(q, s) = SubSeq(q, 1, n)
    BY <1>3 DEF addContiguous
  <1>5. 1 \in 1..(Len(q) + 1) /\ n \in (1 - 1)..Len(q) /\ 1 + n - 1 = n
    BY <1>1
  <1>6. IsQueue(SubSeq(q, 1, n)) /\ Len(SubSeq(q, 1, n)) = 1 + n - 1
    BY <1>5, SubQueue, Zenon DEF IsQueue
  <1> QED BY <1>1, <1>4, <1>5, <1>6

\* buildSG keeps the account of pages.
LEMMA BuildStep ==
    ASSUME HalvesOK, NEW d \in Dirs, NEW h, IsHalf(h), NEW u \in Int, NEW c, IsPage(c),
           NEW fin, buildSG(d, h, u, c, fin)
    PROVE  /\ HalvesOK' /\ half'[Other(d)] = half[Other(d)]
           /\ half'[d].lastSeen = h.lastSeen /\ half'[d].closed = h.closed
           /\ IsSG(sg') /\ sg'.dir = d /\ used' \in Int
           /\ used' = u - Held(h) + Len(half'[d].queue) + Pages(sg'.all)
                        - (IF c.live THEN 0 ELSE 1)
  <1>1. PICK saved : saved = addPending(h, c.seq)
    OBVIOUS
  <1>2. IsQueue(saved)
    BY <1>1, Pending
  <1>3. PICK contiguous : contiguous = addContiguous(h.queue, End(c))
    OBVIOUS
  <1>4. PICK n \in 0..Len(h.queue) : IsQueue(contiguous) /\ Len(contiguous) = n
    BY <1>3, ContiguousIs DEF IsHalf
  <1>5. PICK q \in Nat, s \in Nat, a \in Nat : q = Len(h.queue) /\ s = Len(h.saved) /\ a = Len(saved)
    <2>1. Len(saved) \in Nat
      BY <1>2, SeqFacts DEF IsQueue, IsBatch
    <2> QED BY <2>1, HeldNat
  <1>6. PICK rest : rest = SubSeq(h.queue, Len(contiguous) + 1, Len(h.queue))
    OBVIOUS
  <1>7. IsQueue(rest) /\ Len(rest) = q - n
    <2>1. PICK l, m : l = h.queue /\ m = Len(contiguous) + 1
      OBVIOUS
    <2>2. m \in 1..(Len(l) + 1) /\ q \in (m - 1)..Len(l) /\ 1 + q - m = q - n
      BY <1>4, <1>5, <2>1
    <2>3. IsBatch(l) /\ IsQueue(l) /\ rest = SubSeq(l, m, q)
      BY <1>5, <1>6, <2>1 DEF IsHalf, IsQueue
    <2>4. IsQueue(rest) /\ Len(rest) = 1 + q - m
      BY <2>2, <2>3, SubQueue, Zenon
    <2> QED BY <2>2, <2>4
  <1>8. PICK g : g = [h EXCEPT !.queue = rest, !.saved = saved]
    OBVIOUS
  <1>9. /\ DOMAIN g = HalfFields /\ g.queue = rest /\ g.saved = saved /\ g.nextSeq = h.nextSeq
        /\ g.closed = h.closed /\ g.lastSeen = h.lastSeen
    BY <1>8 DEF IsHalf, HalfFields
  <1>10. IsHalf(g)
    BY <1>2, <1>7, <1>9 DEF IsHalf
  <1>11. half' = [half EXCEPT ![d] = g]
    BY <1>1, <1>3, <1>6, <1>8, Zenon DEF buildSG
  <1>12. HalvesOK' /\ half'[d] = g /\ half'[Other(d)] = half[Other(d)]
    BY <1>10, <1>11, HalfChanges
  <1>13. PICK all : all = Joined(saved, c, contiguous)
    OBVIOUS
  <1>14. /\ IsBatch(all) /\ OneLive(all)
         /\ Pages(all) = Len(saved) + Len(contiguous) + (IF c.live THEN 0 ELSE 1)
    BY <1>2, <1>4, <1>13, Built
  <1>15. PICK next \in Int : next = Add(End(c), Len(Bytes(contiguous)))
    <2>1. End(c) \in Int
      BY EndInt
    <2>2. Len(Bytes(contiguous)) \in Int
      BY <1>4, BytesSeq DEF IsQueue
    <2> QED BY <2>1, <2>2, NumberFacts, Zenon
  <1>16. PICK b, skip : sg' = [dir |-> d, fin |-> fin, saved |-> b, all |-> all,
                               skip |-> skip, nextSeq |-> next]
    BY <1>1, <1>3, <1>13, <1>15, Zenon DEF buildSG, Joined
  <1>17. IsSG(sg') /\ sg'.dir = d /\ sg'.all = all
    <2>1. sg'.dir = d /\ sg'.all = all /\ sg'.nextSeq = next /\ "dir" \in DOMAIN sg'
      BY <1>16
    <2>2. "dir" \notin DOMAIN NoSG
      BY DEF NoSG
    <2>3. sg' # NoSG
      BY <2>1, <2>2, Zenon
    <2> QED BY <1>14, <1>15, <2>1, <2>3 DEF IsSG
  <1>18. used' = u - (Len(h.saved) - Len(saved))
    BY <1>1, Zenon DEF buildSG
  <1>19. Pages(all) = a + n + (IF c.live THEN 0 ELSE 1)
    BY <1>4, <1>5, <1>14
  <1>20. used' = u - (s - a) /\ Held(h) = q + s /\ Len(half'[d].queue) = q - n
    BY <1>5, <1>7, <1>9, <1>12, <1>18 DEF Held
  <1>21. used' = u - Held(h) + Len(half'[d].queue) + Pages(sg'.all) - (IF c.live THEN 0 ELSE 1)
    BY <1>17, <1>19, <1>20
  <1>22. used' \in Int
    BY <1>20
  <1> QED BY <1>9, <1>12, <1>17, <1>21, <1>22

-----------------------------------------------------------------------------
(* Each step keeps the invariant.                                          *)

LEMMA SegmentFacts ==
    ASSUME NEW d \in Dirs, NEW p \in Packets[d]
    PROVE  p.seq \in Int /\ IsSeq(p.bytes)
  <1> DEFINE P(from, len, syn, fin, rst) ==
                [seq |-> Add(ISN[d], from), bytes |-> [i \in 1..len |-> from + i - 1],
                 syn |-> syn, fin |-> fin, rst |-> rst]
             last == Length[d] + 1
             short == Min({MaxLen, Length[d]})
  <1>1. /\ Length[d] \in Nat /\ ISN[d] \in Int /\ MaxLen \in Nat /\ last \in Nat
    BY Constants
  <1>2. short \in Nat
    BY <1>1, MinOfTwo
  <1>3. Packets[d] =
            {P(0, 0, TRUE, FALSE, FALSE)}
            \cup {P(x[1], x[2], FALSE, FALSE, FALSE) :
                    x \in {y \in (1..last) \X (0..MaxLen) : y[1] + y[2] <= last}}
            \cup {P(last - len, len, FALSE, TRUE, FALSE) : len \in 0..short}
            \cup {P(from, 0, FALSE, FALSE, Resets) : from \in 1..last}
    BY DEF Packets
  <1>4. PICK from \in Int, len \in Nat : \E syn, fin, rst : p = P(from, len, syn, fin, rst)
    <2>1. CASE p \in {P(0, 0, TRUE, FALSE, FALSE)}
      <3>1. p = P(0, 0, TRUE, FALSE, FALSE) /\ 0 \in Int /\ 0 \in Nat
        BY <2>1
      <3> HIDE DEF P
      <3> QED BY <3>1, Zenon
    <2>2. CASE p \in {P(x[1], x[2], FALSE, FALSE, FALSE) :
                    x \in {y \in (1..last) \X (0..MaxLen) : y[1] + y[2] <= last}}
      <3>1. PICK x \in (1..last) \X (0..MaxLen) : p = P(x[1], x[2], FALSE, FALSE, FALSE)
        BY <2>2
      <3>2. PICK a \in Int, b \in Nat : a = x[1] /\ b = x[2]
        BY <1>1
      <3>3. p = P(a, b, FALSE, FALSE, FALSE)
        BY <3>1, <3>2
      <3> QED BY <3>3
    <2>3. CASE p \in {P(last - len, len, FALSE, TRUE, FALSE) : len \in 0..short}
      <3>1. PICK len \in 0..short : p = P(last - len, len, FALSE, TRUE, FALSE)
        BY <2>3
      <3>2. last - len \in Int /\ len \in Nat
        BY <1>1, <1>2
      <3> QED BY <3>1, <3>2
    <2>4. CASE p \in {P(from, 0, FALSE, FALSE, Resets) : from \in 1..last}
      <3>1. PICK from \in 1..last : p = P(from, 0, FALSE, FALSE, Resets)
        BY <2>4
      <3>2. from \in Int /\ 0 \in Nat
        BY <1>1
      <3> HIDE DEF P
      <3> QED BY <3>1, <3>2, Zenon
    <2> HIDE DEF P, last, short
    <2> QED BY <1>3, <2>1, <2>2, <2>3, <2>4
  <1>5. PICK b : b = [i \in 1..len |-> from + i - 1]
    OBVIOUS
  <1>6. DOMAIN b = 1..len /\ b = [i \in 1..len |-> b[i]]
    BY <1>5
  <1>7. IsSeq(b)
    BY <1>6, MakeSeq
  <1>8. Add(ISN[d], from) \in Int
    BY <1>1, NumberFacts, Zenon
  <1>9. p.bytes = b /\ p.seq = Add(ISN[d], from)
    BY <1>4, <1>5
  <1> QED BY <1>7, <1>8, <1>9

LEMMA SeenHalf ==
    ASSUME NEW h, IsHalf(h), NEW t \in Times, NEW b, NEW g, g = Seen(h, t, b)
    PROVE  /\ IsHalf(g) /\ g.queue = h.queue /\ g.saved = h.saved /\ g.nextSeq = h.nextSeq
           /\ g.closed = h.closed /\ Held(g) = Held(h)
  <1>1. PICK s : s = Max({h.lastSeen, t})
    OBVIOUS
  <1>2. s \in Nat
    BY <1>1, MaxOfTwo, Constants DEF IsHalf
  <1>3. PICK r : r = h.recv \cup Range(b)
    OBVIOUS
  <1>4. g = [h EXCEPT !.lastSeen = s, !.recv = r]
    BY <1>1, <1>3 DEF Seen
  <1>5. /\ DOMAIN g = HalfFields /\ g.queue = h.queue /\ g.saved = h.saved
        /\ g.nextSeq = h.nextSeq /\ g.closed = h.closed /\ g.lastSeen = s
    BY <1>4 DEF IsHalf, HalfFields
  <1> QED BY <1>2, <1>5 DEF IsHalf, Held

\* A live packet.
LEMMA LiveIs ==
    ASSUME NEW s \in Int, NEW p, IsSeq(p.bytes), NEW t \in Times
    PROVE  IsPage(Live(s, p, t)) /\ Live(s, p, t).live
  <1>1. PICK e : e = (p.fin \/ p.rst)
    OBVIOUS
  <1>2. Live(s, p, t) = [seq |-> s, bytes |-> p.bytes, end |-> e, seen |-> t, live |-> TRUE]
    BY <1>1, Zenon DEF Live, Container
  <1>3. PICK x : x = Live(s, p, t)
    OBVIOUS
  <1>4. /\ DOMAIN x = {"seq", "bytes", "end", "seen", "live"} /\ x.seq = s
        /\ x.bytes = p.bytes /\ x.seen = t /\ x.live = TRUE
    BY <1>2, <1>3
  <1> QED BY <1>3, <1>4 DEF IsPage, PageFields

\* No half is opened or closed.
LEMMA CompletedSame ==
    ASSUME CompletedOnce, UNCHANGED completed, NEW d \in Dirs,
           half'[d].closed = half[d].closed, half'[Other(d)].closed = half[Other(d)].closed
    PROVE  CompletedOnce'
  <1>1. Dirs = {d, Other(d)}
    BY OtherFacts
  <1>2. (\A e \in Dirs : half'[e].closed) <=> (\A e \in Dirs : half[e].closed)
    BY <1>1
  <1> QED BY <1>2 DEF CompletedOnce

LEMMA IgnoreKeeps ==
    ASSUME AssemblerInv, NEW d \in Dirs, NEW t \in Times, Ignore(d, t)
    PROVE  AssemblerInv'
  <1>1. HalvesOK /\ Counted /\ CompletedOnce /\ sg = NoSG /\ flush = NoFlush
    BY DEF AssemblerInv, Ignore
  <1>2. UNCHANGED <<used, sg, flush, completed>>
    BY DEF Ignore
  <1>3. PICK h : h = half[d]
    OBVIOUS
  <1>4. IsHalf(h)
    BY <1>1, <1>3 DEF HalvesOK
  <1>5. PICK g : g = Seen(h, t, <<>>)
    OBVIOUS
  <1>6. IsHalf(g) /\ g.closed = h.closed /\ Held(g) = Held(h)
    BY <1>4, <1>5, SeenHalf
  <1>7. half' = [half EXCEPT ![d] = g]
    BY <1>1, <1>3, <1>5 DEF Ignore, HalvesOK
  <1>8. HalvesOK' /\ half'[d] = g /\ half'[Other(d)] = half[Other(d)]
    BY <1>1, <1>6, <1>7, HalfChanges
  <1>9. CompletedOnce'
    BY <1>1, <1>2, <1>3, <1>6, <1>8, CompletedSame
  <1>10. Counted'
    <2>1. Held(half'["s2c"]) + Held(half'["c2s"]) = Held(half["s2c"]) + Held(half["c2s"])
      <3>1. (d = "s2c" /\ Other(d) = "c2s") \/ (d = "c2s" /\ Other(d) = "s2c")
        BY DEF Dirs, Other
      <3> QED BY <1>3, <1>6, <1>8, <3>1
    <2> QED BY <1>1, <1>2, <2>1 DEF Counted
  <1>11. FlushOK'
    BY <1>1, <1>2 DEF FlushOK
  <1> QED BY <1>8, <1>9, <1>10, <1>11 DEF AssemblerInv

\* What is not taken from u is left in v.
LEMMA Balance ==
    ASSUME NEW u \in Int, NEW v \in Int, NEW a \in Int, NEW b \in Int, NEW x \in Int,
           u >= a + b, v - x = u - a
    PROVE  v >= x + b /\ v >= b + x
  OBVIOUS

\* A step that leaves pages in a half, or moves them to a ScatterGather, and
\* takes from used what it frees.
LEMMA CountedKeeps ==
    ASSUME HalvesOK, Counted, NEW d \in Dirs, sg = NoSG, ~half[d].closed,
           HalvesOK', half'[Other(d)] = half[Other(d)], half'[d].closed = half[d].closed,
           used' \in Int,
           \/ sg' = NoSG /\ used' - Held(half'[d]) = used - Held(half[d])
           \/ /\ IsSG(sg') /\ sg'.dir = d
              /\ used' - (Len(half'[d].queue) + Pages(sg'.all)) = used - Held(half[d])
    PROVE  Counted'
  <1>4. PICK a \in Nat, b \in Nat : a = Held(half[d]) /\ b = Held(half[Other(d)])
    BY SumOfBoth
  <1>5. PICK u \in Int, v \in Int : u = used /\ v = used' /\ u >= a + b
    BY <1>4, SumOfBoth DEF Counted
  <1>0. a \in Int /\ b \in Int
    OBVIOUS
  <1>6. CASE sg' = NoSG /\ used' - Held(half'[d]) = used - Held(half[d])
    <2>1. /\ Held(half'["s2c"]) + Held(half'["c2s"]) = Held(half'[d]) + Held(half'[Other(d)])
          /\ Held(half'[d]) \in Nat
      <3>1. (d = "s2c" /\ Other(d) = "c2s") \/ (d = "c2s" /\ Other(d) = "s2c")
        BY DEF Dirs, Other
      <3>2. IsHalf(half'["s2c"]) /\ IsHalf(half'["c2s"])
        BY DEF HalvesOK, Dirs
      <3>3. Held(half'["s2c"]) \in Nat /\ Held(half'["c2s"]) \in Nat
        BY <3>2, HeldNat
      <3> QED BY <3>1, <3>3
    <2>2. PICK x \in Nat : x = Held(half'[d])
      BY <2>1
    <2>3. v - x = u - a
      BY <1>4, <1>5, <1>6, <2>2
    <2>4. v >= x + b
      <3>1. x \in Int
        OBVIOUS
      <3> QED BY <1>0, <1>5, <2>3, <3>1, Balance, Zenon
    <2>5. used' >= Held(half'["s2c"]) + Held(half'["c2s"])
      BY <1>4, <1>5, <2>1, <2>2, <2>4
    <2> QED BY <1>6, <2>5 DEF Counted
  <1>7. CASE /\ IsSG(sg') /\ sg'.dir = d
             /\ used' - (Len(half'[d].queue) + Pages(sg'.all)) = used - Held(half[d])
    <2>1. PICK x \in Nat, y \in Int : x = Len(half'[d].queue) /\ y = Pages(sg'.all)
      <3>1. IsHalf(half'[d])
        BY DEF HalvesOK
      <3>2. Pages(sg'.all) \in Int
        BY <1>7, PagesIs DEF IsSG
      <3> QED BY <3>1, <3>2, HeldNat
    <2>2. v - (x + y) = u - a
      BY <1>4, <1>5, <1>7, <2>1
    <2>3. v >= b + x + y
      <3>1. PICK z \in Int : z = x + y
        OBVIOUS
      <3>2. v >= b + z
        <4>1. v - z = u - a
          BY <2>2, <3>1
        <4> QED BY <1>0, <1>5, <4>1, Balance, Zenon
      <3> QED BY <3>1, <3>2
    <2>4. used' >= Held(half'[Other(d)]) + Len(half'[d].queue) + Pages(sg'.all)
      BY <1>4, <1>5, <2>1, <2>3
    <2>5. ~half'[d].closed /\ sg' # NoSG
      BY <1>7 DEF IsSG
    <2> QED BY <1>7, <2>4, <2>5 DEF Counted
  <1> QED BY <1>6, <1>7

\* Such a step between flushes.
LEMMA PacketKeeps ==
    ASSUME AssemblerInv, NEW d \in Dirs, sg = NoSG, flush = NoFlush, ~half[d].closed,
           HalvesOK', half'[Other(d)] = half[Other(d)], half'[d].closed = half[d].closed,
           UNCHANGED <<flush, completed>>, used' \in Int,
           \/ sg' = NoSG /\ used' - Held(half'[d]) = used - Held(half[d])
           \/ /\ IsSG(sg') /\ sg'.dir = d
              /\ used' - (Len(half'[d].queue) + Pages(sg'.all)) = used - Held(half[d])
    PROVE  AssemblerInv'
  <1>1. HalvesOK /\ Counted /\ CompletedOnce
    BY DEF AssemblerInv
  <1>2. CompletedOnce'
    BY <1>1, CompletedSame
  <1>3. FlushOK'
    BY DEF FlushOK
  <1>4. Counted'
    BY <1>1, CountedKeeps
  <1> QED BY <1>2, <1>3, <1>4 DEF AssemblerInv

\* The queue of a half is replaced; what is stored about it otherwise is not
\* looked at.
WithPages(h, q, n) == [h EXCEPT !.queue = q, !.pages = n]
WithQueue(h, q) == [h EXCEPT !.queue = q]

LEMMA NewQueue ==
    ASSUME NEW h, IsHalf(h), NEW q, IsQueue(q), NEW n, NEW g,
           g = WithPages(h, q, n)
    PROVE  /\ IsHalf(g) /\ g.queue = q /\ g.saved = h.saved /\ g.lastSeen = h.lastSeen
           /\ g.closed = h.closed /\ Held(g) = Len(q) + Len(h.saved)
  <1>1. /\ DOMAIN g = HalfFields /\ g.queue = q /\ g.saved = h.saved /\ g.nextSeq = h.nextSeq
        /\ g.closed = h.closed /\ g.lastSeen = h.lastSeen
    BY DEF IsHalf, HalfFields, WithPages
  <1>2. IsHalf(g)
    BY <1>1 DEF IsHalf
  <1> QED BY <1>1, <1>2 DEF Held

LEMMA TailQueue ==
    ASSUME NEW h, IsHalf(h), NEW q, IsQueue(q), NEW g, g = WithQueue(h, q)
    PROVE  /\ IsHalf(g) /\ g.queue = q /\ g.saved = h.saved /\ g.lastSeen = h.lastSeen
           /\ g.closed = h.closed /\ Held(g) = Len(q) + Len(h.saved)
  <1>1. /\ DOMAIN g = HalfFields /\ g.queue = q /\ g.saved = h.saved /\ g.nextSeq = h.nextSeq
        /\ g.closed = h.closed /\ g.lastSeen = h.lastSeen
    BY DEF IsHalf, HalfFields, WithQueue
  <1>2. IsHalf(g)
    BY <1>1 DEF IsHalf
  <1> QED BY <1>1, <1>2 DEF Held

LEMMA Overlaps ==
    ASSUME NEW q, IsQueue(q), NEW s \in Int, NEW e \in Int, NEW over,
           over = checkOverlap(q, s, e)
    PROVE  /\ IsQueue(over.before) /\ IsQueue(over.behind) /\ over.dropped \in Int
           /\ over.dropped = Len(q) - Len(over.before) - Len(over.behind)
  BY Overlap, Zenon

\* A packet that is ahead is stored, and the first page sent when that is too
\* much.
LEMMA QueueKeeps ==
    ASSUME AssemblerInv, NEW d \in Dirs, NEW t \in Times, NEW stale, NEW p \in Packets[d],
           Queue(d, p, t, stale)
    PROVE  AssemblerInv'
  <1>1. /\ HalvesOK /\ Counted /\ sg = NoSG /\ flush = NoFlush /\ ~half[d].closed
        /\ used \in Int /\ UNCHANGED <<flush, completed>>
    BY DEF AssemblerInv, Queue, Accepted, Counted
  <1>2. IsHalf(half[d])
    BY <1>1 DEF HalvesOK
  <1>3. p.seq \in Int /\ IsSeq(p.bytes)
    BY SegmentFacts
  <1>4. PICK h : h = Seen(half[d], t, p.bytes)
    OBVIOUS
  <1>5. IsHalf(h) /\ h.queue = half[d].queue /\ h.saved = half[d].saved /\ h.closed = half[d].closed
    BY <1>2, <1>4, SeenHalf
  <1>6. PICK over : over = checkOverlap(h.queue, p.seq, Add(p.seq, Len(p.bytes)))
    OBVIOUS
  <1>7. PICK q \in Nat, s \in Nat : q = Len(half[d].queue) /\ s = Len(half[d].saved)
    BY <1>2, HeldNat
  <1>8. /\ IsQueue(over.before) /\ IsQueue(over.behind) /\ over.dropped \in Int
        /\ over.dropped = q - Len(over.before) - Len(over.behind)
    <2>1. Len(p.bytes) \in Int
      BY <1>3, SeqFacts
    <2>2. Add(p.seq, Len(p.bytes)) \in Int
      BY <1>3, <2>1, NumberFacts, Zenon
    <2>3. PICK e \in Int : e = Add(p.seq, Len(p.bytes))
      BY <2>2, Zenon
    <2>4. PICK l : l = h.queue
      OBVIOUS
    <2>5. IsQueue(l) /\ Len(l) = q
      BY <1>5, <1>7, <2>4 DEF IsHalf
    <2>6. over = checkOverlap(l, p.seq, e)
      BY <1>6, <2>3, <2>4, Zenon
    <2> QED BY <1>3, <2>5, <2>6, Overlaps
  <1>9. PICK new : new = IF p.bytes = <<>> \/ over.inside THEN <<>>
                         ELSE convertToPages(Live(p.seq, p, t), stale)
    OBVIOUS
  <1>10. IsQueue(new)
    <2>1. IsQueue(convertToPages(Live(p.seq, p, t), stale))
      BY <1>3, LiveIs, Converted, Zenon
    <2>2. new \in {<<>>, convertToPages(Live(p.seq, p, t), stale)}
      BY <1>9, Zenon
    <2> QED BY <2>1, <2>2, EmptyQueue
  <1>11. PICK queue : queue = over.before \o new \o over.behind
    OBVIOUS
  <1>12. PICK x \in Nat, y \in Nat, z \in Nat :
            x = Len(over.before) /\ y = Len(new) /\ z = Len(over.behind)
    BY <1>8, <1>10, SeqFacts DEF IsQueue, IsBatch
  <1>13. IsQueue(queue) /\ Len(queue) = x + y + z
    <2>1. PICK a : a = over.before \o new
      OBVIOUS
    <2>2. IsBatch(over.before) /\ IsBatch(new) /\ IsBatch(over.behind)
      BY <1>8, <1>10 DEF IsQueue
    <2>3. IsQueue(a) /\ Len(a) = Len(over.before) + Len(new)
      BY <1>8, <1>10, <2>1, <2>2, CatQueue, Zenon
    <2>4. IsBatch(a) /\ queue = a \o over.behind
      BY <1>11, <2>1, <2>3 DEF IsQueue
    <2>5. IsQueue(queue) /\ Len(queue) = Len(a) + Len(over.behind)
      BY <1>8, <2>2, <2>3, <2>4, CatQueue, Zenon
    <2> QED BY <1>12, <2>3, <2>5
  <1>14. PICK more \in Int : more = Len(new) - over.dropped /\ more = x + y + z - q
    <2>1. PICK k \in Int : k = over.dropped
      BY <1>8, Zenon
    <2>2. k = q - x - z
      BY <1>8, <1>12, <2>1, Zenon
    <2>3. PICK m \in Int : m = y - k
      OBVIOUS
    <2>4. m = x + y + z - q
      BY <2>2, <2>3
    <2> QED BY <1>12, <2>1, <2>3, <2>4, Zenon
  <1>15. PICK stored : stored = [h EXCEPT !.queue = queue, !.pages = @ + more]
    OBVIOUS
  <1>16. /\ IsHalf(stored) /\ stored.queue = queue /\ stored.saved = h.saved
         /\ stored.closed = h.closed /\ Held(stored) = Len(queue) + Len(h.saved)
    <2>1. PICK n : n = h.pages + more
      OBVIOUS
    <2>2. stored = WithPages(h, queue, n)
      BY <1>15, <2>1, Zenon DEF WithPages
    <2>3. IsHalf(h) /\ IsQueue(queue)
      BY <1>5, <1>13, Zenon
    <2> QED BY <2>2, <2>3, NewQueue
  <1>17. PICK v \in Int : v = used + more
    BY <1>1
  <1>18. \/ /\ queue # <<>>
            /\ buildSG(d, [stored EXCEPT !.queue = Tail(@)], v, Head(queue), p.fin)
         \/ /\ half' = [half EXCEPT ![d] = stored] /\ used' = v /\ UNCHANGED sg
    BY <1>4, <1>6, <1>9, <1>11, <1>14, <1>15, <1>17, Zenon DEF Queue
  <1>19. Held(half[d]) = q + s /\ Held(stored) = x + y + z + s
    BY <1>5, <1>7, <1>13, <1>16 DEF Held
  <1>20. CASE half' = [half EXCEPT ![d] = stored] /\ used' = v /\ UNCHANGED sg
    <2>1. HalvesOK' /\ half'[d] = stored /\ half'[Other(d)] = half[Other(d)]
      BY <1>1, <1>16, <1>20, HalfChanges
    <2>2. used' - Held(half'[d]) = used - Held(half[d])
      BY <1>1, <1>14, <1>17, <1>19, <1>20, <2>1
    <2>3. half'[d].closed = half[d].closed /\ sg' = NoSG /\ used' \in Int
      BY <1>1, <1>5, <1>16, <1>20, <2>1
    <2> QED BY <1>1, <2>1, <2>2, <2>3, PacketKeeps
  <1>21. CASE /\ queue # <<>>
              /\ buildSG(d, [stored EXCEPT !.queue = Tail(@)], v, Head(queue), p.fin)
    <2>1. PICK c, tail : c = Head(queue) /\ tail = Tail(queue)
      OBVIOUS
    <2>2. IsPage(c) /\ ~c.live /\ IsQueue(tail) /\ Len(tail) = Len(queue) - 1
      BY <1>13, <1>21, <2>1, HeadTail
    <2>3. PICK g : g = WithQueue(stored, tail)
      OBVIOUS
    <2>4. IsHalf(g) /\ g.closed = h.closed /\ Held(g) = Len(tail) + Len(h.saved)
      <3>1. IsHalf(stored) /\ IsQueue(tail)
        BY <1>16, <2>2, Zenon
      <3>2. IsHalf(g) /\ g.closed = stored.closed /\ Held(g) = Len(tail) + Len(stored.saved)
        BY <2>3, <3>1, TailQueue
      <3> QED BY <1>16, <3>2
    <2>5. g = [stored EXCEPT !.queue = Tail(@)]
      BY <1>16, <2>1, <2>3 DEF WithQueue
    <2>6. buildSG(d, g, v, c, p.fin)
      BY <1>21, <2>1, <2>5
    <2>7. /\ HalvesOK' /\ half'[Other(d)] = half[Other(d)]
          /\ half'[d].closed = g.closed /\ IsSG(sg') /\ sg'.dir = d /\ used' \in Int
          /\ used' = v - Held(g) + Len(half'[d].queue) + Pages(sg'.all)
                        - (IF c.live THEN 0 ELSE 1)
      BY <1>1, <1>17, <2>2, <2>4, <2>6, BuildStep
    <2>8. PICK k \in Nat, m \in Int : k = Len(half'[d].queue) /\ m = Pages(sg'.all)
      <3>1. IsHalf(half'[d])
        BY <2>7 DEF HalvesOK
      <3>2. Pages(sg'.all) \in Int
        BY <2>7, PagesIs DEF IsSG
      <3> QED BY <3>1, <3>2, HeldNat
    <2>9. Held(g) = x + y + z - 1 + s
      BY <1>5, <1>7, <1>13, <2>2, <2>4
    <2>10. used' = v - Held(g) + k + m - 1
      BY <2>2, <2>7, <2>8
    <2>11. used' - (k + m) = used - (q + s)
      <3>1. PICK u \in Int, w \in Int : u = used /\ w = used'
        BY <1>1, <2>7, Zenon
      <3>2. w = v - (x + y + z - 1 + s) + k + m - 1
        BY <2>9, <2>10, <3>1, Zenon
      <3>3. v = u + (x + y + z - q)
        BY <1>14, <1>17, <3>1, Zenon
      <3>4. w - (k + m) = u - (q + s)
        BY <3>2, <3>3
      <3> QED BY <3>1, <3>4, Zenon
    <2>12. used' - (Len(half'[d].queue) + Pages(sg'.all)) = used - Held(half[d])
      BY <1>19, <2>8, <2>11
    <2>13. half'[d].closed = half[d].closed
      BY <1>5, <2>4, <2>7
    <2> QED BY <1>1, <2>7, <2>12, <2>13, PacketKeeps
  <1> QED BY <1>18, <1>20, <1>21

\* overlapExisting cuts a page.
LEMMA ExistingIsPage ==
    ASSUME NEW h, IsHalf(h), NEW c, IsPage(c)
    PROVE  IsPage(overlapExisting(h, c)) /\ overlapExisting(h, c).live = c.live
  <1>1. c.seq \in Int /\ Len(c.bytes) \in Nat /\ h.nextSeq \in Int /\ DOMAIN c = PageFields
    BY EndInt DEF IsPage, IsHalf
  <1>2. PICK diff \in Int :
            diff = IF h.nextSeq = invalidSequence THEN 0 ELSE Difference(c.seq, h.nextSeq)
    <2>1. Difference(c.seq, h.nextSeq) \in Int
      BY <1>1, NumberFacts, Zenon
    <2> QED BY <2>1
  <1>3. PICK b : b = SubSeq(c.bytes, diff + 1, Len(c.bytes))
    OBVIOUS
  <1>4. IsSeq(b)
    BY <1>1, <1>3, AnySub
  <1>5. PICK g : g = [c EXCEPT !.bytes = b, !.seq = h.nextSeq]
    OBVIOUS
  <1>6. /\ DOMAIN g = PageFields /\ g.bytes = b /\ g.seq = h.nextSeq /\ g.seen = c.seen
        /\ g.live = c.live
    BY <1>1, <1>5 DEF PageFields
  <1>7. IsPage(g)
    BY <1>1, <1>4, <1>6 DEF IsPage
  <1>8. overlapExisting(h, c) \in {c, g}
    BY <1>2, <1>3, <1>5, Zenon DEF overlapExisting
  <1> QED BY <1>6, <1>7, <1>8

\* A packet that is told, with the pages that follow on it.
LEMMA DeliverKeeps ==
    ASSUME AssemblerInv, NEW d \in Dirs, NEW t \in Times, NEW start, NEW p \in Packets[d],
           Deliver(d, p, t, start)
    PROVE  AssemblerInv'
  <1>1. /\ HalvesOK /\ Counted /\ sg = NoSG /\ flush = NoFlush /\ ~half[d].closed
        /\ used \in Int /\ UNCHANGED <<flush, completed>>
    BY DEF AssemblerInv, Deliver, Accepted, Counted
  <1>2. IsHalf(half[d])
    BY <1>1 DEF HalvesOK
  <1>3. p.seq \in Int /\ IsSeq(p.bytes)
    BY SegmentFacts
  <1>4. PICK first : first = (half[d].nextSeq = invalidSequence)
    OBVIOUS
  <1>5. PICK seq \in Int : seq = IF first /\ p.syn THEN Add(p.seq, 1) ELSE p.seq
    <2>1. 1 \in Int
      OBVIOUS
    <2>2. Add(p.seq, 1) \in Int
      BY <1>3, <2>1, NumberFacts, Zenon
    <2> QED BY <1>3, <2>2, Zenon
  <1>6. PICK g : g = Seen(half[d], t, p.bytes)
    OBVIOUS
  <1>7. /\ IsHalf(g) /\ g.queue = half[d].queue /\ g.saved = half[d].saved
        /\ g.closed = half[d].closed
    BY <1>2, <1>6, SeenHalf
  <1>8. PICK next : next = IF first THEN seq ELSE g.nextSeq
    OBVIOUS
  <1>9. PICK upTo : upTo = IF first THEN (seq - ISN[d]) % (uint32Max + 1) ELSE g.upTo
    OBVIOUS
  <1>10. PICK h : h = [g EXCEPT !.nextSeq = next, !.upTo = upTo]
    OBVIOUS
  <1>11. IsHalf(h) /\ h.queue = g.queue /\ h.saved = g.saved /\ h.closed = g.closed
    <2>1. /\ DOMAIN h = HalfFields /\ h.queue = g.queue /\ h.saved = g.saved
          /\ h.closed = g.closed /\ h.nextSeq = next /\ h.lastSeen = g.lastSeen
      BY <1>7, <1>10 DEF IsHalf, HalfFields
    <2>2. next \in Int
      BY <1>7, <1>8 DEF IsHalf
    <2> QED BY <1>7, <2>1, <2>2 DEF IsHalf
  <1>12. h = [Seen(half[d], t, p.bytes) EXCEPT
                    !.nextSeq = IF first THEN seq ELSE @,
                    !.upTo = IF first THEN (seq - ISN[d]) % (uint32Max + 1) ELSE @]
    BY <1>6, <1>8, <1>9, <1>10
  <1>13. PICK lp : lp = overlapExisting(h, Live(seq, p, t))
    OBVIOUS
  <1>14. IsPage(lp) /\ lp.live
    <2>1. IsPage(Live(seq, p, t)) /\ Live(seq, p, t).live
      BY <1>3, LiveIs
    <2> QED BY <1>11, <1>13, <2>1, ExistingIsPage
  <1>15. PICK over : over = checkOverlap(h.queue, lp.seq, End(lp))
    OBVIOUS
  <1>16. PICK q \in Nat, s \in Nat : q = Len(half[d].queue) /\ s = Len(half[d].saved)
    BY <1>2, HeldNat
  <1>17. /\ IsQueue(over.before) /\ IsQueue(over.behind) /\ over.dropped \in Int
         /\ over.dropped = q - Len(over.before) - Len(over.behind)
    <2>1. lp.seq \in Int /\ End(lp) \in Int
      BY <1>14, EndInt DEF IsPage
    <2>2. IsQueue(h.queue) /\ Len(h.queue) = q
      BY <1>7, <1>11, <1>16 DEF IsHalf
    <2>3. PICK l : l = h.queue
      OBVIOUS
    <2>4. IsQueue(l) /\ Len(l) = q /\ over = checkOverlap(l, lp.seq, End(lp))
      BY <1>15, <2>2, <2>3, Zenon
    <2> QED BY <2>1, <2>4, Overlaps, ZenonT(60)
  <1>18. PICK c : c = IF over.inside THEN [lp EXCEPT !.bytes = <<>>] ELSE lp
    OBVIOUS
  <1>19. IsPage(c) /\ c.live
    <2>1. PICK e : e = [lp EXCEPT !.bytes = <<>>]
      OBVIOUS
    <2>2. /\ DOMAIN e = PageFields /\ e.bytes = <<>> /\ e.seq = lp.seq /\ e.seen = lp.seen
          /\ e.live = lp.live
      BY <1>14, <2>1 DEF IsPage, PageFields
    <2>3. IsSeq(e.bytes)
      BY <2>2, EmptyQueue DEF IsQueue, IsBatch
    <2>4. IsPage(e) /\ e.live
      BY <1>14, <2>2, <2>3 DEF IsPage
    <2>5. c \in {e, lp}
      BY <1>18, <2>1, Zenon
    <2> QED BY <1>14, <2>4, <2>5
  <1>20. PICK queue : queue = over.before \o over.behind
    OBVIOUS
  <1>21. PICK x \in Nat, z \in Nat : x = Len(over.before) /\ z = Len(over.behind)
    BY <1>17, SeqFacts DEF IsQueue, IsBatch
  <1>22. IsQueue(queue) /\ Len(queue) = x + z
    <2>1. IsBatch(over.before) /\ IsBatch(over.behind)
      BY <1>17 DEF IsQueue
    <2>2. IsQueue(queue) /\ Len(queue) = Len(over.before) + Len(over.behind)
      BY <1>17, <1>20, <2>1, CatQueue, Zenon
    <2> QED BY <1>21, <2>2
  <1>23. PICK rest : rest = [h EXCEPT !.queue = over.before \o over.behind,
                                      !.pages = @ - over.dropped]
    OBVIOUS
  <1>24. /\ IsHalf(rest) /\ rest.queue = queue /\ rest.closed = h.closed
         /\ Held(rest) = Len(queue) + Len(h.saved)
    <2>1. PICK n : n = h.pages - over.dropped
      OBVIOUS
    <2>2. rest = WithPages(h, queue, n)
      BY <1>20, <1>23, <2>1, Zenon DEF WithPages
    <2>3. IsHalf(h) /\ IsQueue(queue)
      BY <1>11, <1>22, Zenon
    <2> QED BY <2>2, <2>3, NewQueue
  <1>25. PICK v \in Int : v = used - over.dropped /\ v = used - (q - x - z)
    <2>1. PICK k \in Int, u \in Int : k = over.dropped /\ u = used
      BY <1>1, <1>17, Zenon
    <2>2. k = q - x - z
      BY <1>17, <1>21, <2>1, Zenon
    <2>3. PICK w \in Int : w = u - k
      OBVIOUS
    <2>4. w = u - (q - x - z)
      BY <2>2, <2>3, Zenon
    <2> QED BY <2>1, <2>3, <2>4, Zenon
  <1>26. \/ buildSG(d, rest, v, c, p.fin)
         \/ half' = [half EXCEPT ![d] = rest] /\ used' = v /\ UNCHANGED sg
    BY <1>4, <1>5, <1>12, <1>13, <1>15, <1>18, <1>23, <1>25, Zenon DEF Deliver
  <1>27. Held(half[d]) = q + s /\ Held(rest) = x + z + s
    BY <1>7, <1>11, <1>16, <1>22, <1>24 DEF Held
  <1>28. CASE half' = [half EXCEPT ![d] = rest] /\ used' = v /\ UNCHANGED sg
    <2>1. HalvesOK' /\ half'[d] = rest /\ half'[Other(d)] = half[Other(d)]
      BY <1>1, <1>24, <1>28, HalfChanges
    <2>2. used' - Held(half'[d]) = used - Held(half[d])
      BY <1>1, <1>25, <1>27, <1>28, <2>1
    <2>3. half'[d].closed = half[d].closed /\ sg' = NoSG /\ used' \in Int
      BY <1>1, <1>7, <1>11, <1>24, <1>28, <2>1
    <2> QED BY <1>1, <2>1, <2>2, <2>3, PacketKeeps
  <1>29. CASE buildSG(d, rest, v, c, p.fin)
    <2>1. /\ HalvesOK' /\ half'[Other(d)] = half[Other(d)]
          /\ half'[d].closed = rest.closed /\ IsSG(sg') /\ sg'.dir = d /\ used' \in Int
          /\ used' = v - Held(rest) + Len(half'[d].queue) + Pages(sg'.all)
                        - (IF c.live THEN 0 ELSE 1)
      BY <1>1, <1>19, <1>24, <1>25, <1>29, BuildStep
    <2>2. PICK k \in Nat, m \in Int : k = Len(half'[d].queue) /\ m = Pages(sg'.all)
      <3>1. IsHalf(half'[d])
        BY <2>1 DEF HalvesOK
      <3>2. Pages(sg'.all) \in Int
        BY <2>1, PagesIs DEF IsSG
      <3> QED BY <3>1, <3>2, HeldNat
    <2>3. used' = v - (x + z + s) + k + m
      BY <1>19, <1>27, <2>1, <2>2
    <2>4. used' - (k + m) = used - (q + s)
      BY <1>1, <1>25, <2>3
    <2>5. used' - (Len(half'[d].queue) + Pages(sg'.all)) = used - Held(half[d])
      BY <1>27, <2>2, <2>4
    <2>6. half'[d].closed = half[d].closed
      BY <1>7, <1>11, <1>24, <2>1
    <2> QED BY <1>1, <2>1, <2>5, <2>6, PacketKeeps
  <1> QED BY <1>26, <1>28, <1>29

-----------------------------------------------------------------------------
(* What cleanSG keeps.                                                     *)

UpToNo(all, i) == Len(Bytes(SubSeq(all, 1, i)))

FirstKept(all, keep) ==
    LET found == {i \in DOMAIN all : keep < UpToNo(all, i)} IN
    IF keep < 0 \/ found = {} THEN Len(all) + 1 ELSE Min(found)

SkipAt(all, keep, ndx, i) ==
    IF i = ndx \/ (i = ndx + 1 /\ all[ndx].live) THEN keep - UpToNo(all, ndx - 1) ELSE 0

CutBy(p, x) == [p EXCEPT !.bytes = SubSeq(@, x + 1, Len(@)), !.seq = Add(@, x)]

PagesAt(all, keep, stale, ndx, i) ==
    LET c == CutBy(all[i], SkipAt(all, keep, ndx, i)) IN
    IF all[i].live THEN convertToPages(c, stale) ELSE <<c>>

LEMMA KeptHas ==
    ASSUME NEW all, NEW keep, NEW stale
    PROVE  LET ndx == FirstKept(all, keep) IN
           Kept(all, keep, stale) =
               [from |-> ndx,
                new |-> FlattenSeq([i \in 1..(Len(all) + 1 - ndx) |->
                                        PagesAt(all, keep, stale, ndx, ndx + i - 1)])]
  BY DEF Kept, FirstKept, SkipAt, PagesAt, CutBy, UpToNo

LEMMA CutByIsPage ==
    ASSUME NEW p, IsPage(p), NEW x \in Int
    PROVE  IsPage(CutBy(p, x)) /\ CutBy(p, x).live = p.live
  <1>1. /\ DOMAIN p = PageFields /\ p.seq \in Int /\ Len(p.bytes) \in Nat
        /\ p.seen \in Times /\ p.live \in BOOLEAN
    BY EndInt DEF IsPage
  <1>2. PICK b : b = SubSeq(p.bytes, x + 1, Len(p.bytes))
    OBVIOUS
  <1>3. IsSeq(b)
    BY <1>1, <1>2, AnySub
  <1>4. PICK s \in Int : s = Add(p.seq, x)
    <2>1. Add(p.seq, x) \in Int
      BY <1>1, NumberFacts, Zenon
    <2> QED BY <2>1, Zenon
  <1>5. PICK g : g = [p EXCEPT !.bytes = b, !.seq = s]
    OBVIOUS
  <1>6. /\ DOMAIN g = PageFields /\ g.bytes = b /\ g.seq = s /\ g.seen = p.seen
        /\ g.live = p.live
    BY <1>1, <1>5 DEF PageFields
  <1>7. IsPage(g)
    BY <1>1, <1>3, <1>4, <1>6 DEF IsPage
  <1>8. CutBy(p, x) = g
    BY <1>2, <1>4, <1>5, Zenon DEF CutBy
  <1> QED BY <1>6, <1>7, <1>8

LEMMA UpToNoNat ==
    ASSUME NEW all, IsBatch(all), NEW i \in 0..Len(all)
    PROVE  UpToNo(all, i) \in Nat
  <1>1. PICK n \in Nat : n = Len(all)
    BY SeqFacts DEF IsBatch
  <1>2. 1 \in 1..(Len(all) + 1) /\ i \in (1 - 1)..Len(all)
    BY <1>1
  <1>3. IsBatch(SubSeq(all, 1, i))
    BY <1>2, SubQueue, Zenon
  <1> QED BY <1>3, BytesSeq, Zenon DEF UpToNo

LEMMA FirstKeptIs ==
    ASSUME NEW all, IsBatch(all), NEW keep \in Int
    PROVE  FirstKept(all, keep) \in 1..(Len(all) + 1)
  <1>1. PICK n \in Nat : n = Len(all) /\ DOMAIN all = 1..n
    BY SeqFacts DEF IsBatch
  <1>2. PICK found : found = {i \in DOMAIN all : keep < UpToNo(all, i)}
    OBVIOUS
  <1>3. FirstKept(all, keep) = IF keep < 0 \/ found = {} THEN Len(all) + 1 ELSE Min(found)
    BY <1>2, Zenon DEF FirstKept
  <1>4. found \in SUBSET Nat /\ found \subseteq 1..n
    BY <1>1, <1>2
  <1>5. CASE keep < 0 \/ found = {}
    BY <1>1, <1>3, <1>5
  <1>6. CASE ~(keep < 0 \/ found = {})
    <2>1. FirstKept(all, keep) = Min(found)
      BY <1>3, <1>6, Zenon
    <2>2. Min(found) \in found
      BY <1>4, <1>6, MinIs, Zenon
    <2>3. PICK m : m = Min(found) /\ m \in 1..n
      BY <1>4, <2>2, Zenon
    <2>4. m \in 1..(n + 1)
      BY <2>3
    <2> QED BY <1>1, <2>1, <2>3, <2>4, Zenon
  <1> QED BY <1>5, <1>6

LEMMA PagesAtQueue ==
    ASSUME NEW all, IsBatch(all), NEW keep \in Int, NEW stale,
           NEW ndx \in 1..Len(all), NEW i \in 1..Len(all)
    PROVE  IsQueue(PagesAt(all, keep, stale, ndx, i))
  <1>1. PICK n \in Nat : n = Len(all)
    BY SeqFacts DEF IsBatch
  <1>2. PICK p : p = all[i]
    OBVIOUS
  <1>3. IsPage(p)
    BY <1>2 DEF IsBatch
  <1>4. ndx - 1 \in 0..Len(all)
    BY <1>1
  <1>5. PICK k \in Nat : k = UpToNo(all, ndx - 1)
    <2>1. UpToNo(all, ndx - 1) \in Nat
      BY <1>4, UpToNoNat, Zenon
    <2> QED BY <2>1, Zenon
  <1>6. SkipAt(all, keep, ndx, i) \in {keep - k, 0}
    BY <1>5, Zenon DEF SkipAt
  <1>7. keep - k \in Int /\ 0 \in Int
    OBVIOUS
  <1>8. PICK x \in Int : x = SkipAt(all, keep, ndx, i)
    BY <1>6, <1>7, Zenon
  <1>9. PICK c : c = CutBy(p, x)
    OBVIOUS
  <1>10. IsPage(c) /\ c.live = p.live
    BY <1>3, <1>9, CutByIsPage
  <1>11. PagesAt(all, keep, stale, ndx, i) = IF p.live THEN convertToPages(c, stale) ELSE <<c>>
    BY <1>2, <1>8, <1>9, Zenon DEF PagesAt
  <1>12. CASE p.live
    <2>1. PagesAt(all, keep, stale, ndx, i) = convertToPages(c, stale)
      BY <1>11, <1>12, Zenon
    <2> QED BY <1>10, <2>1, Converted, Zenon
  <1>13. CASE ~p.live
    <2>1. PagesAt(all, keep, stale, ndx, i) = <<c>>
      BY <1>11, <1>13, Zenon
    <2>2. ~c.live
      BY <1>10, <1>13
    <2> QED BY <1>10, <2>1, <2>2, Single, Zenon
  <1> QED BY <1>12, <1>13

\* What is kept is pages: a live packet is copied into pages, and what had
\* pages already keeps them.
LEMMA KeptIs ==
    ASSUME NEW all, IsBatch(all), NEW keep \in Int, NEW stale
    PROVE  /\ Kept(all, keep, stale).from \in 1..(Len(all) + 1)
           /\ IsQueue(Kept(all, keep, stale).new)
  <1>1. PICK n \in Nat : n = Len(all)
    BY SeqFacts DEF IsBatch
  <1>2. PICK ndx : ndx = FirstKept(all, keep)
    OBVIOUS
  <1>3. ndx \in 1..(n + 1)
    BY <1>1, <1>2, FirstKeptIs
  <1>4. PICK m \in Nat : m = Len(all) + 1 - ndx
    BY <1>1, <1>3
  <1>5. PICK q : q = [i \in 1..m |-> PagesAt(all, keep, stale, ndx, ndx + i - 1)]
    OBVIOUS
  <1>6. IsSeq(q) /\ Len(q) = m
    <2>1. DOMAIN q = 1..m /\ q = [i \in 1..m |-> q[i]]
      BY <1>5
    <2> QED BY <2>1, MakeSeq
  <1>7. ASSUME NEW i \in 1..Len(q)
        PROVE  IsQueue(q[i])
    <2>1. i \in 1..m
      BY <1>6, <1>7
    <2>2. PICK j : j = ndx + i - 1
      OBVIOUS
    <2>3. j \in 1..Len(all) /\ ndx \in 1..Len(all)
      BY <1>1, <1>3, <1>4, <2>1, <2>2
    <2>4. q[i] = PagesAt(all, keep, stale, ndx, j)
      BY <1>5, <2>1, <2>2
    <2>5. IsQueue(PagesAt(all, keep, stale, ndx, j))
      BY <2>3, PagesAtQueue, Zenon
    <2> QED BY <2>4, <2>5, Zenon
  <1>8. IsQueue(FlattenSeq(q))
    BY <1>6, <1>7, FlatQueue, Zenon
  <1>9. Kept(all, keep, stale) = [from |-> ndx, new |-> FlattenSeq(q)]
    BY <1>2, <1>4, <1>5, KeptHas, Zenon
  <1> QED BY <1>1, <1>3, <1>8, <1>9

-----------------------------------------------------------------------------
(* The Stream returns, and flushes.                                        *)

\* A half that is closed gives its pages up; used may keep counting them.
LEMMA CloseStep ==
    ASSUME HalvesOK, CompletedOnce, NEW d \in Dirs, ~half[d].closed, NEW h, IsHalf(h),
           NEW u \in Int, u >= Held(h) + Held(half[Other(d)]), closeHalfConnection(d, h, u)
    PROVE  /\ HalvesOK' /\ CompletedOnce' /\ half'[Other(d)] = half[Other(d)]
           /\ half'[d].closed /\ half'[d].lastSeen = h.lastSeen /\ used' \in Int
           /\ used' >= Held(half'["s2c"]) + Held(half'["c2s"])
  <1>1. PICK g : g = [NewHalf EXCEPT !.closed = TRUE, !.lastSeen = h.lastSeen]
    OBVIOUS
  <1>2. /\ DOMAIN g = HalfFields /\ g.nextSeq = -1 /\ g.queue = <<>> /\ g.saved = <<>>
        /\ g.closed = TRUE /\ g.lastSeen = h.lastSeen
    BY <1>1 DEF NewHalf, HalfFields, invalidSequence
  <1>3. IsHalf(g)
    <2>1. h.lastSeen \in Nat /\ -1 \in Int
      BY DEF IsHalf
    <2>2. IsQueue(g.queue) /\ IsQueue(g.saved)
      BY <1>2, EmptyQueue, Zenon
    <2>3. g.nextSeq \in Int /\ g.closed \in BOOLEAN /\ g.lastSeen \in Nat
      BY <1>2, <2>1
    <2> QED BY <1>2, <2>2, <2>3, Zenon DEF IsHalf
  <1>4. half' = [half EXCEPT ![d] = g]
    BY <1>1, Zenon DEF closeHalfConnection
  <1>5. HalvesOK' /\ half'[d] = g /\ half'[Other(d)] = half[Other(d)]
    BY <1>3, <1>4, HalfChanges
  <1>6. PICK a \in Nat, q \in Nat, s \in Nat :
            a = Held(half[Other(d)]) /\ q = Len(h.queue) /\ s = Len(h.saved)
    BY HeldNat, SumOfBoth
  <1>7. Held(h) = q + s
    BY <1>6 DEF Held
  <1>8. u >= q + s + a
    BY <1>6, <1>7
  <1>9. Held(g) = 0
    BY <1>2, EmptyQueue DEF Held
  <1>10. used' \in Int /\ used' >= a
    <2>1. used' = IF h.queue # <<>> THEN u - 1 ELSE u
      BY DEF closeHalfConnection
    <2>2. CASE h.queue = <<>>
      BY <1>8, <2>1, <2>2
    <2>3. CASE h.queue # <<>>
      <3>1. IsQueue(h.queue)
        BY DEF IsHalf
      <3>2. Len(Tail(h.queue)) = Len(h.queue) - 1 /\ IsQueue(Tail(h.queue))
        BY <2>3, <3>1, HeadTail
      <3>3. PICK k \in Nat : k = Len(Tail(h.queue))
        BY <3>2, SeqFacts DEF IsQueue, IsBatch
      <3>4. k = q - 1
        BY <1>6, <3>2, <3>3
      <3>5. used' = u - 1
        BY <2>1, <2>3
      <3> QED BY <1>8, <3>4, <3>5
    <2> QED BY <2>2, <2>3
  <1>11. used' >= Held(half'["s2c"]) + Held(half'["c2s"])
    <2>1. (d = "s2c" /\ Other(d) = "c2s") \/ (d = "c2s" /\ Other(d) = "s2c")
      BY DEF Dirs, Other
    <2>2. Held(half'[d]) = 0 /\ Held(half'[Other(d)]) = a
      BY <1>5, <1>6, <1>9
    <2> QED BY <1>10, <2>1, <2>2
  <1>12. CompletedOnce'
    <2>1. Dirs = {d, Other(d)} /\ Dirs \ {d} = {Other(d)}
      BY OtherFacts
    <2>2. completed = 0
      BY DEF CompletedOnce
    <2>3. (\A e \in Dirs : half'[e].closed) <=> half[Other(d)].closed
      BY <1>2, <1>5, <2>1
    <2>4. completed' = IF half[Other(d)].closed THEN 1 ELSE 0
      <3>1. CASE half[Other(d)].closed
        <4>1. \A o \in Dirs \ {d} : half[o].closed
          BY <2>1, <3>1
        <4>2. completed' = completed + 1
          BY <4>1 DEF closeHalfConnection
        <4> QED BY <2>2, <3>1, <4>2
      <3>2. CASE ~half[Other(d)].closed
        <4>1. ~(\A o \in Dirs \ {d} : half[o].closed)
          BY <2>1, <3>2
        <4>2. completed' = completed
          BY <4>1 DEF closeHalfConnection
        <4> QED BY <2>2, <3>2, <4>2
      <3> QED BY <3>1, <3>2
    <2> QED BY <2>3, <2>4 DEF CompletedOnce
  <1> QED BY <1>2, <1>5, <1>10, <1>11, <1>12

LEMMA TodoFacts ==
    ASSUME FlushOK, flush # NoFlush, flush.todo # <<>>
    PROVE  /\ DOMAIN flush = {"todo", "t", "tc"} /\ flush.t \in Nat /\ flush.tc \in Nat
           /\ \/ flush.todo = <<"s2c", "c2s">> /\ Head(flush.todo) = "s2c"
                    /\ Tail(flush.todo) = <<"c2s">>
              \/ flush.todo = <<"c2s">> /\ Head(flush.todo) = "c2s" /\ Tail(flush.todo) = <<>>
                    /\ Settled("s2c")
  <1>1. flush.todo \in {<<"s2c", "c2s">>, <<"c2s">>}
    BY DEF FlushOK
  <1>2. CASE flush.todo = <<"s2c", "c2s">>
    <2>1. Head(flush.todo) = "s2c" /\ Tail(flush.todo) = <<"c2s">>
      BY <1>2
    <2> QED BY <1>2, <2>1 DEF FlushOK
  <1>3. CASE flush.todo = <<"c2s">>
    <2>1. Head(flush.todo) = "c2s" /\ Tail(flush.todo) = <<>>
      BY <1>3
    <2>2. <<"c2s">> # <<"s2c", "c2s">>
      OBVIOUS
    <2> QED BY <1>3, <2>1, <2>2 DEF FlushOK
  <1> QED BY <1>1, <1>2, <1>3

\* What a flush owed to a half does not change with the other half.
LEMMA SettledKeeps ==
    ASSUME NEW e, Settled(e), half'[e] = half[e], LastSeen' = LastSeen,
           flush'.t = flush.t, flush'.tc = flush.tc
    PROVE  Settled(e)'
  BY DEF Settled

\* The flush stays at its half.
LEMMA FlushStays ==
    ASSUME FlushOK, NEW d \in Dirs, UNCHANGED flush,
           flush # NoFlush => flush.todo # <<>> /\ Head(flush.todo) = d,
           half'[Other(d)] = half[Other(d)], LastSeen' = LastSeen,
           sg' = NoSG \/ sg'.dir = d
    PROVE  FlushOK'
  <1> SUFFICES ASSUME flush # NoFlush
               PROVE  FlushOK'
    BY DEF FlushOK
  <1>1. /\ flush.todo # <<>> /\ Head(flush.todo) = d
        /\ DOMAIN flush = {"todo", "t", "tc"} /\ flush.t \in Nat /\ flush.tc \in Nat
    BY TodoFacts
  <1>2. CASE flush.todo = <<"s2c", "c2s">>
    BY <1>1, <1>2 DEF FlushOK
  <1>3. CASE flush.todo = <<"c2s">> /\ Head(flush.todo) = "c2s" /\ Settled("s2c")
    <2>1. d = "c2s" /\ Other(d) = "s2c"
      BY <1>1, <1>3 DEF Other
    <2>2. half'["s2c"] = half["s2c"]
      BY <2>1
    <2>3. Settled("s2c")'
      BY <1>3, <2>2, SettledKeeps
    <2> QED BY <1>1, <1>3, <2>3 DEF FlushOK
  <1> QED BY <1>1, <1>2, <1>3, TodoFacts

\* The flush goes on to the next half.
LEMMA FlushGoesOn ==
    ASSUME FlushOK, NEW d \in Dirs, flush # NoFlush, flush.todo # <<>>, Head(flush.todo) = d,
           flush' = [flush EXCEPT !.todo = Tail(@)],
           half'[Other(d)] = half[Other(d)], LastSeen' = LastSeen, sg' = NoSG, Settled(d)'
    PROVE  FlushOK'
  <1>1. DOMAIN flush = {"todo", "t", "tc"} /\ flush.t \in Nat /\ flush.tc \in Nat
    BY TodoFacts
  <1>2. /\ DOMAIN flush' = {"todo", "t", "tc"} /\ flush'.todo = Tail(flush.todo)
        /\ flush'.t = flush.t /\ flush'.tc = flush.tc
    BY <1>1
  <1>3. CASE /\ flush.todo = <<"s2c", "c2s">> /\ Head(flush.todo) = "s2c"
             /\ Tail(flush.todo) = <<"c2s">>
    <2>1. flush'.todo = <<"c2s">> /\ d = "s2c" /\ <<"c2s">> # <<>>
      BY <1>2, <1>3
    <2>2. Settled("s2c")'
      BY <2>1
    <2> QED BY <1>1, <1>2, <2>1, <2>2 DEF FlushOK
  <1>4. CASE /\ flush.todo = <<"c2s">> /\ Head(flush.todo) = "c2s"
             /\ Tail(flush.todo) = <<>> /\ Settled("s2c")
    <2>1. flush'.todo = <<>> /\ d = "c2s" /\ Other(d) = "s2c"
      BY <1>2, <1>4 DEF Other
    <2>2. Settled("c2s")' /\ half'["s2c"] = half["s2c"]
      BY <2>1
    <2>3. Settled("s2c")'
      BY <1>2, <1>4, <2>2, SettledKeeps
    <2> QED BY <1>1, <1>2, <2>1, <2>2, <2>3 DEF FlushOK
  <1> QED BY <1>3, <1>4, TodoFacts

\* LastSeen does not change when no half was seen.
LEMMA LastSeenKeeps ==
    ASSUME NEW d \in Dirs, half'[Other(d)] = half[Other(d)],
           half'[d].lastSeen = half[d].lastSeen
    PROVE  LastSeen' = LastSeen
  <1>1. Dirs = {d, Other(d)}
    BY OtherFacts
  <1>2. \A e \in Dirs : half'[e].lastSeen = half[e].lastSeen
    BY <1>1
  <1> QED BY <1>2, LastSeenSame

\* cleanSG frees what is not kept and makes pages of a live packet that is.
LEMMA CleanKeeps ==
    ASSUME AssemblerInv, NEW keep \in Keeps, NEW stale, CleanSG(keep, stale)
    PROVE  AssemblerInv'
  <1>1. /\ HalvesOK /\ Counted /\ FlushOK /\ CompletedOnce /\ sg # NoSG /\ sg' = NoSG
        /\ UNCHANGED flush /\ used \in Int
    BY DEF AssemblerInv, CleanSG, Counted
  <1>2. PICK d \in Dirs : d = sg.dir
    BY <1>1 DEF Counted, IsSG
  <1>3. PICK all : all = sg.all
    OBVIOUS
  <1>4. IsBatch(all) /\ OneLive(all) /\ sg.nextSeq \in Int /\ ~half[d].closed
    BY <1>1, <1>2, <1>3 DEF Counted, IsSG
  <1>5. PICK n \in Nat : n = Len(all)
    BY <1>4, SeqFacts DEF IsBatch
  <1>6. keep \in Int
    BY Constants
  <1>7. PICK kept : kept = Kept(all, keep, stale)
    OBVIOUS
  <1>8. kept.from \in 1..(Len(all) + 1) /\ IsQueue(kept.new)
    BY <1>4, <1>6, <1>7, KeptIs
  <1>9. PICK f : f = kept.from
    OBVIOUS
  <1>10. PICK freed \in Int, was \in Int, total \in Int :
            /\ freed = Pages(SubSeq(all, 1, f - 1)) /\ was = Pages(SubSeq(all, f, Len(all)))
            /\ total = Pages(all) /\ freed + was = total
    <2>1. f \in 1..(Len(all) + 1)
      BY <1>8, <1>9
    <2>2. /\ Pages(SubSeq(all, 1, f - 1)) + Pages(SubSeq(all, f, Len(all))) = Pages(all)
          /\ Pages(SubSeq(all, 1, f - 1)) \in Int /\ Pages(SubSeq(all, f, Len(all))) \in Int
          /\ Pages(all) \in Int
      BY <1>4, <2>1, PagesSplit
    <2> QED BY <2>2, Zenon
  <1>11. PICK l \in Nat : l = Len(kept.new)
    BY <1>8, SeqFacts DEF IsQueue, IsBatch
  <1>12. IsHalf(half[d])
    BY <1>1 DEF HalvesOK
  <1>13. PICK a \in Nat, q \in Nat : a = Held(half[Other(d)]) /\ q = Len(half[d].queue)
    BY <1>1, <1>12, HeldNat, SumOfBoth
  <1>14. PICK w \in Int : w = used
    BY <1>1, Zenon
  <1>15. w >= a + q + total
    BY <1>1, <1>2, <1>3, <1>10, <1>13, <1>14 DEF Counted
  <1>16. PICK u \in Int : u = w - freed + l - was
    OBVIOUS
  <1>17. u >= a + q + l
    <2>1. freed + was = total
      BY <1>10, Zenon
    <2> QED BY <1>15, <1>16, <2>1
  <1>18. PICK next \in Int : next = IF sg.fin THEN Add(sg.nextSeq, 1) ELSE sg.nextSeq
    <2>1. 1 \in Int
      OBVIOUS
    <2>2. Add(sg.nextSeq, 1) \in Int
      BY <1>4, <2>1, NumberFacts, Zenon
    <2> QED BY <1>4, <2>2, Zenon
  <1>19. PICK bytes : bytes = Bytes(all)
    OBVIOUS
  <1>20. PICK upTo : upTo = IF Len(bytes) > Len(sg.saved) THEN Last(bytes) + 1 ELSE half[d].upTo
    OBVIOUS
  <1>21. PICK asked : asked = IF keep < 0 THEN <<>> ELSE SubSeq(bytes, keep + 1, Len(bytes))
    OBVIOUS
  <1>22. PICK pages : pages = half[d].pages - freed
    OBVIOUS
  <1>23. PICK h : h = [half[d] EXCEPT !.saved = kept.new, !.pages = pages, !.nextSeq = next,
                                      !.upTo = upTo, !.asked = asked]
    OBVIOUS
  <1>24. /\ DOMAIN h = HalfFields /\ h.nextSeq = next /\ h.queue = half[d].queue
         /\ h.saved = kept.new /\ h.closed = half[d].closed /\ h.lastSeen = half[d].lastSeen
    BY <1>12, <1>23 DEF IsHalf, HalfFields
  <1>25. IsHalf(h)
    BY <1>8, <1>12, <1>18, <1>24 DEF IsHalf
  <1>26. Held(h) = q + l
    BY <1>11, <1>13, <1>24 DEF Held
  <1>27. \/ closeHalfConnection(d, h, u)
         \/ half' = [half EXCEPT ![d] = h] /\ used' = u /\ UNCHANGED completed
    <2>1. h = [half[d] EXCEPT
                    !.saved = kept.new, !.pages = @ - freed,
                    !.nextSeq = IF sg.fin THEN Add(sg.nextSeq, 1) ELSE sg.nextSeq,
                    !.upTo = IF Len(bytes) > Len(sg.saved) THEN Last(bytes) + 1 ELSE @,
                    !.asked = IF keep < 0 THEN <<>> ELSE SubSeq(bytes, keep + 1, Len(bytes))]
      BY <1>18, <1>20, <1>21, <1>22, <1>23, Zenon
    <2>2. u = used - freed + Len(kept.new) - was
      BY <1>11, <1>14, <1>16, Zenon
    <2> QED BY <1>2, <1>3, <1>7, <1>9, <1>10, <1>19, <2>1, <2>2, ZenonT(60) DEF CleanSG
  <1>28. /\ HalvesOK' /\ CompletedOnce' /\ half'[Other(d)] = half[Other(d)]
         /\ half'[d].lastSeen = half[d].lastSeen /\ used' \in Int
         /\ used' >= Held(half'["s2c"]) + Held(half'["c2s"])
    <2>1. CASE closeHalfConnection(d, h, u)
      <3>1. u >= Held(h) + Held(half[Other(d)])
        BY <1>13, <1>17, <1>26
      <3>2. /\ HalvesOK' /\ CompletedOnce' /\ half'[Other(d)] = half[Other(d)]
            /\ half'[d].lastSeen = h.lastSeen /\ used' \in Int
            /\ used' >= Held(half'["s2c"]) + Held(half'["c2s"])
        BY <1>1, <1>4, <1>25, <2>1, <3>1, CloseStep
      <3> QED BY <1>24, <3>2
    <2>2. CASE half' = [half EXCEPT ![d] = h] /\ used' = u /\ UNCHANGED completed
      <3>1. HalvesOK' /\ half'[d] = h /\ half'[Other(d)] = half[Other(d)]
        BY <1>1, <1>25, <2>2, HalfChanges
      <3>2. CompletedOnce'
        BY <1>1, <1>24, <2>2, <3>1, CompletedSame
      <3>3. (d = "s2c" /\ Other(d) = "c2s") \/ (d = "c2s" /\ Other(d) = "s2c")
        BY DEF Dirs, Other
      <3>4. Held(half'[d]) = q + l /\ Held(half'[Other(d)]) = a
        BY <1>13, <1>26, <3>1
      <3>5. used' >= Held(half'["s2c"]) + Held(half'["c2s"])
        BY <1>17, <2>2, <3>3, <3>4
      <3> QED BY <1>24, <2>2, <3>1, <3>2, <3>5
    <2> QED BY <1>27, <2>1, <2>2
  <1>29. Counted'
    BY <1>1, <1>28 DEF Counted
  <1>30. LastSeen' = LastSeen
    BY <1>28, LastSeenKeeps
  <1>31. flush # NoFlush => flush.todo # <<>> /\ Head(flush.todo) = d
    BY <1>1, <1>2 DEF FlushOK
  <1>32. FlushOK'
    BY <1>1, <1>28, <1>30, <1>31, FlushStays
  <1> QED BY <1>28, <1>29, <1>32 DEF AssemblerInv

\* A flush begins with both halves to do.
LEMMA StartFlushKeeps ==
    ASSUME AssemblerInv, NEW t \in Nat, NEW tc \in Nat, StartFlush(t, tc)
    PROVE  AssemblerInv'
  <1>1. /\ flush' = [todo |-> <<"s2c", "c2s">>, t |-> t, tc |-> tc]
        /\ UNCHANGED <<half, used, sg, completed>> /\ sg = NoSG
    BY DEF StartFlush
  <1>2. HalvesOK' /\ Counted' /\ CompletedOnce'
    BY <1>1 DEF AssemblerInv, HalvesOK, Counted, CompletedOnce
  <1>3. /\ DOMAIN flush' = {"todo", "t", "tc"} /\ flush'.todo = <<"s2c", "c2s">>
        /\ flush'.t = t /\ flush'.tc = tc /\ <<"s2c", "c2s">> # <<>>
    BY <1>1
  <1>4. FlushOK'
    BY <1>1, <1>3 DEF FlushOK
  <1> QED BY <1>2, <1>4 DEF AssemblerInv

\* skipFlush moves pages to a ScatterGather.
LEMMA SkipFlushKeeps ==
    ASSUME AssemblerInv, NEW d \in Dirs, SkipFlush(d)
    PROVE  AssemblerInv'
  <1>1. /\ HalvesOK /\ Counted /\ FlushOK /\ CompletedOnce /\ sg = NoSG /\ used \in Int
        /\ UNCHANGED <<flush, completed>> /\ ~half[d].closed /\ half[d].queue # <<>>
        /\ flush # NoFlush /\ flush.todo # <<>> /\ Head(flush.todo) = d
    BY DEF AssemblerInv, SkipFlush, InFlush, Counted
  <1>2. IsHalf(half[d])
    BY <1>1 DEF HalvesOK
  <1>3. PICK o : o = half[d]
    OBVIOUS
  <1>4. PICK c, tail : c = Head(o.queue) /\ tail = Tail(o.queue)
    OBVIOUS
  <1>5. IsQueue(o.queue) /\ IsHalf(o) /\ o.queue # <<>>
    BY <1>1, <1>2, <1>3 DEF IsHalf
  <1>6. IsPage(c) /\ ~c.live /\ IsQueue(tail) /\ Len(tail) = Len(o.queue) - 1
    BY <1>4, <1>5, HeadTail
  <1>7. PICK g : g = WithQueue(o, tail)
    OBVIOUS
  <1>8. /\ IsHalf(g) /\ g.lastSeen = o.lastSeen /\ g.closed = o.closed
        /\ Held(g) = Len(tail) + Len(o.saved)
    <2>1. IsHalf(o) /\ IsQueue(tail)
      BY <1>5, <1>6, Zenon
    <2> QED BY <1>7, <2>1, TailQueue
  <1>9. g = [half[d] EXCEPT !.queue = Tail(@)]
    BY <1>3, <1>4, <1>7, Zenon DEF WithQueue
  <1>10. buildSG(d, g, used, c, FALSE)
    BY <1>3, <1>4, <1>9 DEF SkipFlush
  <1>11. /\ HalvesOK' /\ half'[Other(d)] = half[Other(d)]
         /\ half'[d].lastSeen = g.lastSeen /\ half'[d].closed = g.closed
         /\ IsSG(sg') /\ sg'.dir = d /\ used' \in Int
         /\ used' = used - Held(g) + Len(half'[d].queue) + Pages(sg'.all)
                      - (IF c.live THEN 0 ELSE 1)
    BY <1>1, <1>6, <1>8, <1>10, BuildStep
  <1>12. PICK q \in Nat, s \in Nat : q = Len(o.queue) /\ s = Len(o.saved)
    BY <1>5, HeldNat
  <1>13. PICK k \in Nat, m \in Int : k = Len(half'[d].queue) /\ m = Pages(sg'.all)
    <2>1. IsHalf(half'[d])
      BY <1>11 DEF HalvesOK
    <2>2. Pages(sg'.all) \in Int
      BY <1>11, PagesIs DEF IsSG
    <2> QED BY <2>1, <2>2, HeldNat
  <1>14. PICK u \in Int, v \in Int : u = used /\ v = used'
    BY <1>1, <1>11, Zenon
  <1>15. Held(g) = q - 1 + s /\ Held(half[d]) = q + s
    BY <1>3, <1>6, <1>8, <1>12 DEF Held
  <1>16. v = u - (q - 1 + s) + k + m - 1
    BY <1>6, <1>11, <1>13, <1>14, <1>15
  <1>17. v - (k + m) = u - (q + s)
    BY <1>16
  <1>18. used' - (Len(half'[d].queue) + Pages(sg'.all)) = used - Held(half[d])
    BY <1>13, <1>14, <1>15, <1>17, Zenon
  <1>19. half'[d].closed = half[d].closed /\ half'[d].lastSeen = half[d].lastSeen
    BY <1>3, <1>8, <1>11, Zenon
  <1>20. Counted'
    BY <1>1, <1>11, <1>18, <1>19, CountedKeeps
  <1>21. CompletedOnce'
    BY <1>1, <1>11, <1>19, CompletedSame
  <1>22. LastSeen' = LastSeen
    BY <1>11, <1>19, LastSeenKeeps
  <1>23. FlushOK'
    BY <1>1, <1>11, <1>22, FlushStays
  <1> QED BY <1>11, <1>20, <1>21, <1>23 DEF AssemblerInv

\* A flush closes an idle half.
LEMMA FlushCloseKeeps ==
    ASSUME AssemblerInv, NEW d \in Dirs, FlushClose(d)
    PROVE  AssemblerInv'
  <1>1. /\ HalvesOK /\ Counted /\ FlushOK /\ CompletedOnce /\ sg = NoSG /\ used \in Int
        /\ UNCHANGED sg /\ ~half[d].closed /\ closeHalfConnection(d, half[d], used)
        /\ flush' = [flush EXCEPT !.todo = Tail(@)]
        /\ flush # NoFlush /\ flush.todo # <<>> /\ Head(flush.todo) = d
    BY DEF AssemblerInv, FlushClose, InFlush, Counted
  <1>2. IsHalf(half[d])
    BY <1>1 DEF HalvesOK
  <1>3. used >= Held(half[d]) + Held(half[Other(d)])
    BY <1>1, SumOfBoth DEF Counted
  <1>4. /\ HalvesOK' /\ CompletedOnce' /\ half'[Other(d)] = half[Other(d)]
        /\ half'[d].closed /\ half'[d].lastSeen = half[d].lastSeen /\ used' \in Int
        /\ used' >= Held(half'["s2c"]) + Held(half'["c2s"])
    BY <1>1, <1>2, <1>3, CloseStep
  <1>5. Counted'
    BY <1>1, <1>4 DEF Counted
  <1>6. LastSeen' = LastSeen
    BY <1>4, LastSeenKeeps
  <1>7. Settled(d)'
    BY <1>4 DEF Settled
  <1>8. sg' = NoSG
    BY <1>1
  <1>9. FlushOK'
    BY <1>1, <1>4, <1>6, <1>7, <1>8, FlushGoesOn
  <1> QED BY <1>4, <1>5, <1>9 DEF AssemblerInv

\* A flush leaves a half only when nothing old is left in it.
LEMMA FlushLeaveKeeps ==
    ASSUME AssemblerInv, NEW d \in Dirs, FlushLeave(d)
    PROVE  AssemblerInv'
  <1>1. /\ HalvesOK /\ Counted /\ FlushOK /\ CompletedOnce /\ sg = NoSG
        /\ UNCHANGED <<half, used, sg, completed>>
        /\ flush' = [flush EXCEPT !.todo = Tail(@)]
        /\ flush # NoFlush /\ flush.todo # <<>> /\ Head(flush.todo) = d
    BY DEF AssemblerInv, FlushLeave, InFlush
  <1>2. HalvesOK' /\ Counted' /\ CompletedOnce' /\ sg' = NoSG
    BY <1>1 DEF HalvesOK, Counted, CompletedOnce
  <1>3. half'[Other(d)] = half[Other(d)] /\ LastSeen' = LastSeen
    BY <1>1 DEF LastSeen
  <1>4. DOMAIN flush = {"todo", "t", "tc"} /\ flush.t \in Nat /\ flush.tc \in Nat
    BY <1>1, TodoFacts
  <1>5. flush'.t = flush.t /\ flush'.tc = flush.tc
    BY <1>1, <1>4
  <1>6. Settled(d)
    <2>1. CASE half[d].closed
      BY <2>1 DEF Settled
    <2>2. CASE half[d].queue # <<>> /\ Head(half[d].queue).seen >= flush.t
      <3>1. IsQueue(half[d].queue)
        BY <1>1 DEF HalvesOK, IsHalf
      <3>2. IsPage(Head(half[d].queue))
        BY <2>2, <3>1, HeadTail
      <3>3. PICK s \in Times : s = Head(half[d].queue).seen
        BY <3>2 DEF IsPage
      <3>4. s \in Nat /\ s < Forever /\ Forever \in Nat
        BY ForeverIs
      <3>5. flush.t # Forever
        BY <1>4, <2>2, <3>3, <3>4
      <3> QED BY <2>2, <3>5 DEF Settled
    <2>3. CASE half[d].queue = <<>> /\ ~MustClose(d)
      <3>1. LastSeen \in Nat
        BY <1>1, LastSeenNat
      <3>2. ~(LastSeen < flush.tc)
        BY <2>3 DEF MustClose
      <3>3. PICK a \in Nat, b \in Nat : a = LastSeen /\ b = flush.tc
        BY <1>4, <3>1, Zenon
      <3>4. a >= b
        BY <3>2, <3>3
      <3> QED BY <2>3, <3>3, <3>4 DEF Settled
    <2> QED BY <2>1, <2>2, <2>3 DEF FlushLeave
  <1>7. Settled(d)'
    BY <1>1, <1>3, <1>5, <1>6, SettledKeeps
  <1>8. FlushOK'
    BY <1>1, <1>2, <1>3, <1>7, FlushGoesOn
  <1> QED BY <1>2, <1>8 DEF AssemblerInv

\* The end of a flush.
LEMMA FlushReturnKeeps ==
    ASSUME AssemblerInv, FlushReturn
    PROVE  AssemblerInv'
  <1>1. flush' = NoFlush /\ UNCHANGED <<half, used, sg, completed>>
    BY DEF FlushReturn
  <1>2. HalvesOK' /\ Counted' /\ CompletedOnce'
    BY <1>1 DEF AssemblerInv, HalvesOK, Counted, CompletedOnce
  <1>3. FlushOK'
    BY <1>1 DEF FlushOK
  <1> QED BY <1>2, <1>3 DEF AssemblerInv

\* AssemblerInv is an inductive invariant.
LEMMA AssemblerInit == Init => AssemblerInv
  <1> SUFFICES ASSUME Init
               PROVE  AssemblerInv
    OBVIOUS
  <1>1. /\ half = [d \in Dirs |-> NewHalf] /\ used = 0 /\ sg = NoSG /\ flush = NoFlush
        /\ completed = 0
    BY DEF Init
  <1>2. PICK g : g = NewHalf
    OBVIOUS
  <1>3. /\ DOMAIN g = HalfFields /\ g.nextSeq = -1 /\ g.queue = <<>> /\ g.saved = <<>>
        /\ g.closed = FALSE /\ g.lastSeen = 0
    BY <1>2 DEF NewHalf, HalfFields, invalidSequence
  <1>4. IsHalf(g)
    <2>1. IsQueue(g.queue) /\ IsQueue(g.saved)
      BY <1>3, EmptyQueue, Zenon
    <2>2. -1 \in Int /\ FALSE \in BOOLEAN /\ 0 \in Nat
      OBVIOUS
    <2>3. g.nextSeq \in Int /\ g.closed \in BOOLEAN /\ g.lastSeen \in Nat
      BY <1>3, <2>2, Zenon
    <2> QED BY <1>3, <2>1, <2>3, Zenon DEF IsHalf
  <1>5. /\ DOMAIN half = Dirs /\ \A d \in Dirs : half[d] = g
        /\ "s2c" \in Dirs /\ "c2s" \in Dirs
    BY <1>1, <1>2 DEF Dirs
  <1>6. HalvesOK
    BY <1>4, <1>5 DEF HalvesOK
  <1>7. Held(g) = 0
    BY <1>3, EmptyQueue DEF Held
  <1>8. Counted
    BY <1>1, <1>5, <1>7 DEF Counted
  <1>9. FlushOK
    BY <1>1 DEF FlushOK
  <1>10. ~half["s2c"].closed /\ "s2c" \in Dirs
    BY <1>3, <1>5
  <1>11. CompletedOnce
    BY <1>1, <1>10 DEF CompletedOnce
  <1> QED BY <1>6, <1>8, <1>9, <1>11 DEF AssemblerInv

LEMMA AssemblerStep == AssemblerInv /\ [Next]_vars => AssemblerInv'
  <1> SUFFICES ASSUME AssemblerInv, [Next]_vars
               PROVE  AssemblerInv'
    OBVIOUS
  <1>1. CASE UNCHANGED vars
    BY <1>1 DEF vars, AssemblerInv, HalvesOK, Counted, FlushOK, Settled, LastSeen, CompletedOnce
  <1>2. ASSUME NEW d \in Dirs, NEW t \in Now, Ignore(d, t)
        PROVE  AssemblerInv'
    BY <1>2, IgnoreKeeps DEF Now
  <1>3. ASSUME NEW d \in Dirs, NEW t \in Now, NEW stale \in BOOLEAN, NEW p \in Packets[d],
               Queue(d, p, t, stale)
        PROVE  AssemblerInv'
    <2>1. t \in Times
      BY DEF Now
    <2> QED BY <1>3, <2>1, QueueKeeps
  <1>4. ASSUME NEW d \in Dirs, NEW t \in Now, NEW start \in {FALSE, ForceStart},
               NEW p \in Packets[d], Deliver(d, p, t, start)
        PROVE  AssemblerInv'
    <2>1. t \in Times
      BY DEF Now
    <2> QED BY <1>4, <2>1, DeliverKeeps
  <1>5. ASSUME NEW keep \in Keeps, NEW stale \in BOOLEAN, CleanSG(keep, stale)
        PROVE  AssemblerInv'
    BY <1>5, CleanKeeps
  <1>6. ASSUME NEW t \in Times \cup {Max(Times) + 1}, NEW tc \in {0, t}, FlushWithOptions(t, tc)
        PROVE  AssemblerInv'
    <2>1. t \in Nat /\ tc \in Nat
      BY ForeverIs
    <2>2. StartFlush(t, tc)
      BY <1>6 DEF FlushWithOptions
    <2> QED BY <2>1, <2>2, StartFlushKeeps
  <1>7. CASE FlushAll
    <2>1. Forever \in Nat /\ StartFlush(Forever, Forever)
      BY <1>7, ForeverIs DEF FlushAll
    <2> QED BY <2>1, StartFlushKeeps, Zenon
  <1>8. CASE FlushStep
    BY <1>8, FlushReturnKeeps, SkipFlushKeeps, FlushCloseKeeps, FlushLeaveKeeps DEF FlushStep
  <1> QED BY <1>1, <1>2, <1>3, <1>4, <1>5, <1>6, <1>7, <1>8 DEF Next

LEMMA AssemblerAlways == Spec => []AssemblerInv
  BY AssemblerInit, AssemblerStep, PTL DEF Spec

\* pc.used never counts fewer pages than the two halves hold, so that the limit
\* on the total cannot be outrun: for any packets, limits, page size and parts
\* that the Stream keeps (pageCache, cleanSG, addPending, closeHalfConnection).
THEOREM UsedCoversPages == Spec => []UsedCovers
  <1>1. AssemblerInv => UsedCovers
    <2> SUFFICES ASSUME AssemblerInv, sg = NoSG
                 PROVE  used >= Len(half["s2c"].queue) + Len(half["s2c"].saved)
                                    + Len(half["c2s"].queue) + Len(half["c2s"].saved)
      BY DEF UsedCovers
    <2>1. IsHalf(half["s2c"]) /\ IsHalf(half["c2s"])
      BY DEF AssemblerInv, HalvesOK, Dirs
    <2>2. PICK a \in Nat, b \in Nat, m \in Nat, n \in Nat :
              /\ a = Len(half["s2c"].queue) /\ b = Len(half["s2c"].saved)
              /\ m = Len(half["c2s"].queue) /\ n = Len(half["c2s"].saved)
      BY <2>1, HeldNat
    <2>3. PICK u \in Int : u = used /\ u >= (a + b) + (m + n)
      BY <2>2 DEF AssemblerInv, Counted, Held
    <2>4. u >= a + b + m + n
      BY <2>3
    <2> QED BY <2>2, <2>3, <2>4
  <1> QED BY <1>1, AssemblerAlways, PTL

\* When a flush is done with both halves, each is closed, or its first page is
\* not older than the flush, or it is empty and the connection is not idle; and
\* FlushAll closes both (flushClose, skipFlush).
THEOREM FlushesLeaveNothing == Spec => []FlushLeavesNothingOld
  <1>1. AssemblerInv => FlushLeavesNothingOld
    <2> SUFFICES ASSUME AssemblerInv, flush # NoFlush, flush.todo = <<>>, NEW d \in Dirs
                 PROVE  Settled(d)
      BY DEF FlushLeavesNothingOld, Settled
    <2>1. <<>> # <<"s2c", "c2s">>
      OBVIOUS
    <2>2. Settled("s2c") /\ Settled("c2s")
      BY <2>1 DEF AssemblerInv, FlushOK
    <2> QED BY <2>2 DEF Dirs
  <1> QED BY <1>1, AssemblerAlways, PTL

\* ReassemblyComplete is called when the second half closes and never again,
\* whichever of the halves is closed by a FIN or RST and whichever by a flush
\* (closeHalfConnection).
THEOREM CompletesOnce == Spec => []CompletedOnce
  <1>1. AssemblerInv => CompletedOnce
    BY DEF AssemblerInv
  <1> QED BY <1>1, AssemblerAlways, PTL

-----------------------------------------------------------------------------
(* TCPSimpleFSM.                                                           *)

\* The packets that the two sides send.
Kinds == {{"SYN"}, {"SYN", "ACK"}, {"data", "ACK"}, {"FIN", "ACK"}, {"data", "FIN", "ACK"},
          {"ACK"}, {"RST"}, {"RST", "ACK"}}

\* What a side sends before it is open, and what after its FIN.
Early(p) == "SYN" \in p \/ "RST" \in p
Late(p) == p \cap {"SYN", "data", "FIN"} = {}

\* A state of TCPSimpleFSM, of a side of the connection, and of all of it.
FSM == [state : {"Closed", "SynSent", "Established", "CloseWait", "LastAck", "Reset"},
        dir : Sides]

EndState == [state : {"closed", "synSent", "synRcvd", "open", "gone"},
             fin : BOOLEAN, owes : BOOLEAN]

CheckTypeOK ==
    /\ missing \in BOOLEAN
    /\ fsm \in FSM
    /\ ends \in [Sides -> EndState]
    /\ wire \in [Sides -> Seq(Kinds)]

\* s is not open yet, or is gone, and all it sent since is on its opening.
Opening(s) ==
    /\ ends[s].state # "open"
    /\ \A i \in 1..Len(wire[s]) : Early(wire[s][i])

\* The capture has seen the FIN of s.
Done(s) == ends[s].fin /\ \A i \in 1..Len(wire[s]) : Late(wire[s][i])

\* Nobody has sent a FIN or data before it was open; a client that was not
\* answered only sent SYNs, and a server waits for more than a SYN.
Opens ==
    /\ ends["client"].state \in {"closed", "synSent"} =>
        /\ Opening("server")
        /\ \A i \in 1..Len(wire["client"]) : wire["client"][i] = {"SYN"}
    /\ ends["server"].state \in {"closed", "synRcvd"} => Opening("server")
    /\ ends["server"].state # "synSent" /\ ends["client"].state # "synRcvd"
    /\ \A s \in Sides : ends[s].state \in {"closed", "synSent", "synRcvd"} => ~ends[s].fin

\* The order of what a side sends: its SYNs, and at last its FIN.
Ordered ==
    /\ \A i, j \in 1..Len(wire["client"]) :
            i < j /\ wire["client"][j] = {"SYN"} => wire["client"][i] = {"SYN"}
    /\ \A i \in 1..Len(wire["server"]) : wire["server"][i] # {"SYN"}
    /\ \A i \in 1..Len(wire["client"]) : wire["client"][i] # {"SYN", "ACK"}
    /\ \A s \in Sides : \A i \in 1..Len(wire[s]) : "FIN" \in wire[s][i] =>
        /\ ends[s].fin
        /\ \A j \in (i + 1)..Len(wire[s]) : Late(wire[s][j])

\* While a SYN is on its way the server has not heard more of the client.
SynUnderway ==
    (\E i \in 1..Len(wire["client"]) : wire["client"][i] = {"SYN"}) =>
        /\ Opening("server")
        /\ Opening("client") \/ fsm.state \in {"Established", "Reset"}

\* Nothing was seen, and there is nothing to be seen but a SYN.
Unseen ==
    /\ ends["server"].state = "closed" /\ wire["server"] = <<>>
    /\ Opening("client")
    /\ wire["client"] # <<>> => wire["client"][1] = {"SYN"}
    /\ wire["client"] = <<>> => ends["client"].state = "closed"

\* What the state machine's state tells of the two sides.
Tells ==
    /\ fsm.state = "Closed" /\ ~missing => Unseen \/ (Done("client") /\ Done("server"))
    /\ fsm.state = "SynSent" => fsm.dir = "client" /\ Opening("client") /\ Opening("server")
    /\ fsm.state = "CloseWait" => Done(fsm.dir)
    /\ fsm.state = "LastAck" => Done(Opposite(fsm.dir))
    /\ fsm.state = "LastAck" /\ ~missing => Done(fsm.dir)

\* The inductive invariant.
CheckInv == CheckTypeOK /\ Opens /\ Ordered /\ SynUnderway /\ Tells

-----------------------------------------------------------------------------
(* Packets and transitions.                                                *)

\* What the flags tell apart.
LEMMA Flags ==
    ASSUME NEW p \in Kinds
    PROVE  /\ p = {"SYN"} <=> "SYN" \in p /\ "ACK" \notin p
           /\ p = {"SYN", "ACK"} <=> "SYN" \in p /\ "ACK" \in p
           /\ p = {"ACK"} => Late(p)
           /\ "SYN" \in p => "RST" \notin p /\ "FIN" \notin p /\ "data" \notin p
           /\ "RST" \in p => "FIN" \notin p /\ "data" \notin p
           /\ "FIN" \in p \/ "data" \in p => "ACK" \in p
           /\ "RST" \in p => Late(p)
           /\ ~Early(p) => "ACK" \in p
           /\ Late(p) <=> "SYN" \notin p /\ "data" \notin p /\ "FIN" \notin p
  <1>1. CASE p = {"SYN"} BY <1>1 DEF Early, Late
  <1>2. CASE p = {"SYN", "ACK"} BY <1>2 DEF Early, Late
  <1>3. CASE p = {"data", "ACK"} BY <1>3 DEF Early, Late
  <1>4. CASE p = {"FIN", "ACK"} BY <1>4 DEF Early, Late
  <1>5. CASE p = {"data", "FIN", "ACK"} BY <1>5 DEF Early, Late
  <1>6. CASE p = {"ACK"} BY <1>6 DEF Early, Late
  <1>7. CASE p = {"RST"} BY <1>7 DEF Early, Late
  <1>8. CASE p = {"RST", "ACK"} BY <1>8 DEF Early, Late
  <1> QED BY <1>1, <1>2, <1>3, <1>4, <1>5, <1>6, <1>7, <1>8 DEF Kinds

\* There are two sides.
LEMMA OppositeSide ==
    ASSUME NEW s \in Sides
    PROVE  Opposite(s) \in Sides /\ Opposite(s) # s /\ Opposite(Opposite(s)) = s
  BY DEF Sides, Opposite

\* The states that a packet leads to.
LEMMA Transition ==
    ASSUME NEW t \in FSM, NEW p \in Kinds, NEW dir \in Sides
    PROVE  /\ t.state = "Closed" =>
                accept(t, p, dir) = IF p = {"SYN"} THEN At("SynSent", dir) ELSE Refused
           /\ t.state = "Reset" => accept(t, p, dir) = Refused
           /\ t.state \notin {"Closed", "Reset"} /\ "RST" \in p =>
                accept(t, p, dir) = At("Reset", t.dir)
           /\ t.state = "SynSent" /\ "RST" \notin p =>
                accept(t, p, dir) =
                    IF p = {"SYN", "ACK"} /\ dir = Opposite(t.dir) THEN At("Established", t.dir)
                    ELSE IF p = {"SYN"} /\ dir = t.dir THEN t ELSE Refused
           /\ t.state = "Established" /\ "RST" \notin p =>
                accept(t, p, dir) = IF "FIN" \in p THEN At("CloseWait", dir) ELSE t
           /\ t.state = "CloseWait" /\ "RST" \notin p => accept(t, p, dir) = closing(t, p, dir)
           /\ t.state = "LastAck" /\ "RST" \notin p =>
                accept(t, p, dir) = IF "ACK" \in p /\ dir = t.dir THEN At("Closed", t.dir) ELSE Refused
  <1>0. /\ p = {"SYN"} <=> "SYN" \in p /\ "ACK" \notin p
        /\ p = {"SYN", "ACK"} <=> "SYN" \in p /\ "ACK" \in p
    BY Flags
  <1>1. {"SYN", "ACK"} \subseteq p <=> "SYN" \in p /\ "ACK" \in p
    OBVIOUS
  <1>2. CASE t.state = "Closed" BY <1>0, <1>1, <1>2 DEF accept
  <1>3. CASE t.state = "Reset" BY <1>0, <1>1, <1>3 DEF accept
  <1>4. CASE t.state = "SynSent" BY <1>0, <1>1, <1>4 DEF accept
  <1>5. CASE t.state = "Established" BY <1>0, <1>1, <1>5 DEF accept
  <1>6. CASE t.state = "CloseWait" BY <1>0, <1>1, <1>6 DEF accept
  <1>7. CASE t.state = "LastAck" BY <1>0, <1>1, <1>7 DEF accept
  <1> QED BY <1>2, <1>3, <1>4, <1>5, <1>6, <1>7 DEF FSM

-----------------------------------------------------------------------------
(* The two sides send.                                                     *)

\* Before the first packet.
LEMMA CheckInitInv == CheckInit => CheckInv
  <1> SUFFICES ASSUME CheckInit PROVE CheckInv
    OBVIOUS
  <1> USE DEF CheckInit, Sides, Side, At
  <1>1. wire["client"] = <<>> /\ wire["server"] = <<>>
    OBVIOUS
  <1>2. CheckTypeOK
    <2>1. \A state \in {"closed", "synSent", "synRcvd", "open", "gone"} :
            \A fin, owes \in BOOLEAN : Side(state, fin, owes) \in EndState
      BY DEF EndState
    <2>2. CASE ends = [s \in Sides |-> Side("closed", FALSE, FALSE)]
      <3>1. Side("closed", FALSE, FALSE) \in EndState
        BY DEF EndState
      <3> HIDE DEF Side
      <3>2. ends \in [Sides -> EndState]
        BY <2>2, <3>1
      <3> QED BY <3>2 DEF CheckTypeOK, FSM
    <2>3. CASE ends = [s \in Sides |-> Side(IF s = "client" THEN "synSent" ELSE "synRcvd",
                                            FALSE, FALSE)]
      <3>1. \A s \in Sides :
                Side(IF s = "client" THEN "synSent" ELSE "synRcvd", FALSE, FALSE) \in EndState
        BY DEF EndState
      <3> HIDE DEF Side
      <3>2. ends \in [Sides -> EndState]
        BY <2>3, <3>1
      <3> QED BY <3>2 DEF CheckTypeOK, FSM
    <2>4. CASE ends \in [Sides -> {Side("open", fin, owes) : fin, owes \in BOOLEAN}]
      <3>1. {Side("open", fin, owes) : fin, owes \in BOOLEAN} \subseteq EndState
        BY <2>1
      <3> QED BY <2>4, <3>1 DEF CheckTypeOK, FSM
    <2> QED BY <2>2, <2>3, <2>4
  <1>3. Opens
    BY <1>1 DEF Opens, Opening
  <1>4. Ordered
    BY <1>1 DEF Ordered
  <1>5. SynUnderway
    BY <1>1 DEF SynUnderway
  <1>6. Tells
    BY <1>1 DEF Tells, Unseen, Opening
  <1> QED BY <1>2, <1>3, <1>4, <1>5, <1>6 DEF CheckInv

\* A side that sends p and goes on as e: what the invariant needs of it.
LEMMA SendKeeps ==
    ASSUME CheckInv, NEW s \in Sides, NEW p \in Kinds, NEW e \in EndState,
           Send(s, p), ends' = [ends EXCEPT ![s] = e],
           ends[s].fin => e.fin /\ Late(p),
           "FIN" \in p => e.fin,
           p = {"SYN"} => s = "client" /\ ends[s].state \in {"closed", "synSent"}
                          /\ e.state = "synSent",
           p = {"SYN", "ACK"} => s = "server",
           ends[s].state # "open" => Early(p) /\ e.state # "open",
           e.state \in {"closed", "synSent"} => p = {"SYN"},
           e.state = "synRcvd" => s = "server" /\ ends[s].state = "synRcvd",
           e.state \in {"closed", "synSent", "synRcvd"} => ~e.fin,
           ends[s].state = "closed" => p = {"SYN"}
    PROVE  CheckInv'
  <1>0. CheckTypeOK /\ Opens /\ Ordered /\ SynUnderway /\ Tells
    BY DEF CheckInv
  <1>1. /\ wire \in [Sides -> Seq(Kinds)] /\ ends \in [Sides -> EndState]
        /\ missing \in BOOLEAN /\ fsm \in FSM
    BY <1>0 DEF CheckTypeOK, EndState, FSM
  <1>2. /\ wire' = [wire EXCEPT ![s] = Append(@, p)]
        /\ missing' = missing /\ fsm' = fsm /\ seen' = seen
    BY DEF Send
  <1>3. CheckTypeOK'
    <2>1. wire' \in [Sides -> Seq(Kinds)] /\ ends' \in [Sides -> EndState]
      BY <1>1, <1>2
    <2> QED BY <1>1, <1>2, <2>1 DEF CheckTypeOK, EndState, FSM
  <1>4. /\ ends'[s] = e
        /\ Len(wire'[s]) = Len(wire[s]) + 1 /\ wire'[s][Len(wire[s]) + 1] = p
        /\ \A i \in 1..Len(wire[s]) : wire'[s][i] = wire[s][i]
        /\ Len(wire[s]) \in Nat /\ wire[s] \in Seq(Kinds)
        /\ \A r \in Sides : r # s => ends'[r] = ends[r] /\ wire'[r] = wire[r]
    BY <1>1, <1>2
  <1>5. \A i \in 1..Len(wire'[s]) : i \in 1..Len(wire[s]) \/ i = Len(wire[s]) + 1
    BY <1>4
  <1>6. "client" \in Sides /\ "server" \in Sides /\ \A r \in Sides : r \in {"client", "server"}
    BY DEF Sides
  <1>7. \A r \in Sides : Opening(r) => Opening(r)'
    BY <1>4, <1>5 DEF Opening
  <1>8. \A r \in Sides : Done(r) => Done(r)'
    BY <1>4, <1>5 DEF Done
  <1>9. Opens'
    <2>1. ASSUME ends'["client"].state \in {"closed", "synSent"}
          PROVE  /\ Opening("server")'
                 /\ \A i \in 1..Len(wire'["client"]) : wire'["client"][i] = {"SYN"}
      <3>1. ends["client"].state \in {"closed", "synSent"} /\ (s = "client" => p = {"SYN"})
        BY <1>4, <1>6, <2>1
      <3>2. Opening("server") /\ \A i \in 1..Len(wire["client"]) : wire["client"][i] = {"SYN"}
        BY <1>0, <3>1 DEF Opens
      <3>3. Opening("server")'
        BY <1>6, <1>7, <3>2
      <3>4. \A i \in 1..Len(wire'["client"]) : wire'["client"][i] = {"SYN"}
        <4>1. CASE s = "client"
          BY <1>4, <1>5, <3>1, <3>2, <4>1
        <4>2. CASE s # "client"
          BY <1>4, <1>6, <3>2, <4>2
        <4> QED BY <4>1, <4>2
      <3> QED BY <3>3, <3>4
    <2>2. ends'["server"].state \in {"closed", "synRcvd"} => Opening("server")'
      <3>1. ends'["server"].state \in {"closed", "synRcvd"} =>
                ends["server"].state \in {"closed", "synRcvd"}
        BY <1>4, <1>6
      <3> QED BY <1>0, <1>6, <1>7, <3>1 DEF Opens
    <2>3. ends'["server"].state # "synSent" /\ ends'["client"].state # "synRcvd"
      BY <1>0, <1>4, <1>6 DEF Opens
    <2>4. \A r \in Sides : ends'[r].state \in {"closed", "synSent", "synRcvd"} => ~ends'[r].fin
      BY <1>0, <1>4 DEF Opens
    <2> QED BY <2>1, <2>2, <2>3, <2>4 DEF Opens
  <1>10. Ordered'
    <2>1. ASSUME NEW i \in 1..Len(wire'["client"]), NEW j \in 1..Len(wire'["client"]),
                 i < j, wire'["client"][j] = {"SYN"}
          PROVE  wire'["client"][i] = {"SYN"}
      <3>1. CASE s = "client"
        <4>1. CASE j \in 1..Len(wire[s])
          BY <1>0, <1>4, <2>1, <3>1, <4>1, SMTT(30) DEF Ordered
        <4>2. CASE j = Len(wire[s]) + 1
          <5>1. p = {"SYN"} /\ i \in 1..Len(wire[s])
            BY <1>4, <2>1, <3>1, <4>2
          <5> QED BY <1>0, <1>4, <3>1, <5>1 DEF Opens
        <4> QED BY <1>5, <3>1, <4>1, <4>2
      <3>2. CASE s # "client"
        BY <1>0, <1>4, <1>6, <2>1, <3>2, SMTT(30) DEF Ordered
      <3> QED BY <3>1, <3>2
    <2>2. \A i \in 1..Len(wire'["server"]) : wire'["server"][i] # {"SYN"}
      BY <1>0, <1>4, <1>5, <1>6 DEF Ordered
    <2>3. \A i \in 1..Len(wire'["client"]) : wire'["client"][i] # {"SYN", "ACK"}
      BY <1>0, <1>4, <1>5, <1>6 DEF Ordered
    <2>4. ASSUME NEW r \in Sides, NEW i \in 1..Len(wire'[r]), "FIN" \in wire'[r][i]
          PROVE  ends'[r].fin /\ \A j \in (i + 1)..Len(wire'[r]) : Late(wire'[r][j])
      <3>1. CASE r = s
        <4>1. CASE i \in 1..Len(wire[s])
          <5>1. ends[s].fin /\ \A j \in (i + 1)..Len(wire[s]) : Late(wire[s][j])
            BY <1>0, <1>4, <2>4, <3>1, <4>1 DEF Ordered
          <5>2. ASSUME NEW j \in (i + 1)..Len(wire'[s]) PROVE Late(wire'[s][j])
            <6>1. CASE j \in 1..Len(wire[s])
              BY <1>4, <4>1, <5>1, <6>1
            <6>2. CASE j = Len(wire[s]) + 1
              BY <1>4, <5>1, <6>2
            <6> QED BY <1>4, <4>1, <6>1, <6>2
          <5> QED BY <1>4, <3>1, <5>1, <5>2
        <4>2. CASE i = Len(wire[s]) + 1
          BY <1>4, <2>4, <3>1, <4>2
        <4> QED BY <1>5, <3>1, <4>1, <4>2
      <3>2. CASE r # s
        BY <1>0, <1>4, <2>4, <3>2 DEF Ordered
      <3> QED BY <3>1, <3>2
    <2> QED BY <2>1, <2>2, <2>3, <2>4 DEF Ordered
  <1>11. SynUnderway'
    <2> SUFFICES ASSUME NEW i \in 1..Len(wire'["client"]), wire'["client"][i] = {"SYN"}
                 PROVE  /\ Opening("server")'
                        /\ Opening("client")' \/ fsm'.state \in {"Established", "Reset"}
      BY DEF SynUnderway
    <2>1. CASE i \in 1..Len(wire["client"]) /\ wire["client"][i] = {"SYN"}
      BY <1>0, <1>2, <1>6, <1>7, <2>1 DEF SynUnderway
    <2>2. CASE s = "client" /\ p = {"SYN"}
      <3>1. Opening("server") /\ \A k \in 1..Len(wire["client"]) : wire["client"][k] = {"SYN"}
        BY <1>0, <2>2 DEF Opens
      <3>2. Opening("client")
        BY <2>2, <3>1 DEF Opening, Early
      <3> QED BY <1>6, <1>7, <3>1, <3>2
    <2> QED BY <1>4, <1>5, <1>6, <2>1, <2>2
  <1>12. Unseen => Unseen'
    <2> SUFFICES ASSUME Unseen PROVE Unseen'
      OBVIOUS
    <2>1. s = "client"
      BY <1>6 DEF Unseen
    <2>2. ends'["server"].state = "closed" /\ wire'["server"] = <<>>
      BY <1>4, <1>6, <2>1 DEF Unseen
    <2>3. Opening("client")'
      BY <1>6, <1>7 DEF Unseen
    <2>4. wire'["client"] # <<>> /\ wire'["client"][1] = {"SYN"}
      <3>1. CASE wire["client"] = <<>>
        BY <1>4, <2>1, <3>1 DEF Unseen
      <3>2. CASE wire["client"] # <<>>
        BY <1>4, <2>1, <3>2 DEF Unseen
      <3> QED BY <3>1, <3>2
    <2> QED BY <2>2, <2>3, <2>4 DEF Unseen
  <1>13. Tells'
    <2>1. fsm.dir \in Sides /\ Opposite(fsm.dir) \in Sides
      BY <1>1, OppositeSide DEF FSM
    <2> QED BY <1>0, <1>2, <1>6, <1>7, <1>8, <1>12, <2>1 DEF Tells
  <1> QED BY <1>3, <1>9, <1>10, <1>11, <1>13 DEF CheckInv

\* Every step of a side that sends keeps the invariant.
LEMMA SendsKeep ==
    ASSUME CheckInv,
           SendSyn \/ SendSynAck \/ \E s \in Sides : SendData(s) \/ SendAck(s) \/ SendRst(s)
    PROVE  CheckInv' /\ UNCHANGED <<fsm, seen>>
  <1>1. /\ ends \in [Sides -> EndState] /\ Opens
        /\ "client" \in Sides /\ "server" \in Sides /\ \A s \in Sides : s \in {"client", "server"}
    BY DEF CheckInv, CheckTypeOK, Sides
  <1>2. \A s \in Sides : ends[s] \in EndState
    BY <1>1
  <1>3. /\ {"SYN"} \in Kinds /\ {"SYN", "ACK"} \in Kinds /\ {"ACK"} \in Kinds
        /\ {"data", "ACK"} \in Kinds /\ {"FIN", "ACK"} \in Kinds /\ {"data", "FIN", "ACK"} \in Kinds
        /\ {"RST"} \in Kinds /\ {"RST", "ACK"} \in Kinds
    BY DEF Kinds
  <1>4. CASE SendSyn
    <2>1. PICK e : e = [ends["client"] EXCEPT !.state = "synSent"]
      OBVIOUS
    <2>2. /\ e \in EndState /\ e.state = "synSent" /\ e.fin = ends["client"].fin
      BY <1>1, <1>2, <2>1 DEF EndState
    <2>3. /\ Send("client", {"SYN"}) /\ ends["client"].state \in {"closed", "synSent"}
          /\ ends' = [ends EXCEPT !["client"] = e]
      BY <1>4, <2>1 DEF SendSyn
    <2>4. ~ends["client"].fin
      BY <1>1, <2>3 DEF Opens
    <2>5. Early({"SYN"}) /\ "FIN" \notin {"SYN"} /\ {"SYN"} # {"SYN", "ACK"}
      BY DEF Early
    <2>6. CheckInv'
      BY <1>1, <1>3, <2>2, <2>3, <2>4, <2>5, SendKeeps
    <2> QED BY <2>3, <2>6 DEF Send
  <1>5. CASE SendSynAck
    <2>1. PICK e : e = ends["server"]
      OBVIOUS
    <2>2. /\ e \in EndState /\ e.state = "synRcvd" /\ ends["server"].state = "synRcvd"
          /\ Send("server", {"SYN", "ACK"}) /\ ends' = [ends EXCEPT !["server"] = e]
      BY <1>1, <1>2, <1>5, <2>1 DEF SendSynAck
    <2>3. ~ends["server"].fin
      BY <1>1, <2>2 DEF Opens
    <2>4. Early({"SYN", "ACK"}) /\ "FIN" \notin {"SYN", "ACK"} /\ {"SYN", "ACK"} # {"SYN"}
      BY DEF Early
    <2>5. CheckInv'
      BY <1>1, <1>3, <2>1, <2>2, <2>3, <2>4, SendKeeps
    <2> QED BY <2>2, <2>5 DEF Send
  <1>6. ASSUME NEW s \in Sides, SendData(s) PROVE CheckInv' /\ UNCHANGED <<fsm, seen>>
    <2>1. PICK p \in {{"data", "ACK"}, {"FIN", "ACK"}, {"data", "FIN", "ACK"}} :
            Send(s, p) /\ ends' = [ends EXCEPT ![s] = Side("open", "FIN" \in p, FALSE)]
      BY <1>6 DEF SendData
    <2>2. PICK e : e = Side("open", "FIN" \in p, FALSE)
      OBVIOUS
    <2>3. /\ e \in EndState /\ e.state = "open" /\ ("FIN" \in p => e.fin)
          /\ ends[s].state = "open" /\ ~ends[s].fin
      <3>1. PICK fin \in BOOLEAN : fin <=> "FIN" \in p
        OBVIOUS
      <3>2. e = Side("open", fin, FALSE)
        BY <2>2, <3>1
      <3>3. e \in EndState /\ e.state = "open" /\ e.fin = fin
        BY <3>2 DEF EndState, Side
      <3> QED BY <1>6, <3>1, <3>3 DEF SendData
    <2>4. p \in Kinds /\ p # {"SYN"} /\ p # {"SYN", "ACK"}
      BY <1>3
    <2>5. CheckInv'
      BY <2>1, <2>2, <2>3, <2>4, SendKeeps
    <2> QED BY <2>1, <2>5 DEF Send
  <1>7. ASSUME NEW s \in Sides, SendAck(s) PROVE CheckInv' /\ UNCHANGED <<fsm, seen>>
    <2>1. PICK e : e = [ends[s] EXCEPT !.owes = FALSE]
      OBVIOUS
    <2>2. /\ e \in EndState /\ e.state = ends[s].state /\ e.fin = ends[s].fin
      BY <1>2, <2>1 DEF EndState
    <2>3. /\ Send(s, {"ACK"}) /\ ends[s].state = "open" /\ ends' = [ends EXCEPT ![s] = e]
      BY <1>7, <2>1 DEF SendAck
    <2>4. Late({"ACK"}) /\ "FIN" \notin {"ACK"} /\ {"ACK"} # {"SYN"} /\ {"ACK"} # {"SYN", "ACK"}
      BY DEF Late
    <2>5. CheckInv'
      BY <1>3, <2>2, <2>3, <2>4, SendKeeps
    <2> QED BY <2>3, <2>5 DEF Send
  <1>8. ASSUME NEW s \in Sides, SendRst(s) PROVE CheckInv' /\ UNCHANGED <<fsm, seen>>
    <2>1. PICK p \in {{"RST"}, {"RST", "ACK"}} : Send(s, p)
      BY <1>8 DEF SendRst
    <2>2. PICK e : e = [ends[s] EXCEPT !.state = "gone"]
      OBVIOUS
    <2>3. /\ e \in EndState /\ e.state = "gone" /\ e.fin = ends[s].fin
      BY <1>2, <2>2 DEF EndState
    <2>4. /\ ends[s].state \in {"synSent", "synRcvd", "open"} /\ ends' = [ends EXCEPT ![s] = e]
      BY <1>8, <2>2 DEF SendRst
    <2>5. p \in Kinds /\ Late(p) /\ Early(p) /\ "FIN" \notin p /\ p # {"SYN"} /\ p # {"SYN", "ACK"}
      BY <1>3 DEF Late, Early
    <2>6. CheckInv'
      BY <2>1, <2>3, <2>4, <2>5, SendKeeps
    <2> QED BY <2>1, <2>6 DEF Send
  <1> QED BY <1>4, <1>5, <1>6, <1>7, <1>8

-----------------------------------------------------------------------------
(* The capture sees a packet.                                              *)

\* What the other side makes of a packet.
LEMMA Received ==
    ASSUME NEW e \in EndState, NEW p \in Kinds
    PROVE  /\ received(e, p) \in EndState /\ received(e, p).fin = e.fin
           /\ "RST" \in p => received(e, p).state = "gone"
           /\ e.state = "gone" => received(e, p).state = "gone"
           /\ p = {"SYN"} => received(e, p).state \in {e.state, "synRcvd", "gone"}
           /\ p = {"SYN"} /\ received(e, p).state = "synRcvd" => e.state \in {"closed", "synRcvd"}
           /\ p # {"SYN"} => received(e, p).state \in {"gone", "open"}
  <1>1. e.state \in {"closed", "synSent", "synRcvd", "open", "gone"}
        /\ e.fin \in BOOLEAN /\ e.owes \in BOOLEAN
    BY DEF EndState
  <1>2. CASE "RST" \in p \/ e.state = "gone"
    <2>1. received(e, p) = [e EXCEPT !.state = "gone"]
      BY <1>2 DEF received
    <2> QED BY <2>1 DEF EndState
  <1>3. CASE ~("RST" \in p \/ e.state = "gone") /\ p = {"SYN"}
    <2>1. received(e, p) = IF e.state = "closed" THEN [e EXCEPT !.state = "synRcvd"] ELSE e
      BY <1>3 DEF received
    <2> QED BY <1>3, <2>1 DEF EndState
  <1>4. CASE ~("RST" \in p \/ e.state = "gone") /\ p # {"SYN"}
    <2>1. PICK owes \in BOOLEAN : owes = (e.owes \/ p # {"ACK"})
      BY <1>1
    <2>2. received(e, p) = [e EXCEPT !.state = "open", !.owes = owes]
      BY <1>4, <2>1 DEF received
    <2> QED BY <1>4, <2>1, <2>2 DEF EndState
  <1> QED BY <1>2, <1>3, <1>4

\* What a step that sees p leaves of the two sides.
SeenFrom(s, p) ==
    /\ p \in Kinds /\ Len(wire[s]) \in Nat /\ Len(wire[s]) > 0 /\ p = wire[s][1]
    /\ Len(wire'[s]) = Len(wire[s]) - 1
    /\ \A i \in 1..Len(wire'[s]) : i + 1 \in 1..Len(wire[s]) /\ wire'[s][i] = wire[s][i + 1]
    /\ wire'[Opposite(s)] = wire[Opposite(s)]
    /\ ends'[s] = ends[s] /\ ends'[Opposite(s)] = received(ends[Opposite(s)], p)

\* What See changes of the wire and of the sides.
LEMMA Sees ==
    ASSUME CheckInv, NEW s \in Sides, See(s)
    PROVE  /\ SeenFrom(s, Head(wire[s]))
           /\ wire' \in [Sides -> Seq(Kinds)] /\ ends' \in [Sides -> EndState]
  <1>1. wire \in [Sides -> Seq(Kinds)] /\ ends \in [Sides -> EndState]
    BY DEF CheckInv, CheckTypeOK
  <1>2. PICK o \in Sides : o = Opposite(s) /\ o # s
    BY OppositeSide
  <1>3. wire[s] \in Seq(Kinds) /\ wire[s] # <<>> /\ ends[o] \in EndState
    BY <1>1 DEF See
  <1>4. PICK p : p = Head(wire[s])
    OBVIOUS
  <1>5. p \in Kinds /\ p = wire[s][1] /\ Len(wire[s]) \in Nat /\ Len(wire[s]) > 0
    BY <1>3, <1>4
  <1>6. Tail(wire[s]) \in Seq(Kinds) /\ Len(Tail(wire[s])) = Len(wire[s]) - 1
        /\ \A i \in 1..Len(Tail(wire[s])) : i + 1 \in 1..Len(wire[s])
                                             /\ Tail(wire[s])[i] = wire[s][i + 1]
    BY <1>3
  <1>7. received(ends[o], p) \in EndState
    BY <1>3, <1>5, Received
  <1>8. wire' = [wire EXCEPT ![s] = Tail(wire[s])] /\ ends' = [ends EXCEPT ![o] = received(ends[o], p)]
    BY <1>2, <1>4 DEF See
  <1>9. wire' \in [Sides -> Seq(Kinds)] /\ ends' \in [Sides -> EndState]
    BY <1>1, <1>6, <1>7, <1>8
  <1>10. wire'[s] = Tail(wire[s]) /\ wire'[o] = wire[o] /\ ends'[s] = ends[s]
         /\ ends'[o] = received(ends[o], p)
    BY <1>1, <1>2, <1>8
  <1> QED BY <1>2, <1>4, <1>5, <1>6, <1>9, <1>10 DEF SeenFrom

\* The answer of CheckState, in terms of the state that figureState returns.
LEMMA Answers ==
    ASSUME NEW p, NEW s, CheckState(p, s), NEW t, t = figureState(fsm, p, s)
    PROVE  /\ seen'.packet = p
           /\ accept(t, p, s) = Refused => fsm' = t
           /\ \A u : accept(t, p, s) = u /\ u.state # "refused" => fsm' = u /\ seen'.ok
  <1>1. Refused.state = "refused"
    BY DEF Refused, At
  <1>2. /\ fsm' = IF accept(t, p, s) = Refused THEN t ELSE accept(t, p, s)
        /\ seen' = [packet |-> p, ok |-> accept(t, p, s) # Refused]
    BY DEF CheckState
  <1>3. seen'.packet = p /\ seen'.ok = (accept(t, p, s) # Refused)
    BY <1>2
  <1> QED BY <1>1, <1>2, <1>3

\* What stays true of a side when a packet is seen.
LEMMA SeeKeepsSides ==
    ASSUME CheckInv, NEW s \in Sides, NEW p, SeenFrom(s, p)
    PROVE  /\ \A r \in Sides : Done(r) => Done(r)'
           /\ Opening(s) => Opening(s)'
           /\ Opening(Opposite(s)) /\ received(ends[Opposite(s)], p).state # "open" =>
                Opening(Opposite(s))'
           /\ "FIN" \in p => Done(s)'
           /\ Done(s) => Late(p)
           /\ Opening(s) => Early(p)
  <1>1. PICK o \in Sides : o = Opposite(s) /\ o # s /\ \A r \in Sides : r = s \/ r = o
    BY OppositeSide DEF Sides
  <1>2. ends[o] \in EndState /\ Ordered
    BY DEF CheckInv, CheckTypeOK
  <1>3. ends'[o].fin = ends[o].fin
    BY <1>1, <1>2, Received DEF SeenFrom
  <1>4. Done(s) => Done(s)'
    BY DEF Done, SeenFrom
  <1>5. Done(o) => Done(o)'
    BY <1>1, <1>3 DEF Done, SeenFrom
  <1>6. Opening(s) => Opening(s)'
    BY DEF Opening, SeenFrom
  <1>7. Opening(o) /\ received(ends[o], p).state # "open" => Opening(o)'
    BY <1>1 DEF Opening, SeenFrom
  <1>8. 1 \in 1..Len(wire[s]) /\ p = wire[s][1]
    BY DEF SeenFrom
  <1>9. "FIN" \in p => Done(s)'
    BY <1>2, <1>8 DEF Done, SeenFrom, Ordered
  <1>10. (Done(s) => Late(p)) /\ (Opening(s) => Early(p))
    BY <1>8 DEF Done, Opening
  <1> QED BY <1>1, <1>4, <1>5, <1>6, <1>7, <1>9, <1>10

\* What figureState makes of the first packet of a connection.
LEMMA Figured ==
    ASSUME NEW p \in Kinds, NEW s \in Sides
    PROVE  /\ fsm.state # "Closed" \/ ~missing \/ p = {"SYN"} => figureState(fsm, p, s) = fsm
           /\ fsm.state = "Closed" /\ missing /\ p = {"SYN", "ACK"} =>
                figureState(fsm, p, s) = At("SynSent", Opposite(s))
           /\ fsm.state = "Closed" /\ missing /\ "FIN" \in p =>
                figureState(fsm, p, s) = At("CloseWait", Opposite(s))
           /\ fsm.state = "Closed" /\ missing /\ "FIN" \notin p /\ p # {"SYN"} /\ p # {"SYN", "ACK"} =>
                figureState(fsm, p, s) = At("Established", fsm.dir)
  <1>1. /\ p = {"SYN"} <=> "SYN" \in p /\ "ACK" \notin p
        /\ p = {"SYN", "ACK"} <=> "SYN" \in p /\ "ACK" \in p
        /\ "FIN" \in p => "ACK" \in p /\ "SYN" \notin p
    BY Flags
  <1>2. {"FIN", "ACK"} \subseteq p <=> "FIN" \in p
    BY <1>1
  <1> QED BY <1>1, <1>2 DEF figureState

\* What the invariant says of the sides, when a packet is seen.
LEMMA SeeOpens ==
    ASSUME CheckInv, NEW s \in Sides, NEW p, SeenFrom(s, p)
    PROVE  Opens' /\ Ordered'
  <1>0. /\ Opens /\ Ordered /\ ends \in [Sides -> EndState]
        /\ "client" \in Sides /\ "server" \in Sides /\ "client" # "server"
        /\ \A r \in Sides : r \in {"client", "server"}
    BY DEF CheckInv, CheckTypeOK, Sides
  <1>1. PICK o \in Sides : o = Opposite(s) /\ o # s /\ \A r \in Sides : r = s \/ r = o
    BY OppositeSide DEF Sides
  <1>2. 1 \in 1..Len(wire[s]) /\ p = wire[s][1] /\ p \in Kinds /\ ends[o] \in EndState
    BY <1>0 DEF SeenFrom
  <1>3. /\ ends'[s] = ends[s] /\ ends'[o] = received(ends[o], p) /\ ends'[o].fin = ends[o].fin
        /\ "RST" \in p => ends'[o].state = "gone"
        /\ ends[o].state = "gone" => ends'[o].state = "gone"
        /\ p = {"SYN"} => ends'[o].state \in {ends[o].state, "synRcvd", "gone"}
        /\ p = {"SYN"} /\ ends'[o].state = "synRcvd" => ends[o].state \in {"closed", "synRcvd"}
        /\ p # {"SYN"} => ends'[o].state \in {"gone", "open"}
    BY <1>1, <1>2, Received DEF SeenFrom
  <1>4. /\ \A i \in 1..Len(wire'[s]) : i + 1 \in 1..Len(wire[s]) /\ wire'[s][i] = wire[s][i + 1]
        /\ Len(wire'[s]) = Len(wire[s]) - 1 /\ Len(wire[s]) \in Nat
        /\ wire'[o] = wire[o]
    BY <1>1 DEF SeenFrom
  <1>5. s = "server" => p # {"SYN"}
    BY <1>0, <1>2 DEF Ordered
  <1>6. /\ Opening(s) => Opening(s)'
        /\ Opening(o) /\ ends'[o].state # "open" => Opening(o)'
    BY <1>1, <1>3, SeeKeepsSides
  <1>7. Opens'
    <2>1. ASSUME ends'["client"].state \in {"closed", "synSent"}
          PROVE  /\ Opening("server")'
                 /\ \A i \in 1..Len(wire'["client"]) : wire'["client"][i] = {"SYN"}
      <3>1. s = "client" /\ o = "server"
        BY <1>0, <1>1, <1>3, <1>5, <2>1
      <3>2. Opening("server") /\ \A i \in 1..Len(wire["client"]) : wire["client"][i] = {"SYN"}
        BY <1>0, <1>3, <2>1, <3>1 DEF Opens
      <3>3. ends["server"].state # "open"
        BY <3>2 DEF Opening
      <3> QED BY <1>2, <1>3, <1>4, <1>6, <3>1, <3>2, <3>3
    <2>2. ASSUME ends'["server"].state \in {"closed", "synRcvd"} PROVE Opening("server")'
      <3>1. ends["server"].state \in {"closed", "synRcvd"}
        BY <1>0, <1>1, <1>3, <2>2
      <3>2. Opening("server")
        BY <1>0, <3>1 DEF Opens
      <3> QED BY <1>0, <1>1, <1>6, <2>2, <3>2
    <2>3. ends'["server"].state # "synSent" /\ ends'["client"].state # "synRcvd"
      BY <1>0, <1>1, <1>3, <1>5 DEF Opens
    <2>4. \A r \in Sides : ends'[r].state \in {"closed", "synSent", "synRcvd"} => ~ends'[r].fin
      <3>1. ends'[o].state \in {"closed", "synSent", "synRcvd"} =>
                ends[o].state \in {"closed", "synSent", "synRcvd"}
        BY <1>3
      <3> QED BY <1>0, <1>1, <1>3, <3>1 DEF Opens
    <2> QED BY <2>1, <2>2, <2>3, <2>4 DEF Opens
  <1>8. Ordered'
    <2>1. \A r \in Sides : \A i \in 1..Len(wire'[r]) : \E k \in {0, 1} :
            i + k \in 1..Len(wire[r]) /\ wire'[r][i] = wire[r][i + k]
      <3>1. ASSUME NEW i \in 1..Len(wire'[o])
            PROVE  i + 0 \in 1..Len(wire[o]) /\ wire'[o][i] = wire[o][i + 0]
        BY <1>4
      <3> QED BY <1>1, <1>4, <3>1
    <2>2. \A i, j \in 1..Len(wire'["client"]) :
            i < j /\ wire'["client"][j] = {"SYN"} => wire'["client"][i] = {"SYN"}
      <3>1. CASE s = "client"
        <4>1. \A i, j \in 1..Len(wire[s]) : i < j /\ wire[s][j] = {"SYN"} => wire[s][i] = {"SYN"}
          BY <1>0, <3>1 DEF Ordered
        <4>2. ASSUME NEW i \in 1..Len(wire'[s]), NEW j \in 1..Len(wire'[s]),
                     i < j, wire'[s][j] = {"SYN"}
              PROVE  wire'[s][i] = {"SYN"}
          <5>1. /\ i + 1 \in 1..Len(wire[s]) /\ wire'[s][i] = wire[s][i + 1]
                /\ j + 1 \in 1..Len(wire[s]) /\ wire'[s][j] = wire[s][j + 1]
                /\ i + 1 < j + 1
            <6>1. i + 1 \in 1..Len(wire[s]) /\ wire'[s][i] = wire[s][i + 1]
              BY <1>4, Zenon
            <6>2. j + 1 \in 1..Len(wire[s]) /\ wire'[s][j] = wire[s][j + 1]
              BY <1>4, Zenon
            <6>3. i + 1 < j + 1
              BY <4>2
            <6> QED BY <6>1, <6>2, <6>3, Zenon
          <5> QED BY <4>1, <4>2, <5>1
        <4> QED BY <3>1, <4>2
      <3>2. CASE o = "client"
        BY <1>0, <1>4, <3>2 DEF Ordered
      <3> QED BY <1>0, <1>1, <3>1, <3>2
    <2>3. \A i \in 1..Len(wire'["server"]) : wire'["server"][i] # {"SYN"}
      BY <1>0, <2>1, SMTT(30) DEF Ordered
    <2>4. \A i \in 1..Len(wire'["client"]) : wire'["client"][i] # {"SYN", "ACK"}
      BY <1>0, <2>1, SMTT(30) DEF Ordered
    <2>5. ASSUME NEW r \in Sides, NEW i \in 1..Len(wire'[r]), "FIN" \in wire'[r][i]
          PROVE  ends'[r].fin /\ \A j \in (i + 1)..Len(wire'[r]) : Late(wire'[r][j])
      <3>1. CASE r = s
        <4>1. i + 1 \in 1..Len(wire[s]) /\ "FIN" \in wire[s][i + 1]
          BY <1>4, <2>5, <3>1
        <4>2. ends[s].fin /\ \A j \in ((i + 1) + 1)..Len(wire[s]) : Late(wire[s][j])
          BY <1>0, <4>1 DEF Ordered
        <4>3. ASSUME NEW j \in (i + 1)..Len(wire'[s]) PROVE Late(wire'[s][j])
          <5>0. PICK m \in Nat : m = Len(wire[s])
            BY <1>4, Zenon
          <5>1. PICK n \in Int : n = Len(wire'[s]) /\ n = m - 1
            <6>1. m - 1 \in Int
              OBVIOUS
            <6> QED BY <1>4, <5>0, <6>1, Zenon
          <5>2. j \in (i + 1)..n /\ i \in Int /\ i >= 1
            BY <3>1, <4>3, <5>1
          <5>3. j \in 1..n /\ j + 1 \in ((i + 1) + 1)..m
            BY <5>1, <5>2
          <5>4. wire'[s][j] = wire[s][j + 1]
            BY <1>4, <5>1, <5>3, Zenon
          <5> QED BY <4>2, <5>0, <5>3, <5>4, Zenon
        <4> QED BY <1>3, <3>1, <4>2, <4>3
      <3>2. CASE r = o
        BY <1>0, <1>3, <1>4, <2>5, <3>2 DEF Ordered
      <3> QED BY <1>1, <3>1, <3>2
    <2> QED BY <2>2, <2>3, <2>4, <2>5 DEF Ordered
  <1> QED BY <1>7, <1>8

\* Where the state machine goes, and that data and FINs are accepted.
LEMMA SeeTells ==
    ASSUME CheckInv, NEW s \in Sides, See(s)
    PROVE  fsm' \in FSM /\ SynUnderway' /\ Tells' /\ DataAccepted'
  <1>0. /\ Opens /\ Ordered /\ SynUnderway /\ Tells /\ fsm \in FSM /\ ends \in [Sides -> EndState]
        /\ missing \in BOOLEAN
        /\ "client" \in Sides /\ "server" \in Sides /\ "client" # "server"
        /\ \A r \in Sides : r \in {"client", "server"}
    BY DEF CheckInv, CheckTypeOK, Sides
  <1>1. PICK o \in Sides : o = Opposite(s) /\ o # s /\ s = Opposite(o) /\ \A r \in Sides : r = s \/ r = o
    BY OppositeSide DEF Sides
  <1>2. PICK p : p = Head(wire[s])
    OBVIOUS
  <1>3. SeenFrom(s, p) /\ CheckState(p, s) /\ missing' = missing
    BY <1>2, Sees DEF See
  <1>4. 1 \in 1..Len(wire[s]) /\ p = wire[s][1] /\ p \in Kinds /\ ends[o] \in EndState
    BY <1>0, <1>3 DEF SeenFrom
  <1>5. PICK t : t = figureState(fsm, p, s)
    OBVIOUS
  <1>6. /\ seen'.packet = p
        /\ accept(t, p, s) = Refused => fsm' = t
        /\ \A u : accept(t, p, s) = u /\ u.state # "refused" => fsm' = u /\ seen'.ok
    BY <1>3, <1>5, Answers
  <1>7. /\ fsm.state # "Closed" \/ ~missing \/ p = {"SYN"} => t = fsm
        /\ fsm.state = "Closed" /\ missing /\ p = {"SYN", "ACK"} => t = At("SynSent", o)
        /\ fsm.state = "Closed" /\ missing /\ "FIN" \in p => t = At("CloseWait", o)
        /\ fsm.state = "Closed" /\ missing /\ "FIN" \notin p /\ p # {"SYN"} /\ p # {"SYN", "ACK"} =>
                t = At("Established", fsm.dir)
    BY <1>1, <1>4, <1>5, Figured
  <1>8. /\ p = {"SYN"} <=> "SYN" \in p /\ "ACK" \notin p
        /\ p = {"SYN", "ACK"} <=> "SYN" \in p /\ "ACK" \in p
        /\ "SYN" \in p => "RST" \notin p /\ "FIN" \notin p /\ "data" \notin p
        /\ "RST" \in p => "FIN" \notin p /\ "data" \notin p
        /\ "FIN" \in p \/ "data" \in p => "ACK" \in p
        /\ Late(p) <=> "SYN" \notin p /\ "data" \notin p /\ "FIN" \notin p
    BY <1>4, Flags
  <1>9. /\ \A r \in Sides : Done(r) => Done(r)'
        /\ Opening(s) => Opening(s)'
        /\ Opening(o) /\ received(ends[o], p).state # "open" => Opening(o)'
        /\ "FIN" \in p => Done(s)'
        /\ Done(s) => Late(p)
        /\ Opening(s) => Early(p)
    BY <1>1, <1>3, SeeKeepsSides
  <1>10. Opening(o) /\ (p = {"SYN"} \/ "RST" \in p \/ ends[o].state = "gone") => Opening(o)'
    <2>1. p = {"SYN"} => received(ends[o], p).state \in {ends[o].state, "synRcvd", "gone"}
      BY <1>4, Received
    <2>2. "RST" \in p \/ ends[o].state = "gone" => received(ends[o], p).state = "gone"
      BY <1>4, Received
    <2> QED BY <1>9, <2>1, <2>2 DEF Opening
  <1>11. (p = {"SYN"} => s = "client" /\ o = "server") /\ (p = {"SYN", "ACK"} => s = "server" /\ o = "client")
    BY <1>0, <1>1, <1>4 DEF Ordered
  <1>12. "data" \notin p /\ "FIN" \notin p => DataAccepted'
    BY <1>6 DEF DataAccepted
  <1>13. seen'.ok => DataAccepted'
    BY DEF DataAccepted
  <1>14. \A x \in {"SynSent", "Established", "CloseWait", "LastAck", "Reset", "Closed"} : \A d \in Sides :
            At(x, d).state = x /\ At(x, d).dir = d /\ At(x, d) \in FSM /\ At(x, d).state # "refused"
    BY DEF At, FSM
  <1>15. fsm.dir \in Sides /\ \A r \in Sides : Opposite(r) \in Sides
    BY <1>0, OppositeSide DEF FSM
  <1>16. ASSUME fsm.state = "Closed" /\ ~missing PROVE fsm' \in FSM /\ Tells' /\ DataAccepted'
    <2>1. t = fsm
      BY <1>7, <1>16
    <2>2. CASE Unseen
      <3>1. s = "client" /\ o = "server" /\ p = {"SYN"}
        <4>1. s # "server"
          BY <1>4, <2>2 DEF Unseen
        <4>2. s = "client" /\ wire["client"] # <<>>
          BY <1>0, <1>4, <4>1
        <4> QED BY <1>0, <1>1, <1>4, <2>2, <4>2 DEF Unseen
      <3>2. accept(t, p, s) = At("SynSent", s)
        BY <1>0, <1>4, <1>16, <2>1, <3>1, Transition
      <3>3. fsm' = At("SynSent", "client") /\ seen'.ok
        BY <1>0, <1>6, <1>14, <3>1, <3>2
      <3>4. Opening("client") /\ Opening("server")
        BY <2>2 DEF Unseen, Opening
      <3>5. Opening("client")' /\ Opening("server")'
        BY <1>9, <1>10, <3>1, <3>4
      <3> QED BY <1>0, <1>13, <1>14, <3>3, <3>5 DEF Tells
    <2>3. CASE Done("client") /\ Done("server")
      <3>1. Late(p) /\ Done("client")' /\ Done("server")'
        BY <1>0, <1>9, <2>3
      <3>2. accept(t, p, s) = Refused
        BY <1>0, <1>4, <1>8, <1>16, <2>1, <3>1, Transition
      <3>3. fsm' = fsm
        BY <1>6, <2>1, <3>2
      <3> QED BY <1>0, <1>8, <1>12, <1>16, <3>1, <3>3 DEF Tells
    <2> QED BY <1>0, <1>16, <2>2, <2>3 DEF Tells
  <1>17. ASSUME fsm.state = "Closed" /\ missing PROVE fsm' \in FSM /\ Tells' /\ DataAccepted'
    <2>1. CASE p = {"SYN"}
      <3>1. accept(t, p, s) = At("SynSent", s) /\ s = "client" /\ o = "server"
        BY <1>0, <1>4, <1>7, <1>11, <1>17, <2>1, Transition
      <3>2. fsm' = At("SynSent", "client") /\ seen'.ok
        BY <1>0, <1>6, <1>14, <3>1
      <3>3. Opening("client") /\ Opening("server")
        BY <1>0, <1>4, <1>17, <2>1, <3>1 DEF SynUnderway
      <3>4. Opening("client")' /\ Opening("server")'
        BY <1>9, <1>10, <2>1, <3>1, <3>3
      <3> QED BY <1>0, <1>13, <1>14, <3>2, <3>4 DEF Tells
    <2>2. CASE p = {"SYN", "ACK"}
      <3>1. t = At("SynSent", "client") /\ t \in FSM /\ s = Opposite(t.dir)
        BY <1>0, <1>1, <1>7, <1>11, <1>14, <1>17, <2>2
      <3>2. accept(t, p, s) = At("Established", "client")
        BY <1>0, <1>4, <1>8, <1>14, <2>2, <3>1, Transition
      <3>3. fsm' = At("Established", "client") /\ seen'.ok
        BY <1>0, <1>6, <1>14, <3>2
      <3> QED BY <1>0, <1>13, <1>14, <3>3 DEF Tells
    <2>3. CASE "FIN" \in p
      <3>1. t = At("CloseWait", o) /\ t \in FSM /\ t.dir = o /\ t.state = "CloseWait"
        BY <1>7, <1>14, <1>17, <2>3
      <3>2. accept(t, p, s) = closing(t, p, s)
        BY <1>4, <1>8, <2>3, <3>1, Transition
      <3>3. closing(t, p, s) = At("LastAck", o)
        BY <1>1, <1>8, <2>3, <3>1 DEF closing
      <3>4. fsm' = At("LastAck", o) /\ seen'.ok
        BY <1>6, <1>14, <3>2, <3>3
      <3>5. Done(s)'
        BY <1>9, <2>3
      <3>6. fsm'.state = "LastAck" /\ Opposite(fsm'.dir) = s /\ fsm' \in FSM
        BY <1>1, <1>14, <3>4, ZenonT(60)
      <3> QED BY <1>3, <1>13, <1>17, <3>4, <3>5, <3>6 DEF Tells, Done
    <2>4. CASE "FIN" \notin p /\ p # {"SYN"} /\ p # {"SYN", "ACK"}
      <3>1. t = At("Established", fsm.dir) /\ t \in FSM /\ t.state = "Established" /\ t.dir \in Sides
        BY <1>7, <1>14, <1>15, <1>17, <2>4
      <3>2. CASE "RST" \in p
        <4>1. accept(t, p, s) = At("Reset", t.dir)
          BY <1>4, <3>1, <3>2, Transition
        <4>2. fsm' = At("Reset", t.dir) /\ seen'.ok
          BY <1>6, <1>14, <3>1, <4>1
        <4> QED BY <1>13, <1>14, <3>1, <4>2 DEF Tells
      <3>3. CASE "RST" \notin p
        <4>1. accept(t, p, s) = t
          BY <1>4, <2>4, <3>1, <3>3, Transition
        <4>2. fsm' = t /\ seen'.ok
          BY <1>6, <3>1, <4>1
        <4> QED BY <1>13, <3>1, <4>2 DEF Tells
      <3> QED BY <3>2, <3>3
    <2> QED BY <2>1, <2>2, <2>3, <2>4
  <1>18. ASSUME fsm.state \notin {"Closed", "Reset"} /\ "RST" \in p PROVE fsm' \in FSM /\ Tells' /\ DataAccepted'
    <2>1. accept(t, p, s) = At("Reset", fsm.dir)
      BY <1>0, <1>4, <1>7, <1>18, Transition
    <2>2. fsm' = At("Reset", fsm.dir) /\ seen'.ok
      BY <1>6, <1>14, <1>15, <2>1
    <2> QED BY <1>13, <1>14, <1>15, <2>2 DEF Tells
  <1>19. ASSUME fsm.state = "SynSent" /\ "RST" \notin p PROVE fsm' \in FSM /\ Tells' /\ DataAccepted'
    <2>1. t = fsm /\ fsm.dir = "client" /\ Opening("client") /\ Opening("server")
      BY <1>0, <1>7, <1>19 DEF Tells
    <2>2. p = {"SYN"} \/ p = {"SYN", "ACK"}
      BY <1>0, <1>8, <1>9, <1>19, <2>1 DEF Early
    <2>3. CASE p = {"SYN"}
      <3>1. accept(t, p, s) = fsm /\ s = "client" /\ o = "server"
        <4>1. p # {"SYN", "ACK"}
          BY <1>8, <2>3
        <4> QED BY <1>0, <1>4, <1>11, <1>19, <2>1, <2>3, <4>1, Transition
      <3>2. fsm' = fsm /\ seen'.ok
        BY <1>6, <1>19, <3>1
      <3>3. Opening("client")' /\ Opening("server")'
        BY <1>9, <1>10, <2>1, <2>3, <3>1
      <3> QED BY <1>0, <1>13, <1>19, <2>1, <3>2, <3>3 DEF Tells
    <2>4. CASE p = {"SYN", "ACK"}
      <3>1. accept(t, p, s) = At("Established", "client")
        BY <1>0, <1>1, <1>4, <1>11, <1>19, <2>1, <2>4, Transition
      <3>2. fsm' = At("Established", "client") /\ seen'.ok
        BY <1>0, <1>6, <1>14, <3>1
      <3> QED BY <1>0, <1>13, <1>14, <3>2 DEF Tells
    <2> QED BY <2>2, <2>3, <2>4
  <1>20. ASSUME fsm.state = "Established" /\ "RST" \notin p PROVE fsm' \in FSM /\ Tells' /\ DataAccepted'
    <2>1. t = fsm /\ accept(t, p, s) = IF "FIN" \in p THEN At("CloseWait", s) ELSE fsm
      BY <1>0, <1>4, <1>7, <1>20, Transition
    <2>2. CASE "FIN" \in p
      <3>1. fsm' = At("CloseWait", s) /\ seen'.ok /\ Done(s)'
        BY <1>6, <1>9, <1>14, <2>1, <2>2
      <3> QED BY <1>13, <1>14, <3>1 DEF Tells
    <2>3. CASE "FIN" \notin p
      <3>1. fsm' = fsm /\ seen'.ok
        BY <1>6, <1>20, <2>1, <2>3
      <3> QED BY <1>0, <1>13, <1>20, <3>1 DEF Tells
    <2> QED BY <2>2, <2>3
  <1>21. ASSUME fsm.state = "CloseWait" /\ "RST" \notin p PROVE fsm' \in FSM /\ Tells' /\ DataAccepted'
    <2>0. PICK d \in Sides : d = fsm.dir
      BY <1>15
    <2>1. /\ t = fsm /\ accept(t, p, s) = closing(fsm, p, s)
          /\ Done(d)'
      <3>1. Done(d)
        BY <1>0, <1>21, <2>0 DEF Tells
      <3> QED BY <1>0, <1>4, <1>7, <1>9, <1>21, <3>1, Transition
    <2>2. CASE "FIN" \in p /\ s = Opposite(d)
      <3>1. accept(t, p, s) = At("LastAck", d)
        BY <1>8, <2>0, <2>1, <2>2 DEF closing
      <3>2. fsm' = At("LastAck", d) /\ seen'.ok /\ Done(s)'
        BY <1>6, <1>9, <1>14, <2>2, <3>1
      <3>3. fsm'.state = "LastAck" /\ fsm'.dir = d /\ Opposite(fsm'.dir) = s /\ fsm' \in FSM
        BY <1>14, <2>2, <3>2
      <3> QED BY <1>13, <2>1, <3>2, <3>3 DEF Tells, Done
    <2>3. CASE ~("FIN" \in p /\ s = Opposite(d)) /\ "ACK" \in p
      <3>1. accept(t, p, s) = fsm
        BY <2>0, <2>1, <2>3 DEF closing
      <3>2. fsm' = fsm /\ seen'.ok
        BY <1>6, <1>21, <3>1
      <3> QED BY <1>0, <1>13, <1>21, <2>0, <2>1, <3>2 DEF Tells, Done
    <2>4. CASE "ACK" \notin p
      <3>1. accept(t, p, s) = Refused
        BY <2>1, <2>4 DEF closing
      <3>2. fsm' = fsm
        BY <1>6, <2>1, <3>1
      <3> QED BY <1>0, <1>8, <1>12, <1>21, <2>0, <2>1, <2>4, <3>2 DEF Tells, Done
    <2> QED BY <2>2, <2>3, <2>4
  <1>22. ASSUME fsm.state = "LastAck" /\ "RST" \notin p PROVE fsm' \in FSM /\ Tells' /\ DataAccepted'
    <2>0. PICK d \in Sides : d = fsm.dir
      BY <1>15
    <2>1. /\ t = fsm
          /\ accept(t, p, s) = IF "ACK" \in p /\ s = d THEN At("Closed", d) ELSE Refused
      BY <1>0, <1>4, <1>7, <1>22, <2>0, Transition
    <2>2. PICK e \in Sides : e = Opposite(d) /\ d # e
      BY <2>0, OppositeSide
    <2>3. Done(e) /\ Done(e)' /\ (~missing => Done(d)')
      <3>1. Done(e) /\ (~missing => Done(d))
        BY <1>0, <1>22, <2>0, <2>2 DEF Tells
      <3> QED BY <1>9, <3>1
    <2>4. CASE "ACK" \in p /\ s = d
      <3>1. fsm' = At("Closed", d) /\ seen'.ok
        BY <1>6, <1>14, <2>1, <2>4
      <3>2. ~missing => Done("client")' /\ Done("server")'
        <4>1. CASE d = "client" /\ e = "server"
          BY <2>3, <4>1
        <4>2. CASE d = "server" /\ e = "client"
          BY <2>3, <4>2
        <4> QED BY <1>0, <2>2, <4>1, <4>2
      <3> QED BY <1>3, <1>13, <1>14, <3>1, <3>2 DEF Tells
    <2>5. CASE ~("ACK" \in p /\ s = d)
      <3>1. fsm' = fsm
        BY <1>6, <2>1, <2>5
      <3>2. "data" \notin p /\ "FIN" \notin p
        <4>1. CASE "ACK" \notin p
          BY <1>8, <4>1
        <4>2. CASE s # d
          <5>1. s = e
            BY <1>1, <2>2, <4>2
          <5> QED BY <1>8, <1>9, <2>3, <5>1
        <4> QED BY <2>5, <4>1, <4>2
      <3> QED BY <1>0, <1>3, <1>12, <1>22, <2>0, <2>2, <2>3, <3>1, <3>2 DEF Tells, Done
    <2> QED BY <2>4, <2>5
  <1>23. ASSUME fsm.state = "Reset" PROVE fsm' \in FSM /\ Tells' /\ DataAccepted'
    <2>1. fsm' = fsm
      BY <1>0, <1>4, <1>6, <1>7, <1>23, Transition
    <2> QED BY <1>0, <1>23, <2>1 DEF Tells, DataAccepted
  <1>24. fsm' \in FSM /\ Tells' /\ DataAccepted'
    <2>1. fsm.state \in {"Closed", "SynSent", "Established", "CloseWait", "LastAck", "Reset"}
      BY <1>0 DEF FSM
    <2> QED BY <1>16, <1>17, <1>18, <1>19, <1>20, <1>21, <1>22, <1>23, <2>1
  <1>25. SynUnderway'
    <2> SUFFICES ASSUME NEW i \in 1..Len(wire'["client"]), wire'["client"][i] = {"SYN"}
                 PROVE  /\ Opening("server")'
                        /\ Opening("client")' \/ fsm'.state \in {"Established", "Reset"}
      BY DEF SynUnderway
    <2>1. PICK k \in 1..Len(wire["client"]) :
                wire["client"][k] = {"SYN"} /\ (s = "client" => k > 1)
      <3>1. CASE s = "client"
        <4>1. i + 1 \in 1..Len(wire["client"]) /\ wire["client"][i + 1] = {"SYN"} /\ i + 1 > 1
          BY <1>3, <3>1 DEF SeenFrom
        <4> QED BY <4>1
      <3>2. CASE o = "client"
        BY <1>1, <1>3, <3>2 DEF SeenFrom
      <3> QED BY <1>0, <1>1, <3>1, <3>2
    <2>2. Opening("server") /\ (Opening("client") \/ fsm.state \in {"Established", "Reset"})
      BY <1>0, <2>1 DEF SynUnderway
    <2>3. ~Done("client")
      BY <2>1 DEF Done, Late
    <2>4. ASSUME fsm.state \in {"Established", "Reset"}, "FIN" \notin p
          PROVE  fsm'.state \in {"Established", "Reset"}
      <3>1. t = fsm
        BY <1>7, <2>4
      <3>2. accept(t, p, s) \in {At("Reset", fsm.dir), fsm, Refused}
        <4>1. CASE fsm.state = "Established" /\ "RST" \in p
          BY <1>0, <1>4, <3>1, <4>1, Transition
        <4>2. CASE fsm.state = "Established" /\ "RST" \notin p
          BY <1>0, <1>4, <2>4, <3>1, <4>2, Transition
        <4>3. CASE fsm.state = "Reset"
          BY <1>0, <1>4, <3>1, <4>3, Transition
        <4> QED BY <2>4, <4>1, <4>2, <4>3
      <3>3. fsm.state # "refused" /\ At("Reset", fsm.dir).state = "Reset"
        BY <1>14, <1>15, <2>4
      <3> QED BY <1>6, <2>4, <3>1, <3>2, <3>3
    <2>5. CASE s = "client"
      <3>1. p = {"SYN"} /\ o = "server"
        BY <1>0, <1>1, <1>4, <2>1, <2>5 DEF Ordered
      <3>2. Opening("server")'
        BY <1>10, <2>2, <3>1
      <3> QED BY <1>8, <1>9, <2>2, <2>4, <2>5, <3>1, <3>2
    <2>6. CASE s = "server"
      <3>1. o = "client" /\ Early(p) /\ Opening("server")'
        BY <1>0, <1>1, <1>9, <2>2, <2>6
      <3>2. "FIN" \notin p /\ ("RST" \in p \/ p = {"SYN", "ACK"})
        BY <1>8, <1>11, <2>6, <3>1 DEF Early
      <3>3. CASE ~Opening("client")
        BY <2>2, <2>4, <3>1, <3>2, <3>3
      <3>4. CASE Opening("client") /\ "RST" \in p
        BY <1>10, <3>1, <3>4
      <3>5. CASE Opening("client") /\ p = {"SYN", "ACK"}
        <4>1. ~Done("server")
          BY <1>8, <1>9, <2>6, <3>5
        <4>2. ~Unseen
          BY <1>4, <2>6 DEF Unseen
        <4>3. fsm.state # "CloseWait" /\ fsm.state # "LastAck" /\ (fsm.state = "Closed" => missing)
          <5>1. fsm.dir \in {"client", "server"} /\ Opposite(fsm.dir) \in {"client", "server"}
            BY <1>0, <1>15
          <5> QED BY <1>0, <2>3, <4>1, <4>2, <5>1 DEF Tells
        <4>4. CASE fsm.state = "Closed" \/ fsm.state = "SynSent"
          <5>1. t = At("SynSent", "client") \/ (t = fsm /\ t.state = "SynSent" /\ t.dir = "client")
            BY <1>0, <1>7, <3>1, <3>5, <4>3, <4>4 DEF Tells
          <5>2. t \in FSM /\ t.state = "SynSent" /\ t.dir = "client" /\ s = Opposite(t.dir) /\ "RST" \notin p
            BY <1>0, <1>1, <1>8, <1>14, <3>1, <3>5, <5>1
          <5>3. accept(t, p, s) = At("Established", "client")
            BY <1>4, <3>5, <5>2, Transition
          <5> QED BY <1>0, <1>6, <1>14, <3>1, <5>3
        <4>5. CASE fsm.state \in {"Established", "Reset"}
          BY <2>4, <3>1, <3>2, <4>5
        <4> QED BY <1>0, <4>3, <4>4, <4>5 DEF FSM
      <3> QED BY <3>2, <3>3, <3>4, <3>5
    <2> QED BY <1>0, <2>5, <2>6
  <1> QED BY <1>24, <1>25

-----------------------------------------------------------------------------
\* TCPSimpleFSM refuses no packet with data or a FIN of a connection that was
\* not reset: whatever number of packets is under way in either direction, and
\* wherever a capture with SupportMissingEstablishment begins.
THEOREM DataIsAccepted == CheckSpec => []DataAccepted
  <1>1. CheckInit => CheckInv /\ DataAccepted
    <2>1. CheckInit => DataAccepted
      BY DEF CheckInit, DataAccepted
    <2> QED BY <2>1, CheckInitInv
  <1>2. CheckInv /\ DataAccepted /\ [CheckNext]_checkVars => (CheckInv /\ DataAccepted)'
    <2> SUFFICES ASSUME CheckInv, DataAccepted, [CheckNext]_checkVars
                 PROVE  CheckInv' /\ DataAccepted'
      OBVIOUS
    <2>1. CASE SendSyn \/ SendSynAck \/ \E s \in Sides : SendData(s) \/ SendAck(s) \/ SendRst(s)
      BY <2>1, SendsKeep DEF DataAccepted
    <2>2. ASSUME NEW s \in Sides, See(s) PROVE CheckInv' /\ DataAccepted'
      <3>1. SeenFrom(s, Head(wire[s])) /\ wire' \in [Sides -> Seq(Kinds)] /\ ends' \in [Sides -> EndState]
        BY <2>2, Sees
      <3>2. Opens' /\ Ordered'
        BY <3>1, SeeOpens
      <3>3. fsm' \in FSM /\ SynUnderway' /\ Tells' /\ DataAccepted'
        BY <2>2, SeeTells
      <3>4. missing' \in BOOLEAN
        BY <2>2 DEF See, CheckInv, CheckTypeOK
      <3> QED BY <3>1, <3>2, <3>3, <3>4 DEF CheckInv, CheckTypeOK
    <2>3. CASE UNCHANGED checkVars
      BY <2>3, ZenonT(60) DEF checkVars, CheckInv, CheckTypeOK, Opens, Ordered, SynUnderway, Tells, Unseen,
                  Opening, Done, DataAccepted
    <2> QED BY <2>1, <2>2, <2>3 DEF CheckNext
  <1> QED BY <1>1, <1>2, PTL DEF CheckSpec
=============================================================================
