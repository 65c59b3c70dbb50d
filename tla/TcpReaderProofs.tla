--------------------------- MODULE TcpReaderProofs ---------------------------
(***************************************************************************)
(* The protocol between a ReaderStream and its Assembler never panics, and *)
(* never looks at a batch whose Reassembled call has returned, whatever    *)
(* the batches and the calls of Read and Close are.  Then, what Read       *)
(* returns: every byte the Assembler gave it before the end of the stream, *)
(* in order, and with LossErrors one DataLost for every Skip.              *)
(***************************************************************************)
EXTENDS TcpReader, WellFoundedInduction, FiniteSetTheorems, SequenceTheorems, TLAPS

\* Where the two goroutines are.  An owner outside of the channels that has
\* read before, and has not found the stream over, holds up an Assembler in
\* Reassembled; this is why the signal it sends first is always awaited.
Handshake ==
    /\ asm \in {"idle", "send", "wait", "closing", "done"}
    /\ rd \in {"idle", "signal", "receive", "close", "closeSignal"}
    /\ doneClosed => asm = "done"
    /\ rd \in {"signal", "closeSignal"} => asm = "wait"
    /\ rd \in {"close", "closeSignal"} => closed
    /\ rd = "idle" /\ ~first /\ ~closed => asm = "wait"

\* Only an owner outside of the channels has anything left to read.
Held ==
    /\ rd # "idle" => current = <<>>
    /\ stripEmpty(current) # <<>> => asm = "wait"

\* The inductive invariant of the two goroutines.
IInv == Handshake /\ Held

\* stripEmpty of an empty r.current.
LEMMA StripEmptyOfNothing == stripEmpty(<<>>) = <<>>
BY DEF stripEmpty, nonEmpty

\* Nothing is held and nothing signalled at the start.
LEMMA InitHolds == Init => IInv
BY StripEmptyOfNothing DEF Init, IInv, Handshake, Held

\* Every step of either goroutine keeps the invariant.
LEMMA StepHolds == IInv /\ [Next]_vars => IInv'
<1> SUFFICES ASSUME IInv, [Next]_vars PROVE IInv'
    OBVIOUS
<1> USE StripEmptyOfNothing DEF IInv, Handshake, Held
<1>1. ASSUME NEW b \in Batches, Reassembled(b) PROVE IInv'
    BY <1>1 DEF Reassembled, readVars, chanVars
<1>2. CASE ReassemblyComplete
    BY <1>2 DEF ReassemblyComplete, readVars
<1>3. CASE CloseDone
    BY <1>3 DEF CloseDone, readVars
<1>4. ASSUME NEW n \in ReadSizes, ReadCurrent(n) PROVE IInv'
    BY <1>4 DEF ReadCurrent, Return, asmVars, chanVars
<1>5. ASSUME NEW n \in ReadSizes, ReadEOF(n) PROVE IInv'
    BY <1>5 DEF ReadEOF, asmVars, chanVars
<1>6. ASSUME NEW n \in ReadSizes, ReadMore(n) PROVE IInv'
    BY <1>6 DEF ReadMore, asmVars, chanVars
<1>7. CASE SignalDone
    BY <1>7 DEF SignalDone, readVars, chanVars
<1>8. CASE Receive
    BY <1>8 DEF Receive, Return, chanVars
<1>9. CASE ReceiveClosed
    BY <1>9 DEF ReceiveClosed, asmVars, chanVars
<1>10. CASE Close
    BY <1>10 DEF Close, asmVars, chanVars
<1>11. CASE CloseReceive
    BY <1>11 DEF CloseReceive, readVars, chanVars
<1>12. CASE CloseSignal
    BY <1>12 DEF CloseSignal, readVars, chanVars
<1>13. CASE CloseReturn
    BY <1>13 DEF CloseReturn, readVars, asmVars, chanVars
<1>14. CASE UNCHANGED vars
    BY <1>14 DEF vars, readVars, asmVars, chanVars
<1> QED
    BY <1>1, <1>2, <1>3, <1>4, <1>5, <1>6, <1>7, <1>8, <1>9, <1>10, <1>11,
       <1>12, <1>13, <1>14 DEF Next, Reader, ReadCall, Closer

\* No goroutine ever sends on a closed channel: the handshake of Reassembled
\* with Read and Close, for any batches and any calls.
THEOREM NeverPanics == Spec => []NoPanic
<1>1. IInv => NoPanic
    BY DEF IInv, Handshake, NoPanic
<1> QED
    BY <1>1, InitHolds, StepHolds, PTL DEF Spec

\* The owner never looks at Reassembly objects the Assembler may be reusing:
\* while Read has bytes left, Reassembled has not returned.
THEOREM NeverUsedAfterReturn == Spec => []NotUsedAfterReturn
<1>1. IInv => NotUsedAfterReturn
    BY DEF IInv, Held, NotUsedAfterReturn
<1> QED
    BY <1>1, InitHolds, StepHolds, PTL DEF Spec

-----------------------------------------------------------------------------
(* What Read returns.                                                      *)

\* The Reassembly objects of c are the bytes from a up to b, in order and
\* without a gap; some may be empty.
Spans(c, a, b) ==
    /\ \A i \in DOMAIN c : a <= c[i].from /\ c[i].from + c[i].len <= b
    /\ \A i, j \in DOMAIN c : i < j => c[i].from + c[i].len <= c[j].from
    /\ \A x \in a .. (b - 1) : \E i \in DOMAIN c : c[i].from <= x /\ x < c[i].from + c[i].len

\* Which of the bytes of c follow a Skip, and for which of them DataLost was
\* returned: at most for the first, and reported tells.
Announced(c, reported, a) ==
    /\ \A b \in Due : b >= a =>
            \E i \in DOMAIN c : c[i].from = b /\ c[i].len > 0 /\ c[i].skip
    /\ \A i \in DOMAIN c : c[i].len > 0 /\ c[i].skip /\ (i > 1 \/ ~reported) =>
            c[i].from \in Due /\ c[i].from \notin lostAt
    /\ reported /\ c # <<>> /\ c[1].len > 0 /\ c[1].from \in Due =>
            c[1].from \in lostAt

\* What is still to be read is the batch on its way or what is left of it.
Outstanding ==
    ~left => CASE asm = "send" -> Spans(ret, taken, given) /\ (LossErrors => Announced(ret, FALSE, taken))
               [] asm = "wait" -> Spans(current, taken, given)
                                  /\ (LossErrors => Announced(current, lossReported, taken))
               [] OTHER -> taken = given

\* The end of the stream is found after ReassemblyComplete, or by Close.
Ended ==
    /\ reassembledClosed => asm \in {"closing", "done"}
    /\ rd \in {"signal", "receive"} => ~closed
    /\ ~left /\ (closed \/ eof) => asm \in {"closing", "done"}
    /\ ~closed /\ current = <<>> => ~lossReported
    /\ left => closed /\ current = <<>>

\* The losses reported are the Skips that were read past, each once.
Losses ==
    /\ taken <= given
    /\ \A b \in Due : b < given
    /\ \A b \in lostAt : b <= taken
    /\ lostAt \subseteq Due
    /\ IsFiniteSet(lostAt) /\ losses = Cardinality(lostAt)
    /\ LossErrors => \A b \in Due : b < taken => b \in lostAt

\* The inductive invariant of what is read, above the handshake.
ReadInv == TypeOK /\ Outstanding /\ Ended /\ Losses

\* Which losses are due is a matter of the Skips alone.
LEMMA DueSame == ASSUME skips' = skips PROVE Due' = Due
  BY DEF Due

LEMMA DueType == TypeOK => Due \subseteq Nat
  BY DEF TypeOK, Due, Told

\* A set of numbers has a least one.
LEMMA Least ==
    ASSUME NEW S \in SUBSET Nat, S # {}
    PROVE  \E i \in S : \A j \in S : i <= j
  <1> DEFINE R == OpToRel(<, Nat)
  <1>1. IsWellFoundedOn(R, Nat)
    BY NatLessThanWellFounded
  <1>2. PICK i \in S : \A j \in S : ~(<<j, i>> \in R)
    <2> HIDE DEF R
    <2> QED BY <1>1, WFMin
  <1>3. \A j \in S : ~(j < i)
    BY <1>2 DEF OpToRel
  <1> QED BY <1>3

\* The parts of a Reassembly.
LEMMA ToldParts ==
    ASSUME NEW c \in Seq(Told), NEW i \in DOMAIN c
    PROVE  c[i] \in Told /\ c[i].from \in Nat /\ c[i].len \in Nat /\ c[i].skip \in BOOLEAN
  <1>1. c[i] \in Told
    OBVIOUS
  <1> QED BY <1>1 DEF Told

\* d is c without the empty objects in front.
Rest(c, d) ==
    \/ d = <<>> /\ \A i \in DOMAIN c : c[i].len = 0
    \/ \E k \in 1 .. Len(c) :
        /\ c[k].len > 0 /\ \A i \in 1 .. (k - 1) : c[i].len = 0
        /\ Len(d) = Len(c) - k + 1
        /\ \A i \in 1 .. Len(d) : d[i] = c[i + k - 1]

\* stripEmpty drops the empty objects in front.
LEMMA Stripped ==
    ASSUME NEW c \in Seq(Told), NEW d, d = stripEmpty(c)
    PROVE  /\ d \in Seq(Told)
           /\ Rest(c, d)
  <1>1. CASE nonEmpty(c) = {}
    <2>1. d = <<>>
      BY <1>1 DEF stripEmpty
    <2>2. \A i \in DOMAIN c : c[i] \in Told /\ ~(c[i].len > 0)
      BY <1>1 DEF nonEmpty
    <2>3. \A i \in DOMAIN c : c[i].len = 0
      BY <2>2 DEF Told
    <2> QED BY <2>1, <2>3 DEF Rest
  <1>2. CASE nonEmpty(c) # {}
    <2> DEFINE k == CHOOSE i \in nonEmpty(c) : \A j \in nonEmpty(c) : i <= j
    <2>1. nonEmpty(c) \in SUBSET Nat
      BY DEF nonEmpty
    <2>2. k \in nonEmpty(c) /\ \A j \in nonEmpty(c) : k <= j
      BY <1>2, <2>1, Least
    <2>3. d = SubSeq(c, k, Len(c))
      BY <1>2 DEF stripEmpty
    <2> HIDE DEF k
    <2>4. k \in 1 .. Len(c) /\ c[k].len > 0
      BY <2>2 DEF nonEmpty
    <2>5. ASSUME NEW i \in 1 .. (k - 1) PROVE c[i].len = 0
      <3>1. i \in 1 .. Len(c) /\ i \notin nonEmpty(c)
        BY <2>2, <2>4
      <3>2. c[i] \in Told /\ ~(c[i].len > 0)
        BY <3>1 DEF nonEmpty
      <3> QED BY <3>2 DEF Told
    <2>6. /\ d \in Seq(Told) /\ Len(d) = Len(c) - k + 1
          /\ \A i \in 1 .. Len(d) : d[i] = c[i + k - 1]
      BY <2>3, <2>4
    <2> QED BY <2>4, <2>5, <2>6 DEF Rest
  <1> QED BY <1>1, <1>2

\* It leaves the bytes, and the first one to be read is in front.
LEMMA StrippedSpans ==
    ASSUME NEW c \in Seq(Told), NEW a \in Nat, NEW b \in Nat, Spans(c, a, b), a <= b,
           NEW d, d = stripEmpty(c)
    PROVE  /\ d \in Seq(Told) /\ Spans(d, a, b)
           /\ d # <<>> => d[1].len > 0 /\ d[1].from = a
           /\ d = <<>> => a = b
  <1>0. /\ d \in Seq(Told)
        /\ Rest(c, d)
    BY Stripped
  <1>1. \A i \in DOMAIN c : c[i].from \in Nat /\ c[i].len \in Nat
    BY ToldParts
  <1>2. CASE d = <<>> /\ \A i \in DOMAIN c : c[i].len = 0
    <2>1. a = b
      <3>1. ASSUME a # b PROVE FALSE
        <4>1. a \in a .. (b - 1)
          BY <3>1
        <4>2. PICK i \in DOMAIN c : c[i].from <= a /\ a < c[i].from + c[i].len
          BY <4>1 DEF Spans
        <4> QED BY <1>1, <1>2, <4>2
      <3> QED BY <3>1
    <2> QED BY <1>2, <2>1 DEF Spans
  <1>3. ASSUME NEW k \in 1 .. Len(c), c[k].len > 0, \A i \in 1 .. (k - 1) : c[i].len = 0,
               d \in Seq(Told), Len(d) = Len(c) - k + 1,
               \A i \in 1 .. Len(d) : d[i] = c[i + k - 1]
        PROVE  /\ Spans(d, a, b) /\ d # <<>>
               /\ d[1].len > 0 /\ d[1].from = a
    <2>0. DOMAIN d = 1 .. Len(d) /\ \A i \in 1 .. Len(d) : i + k - 1 \in DOMAIN c
      BY <1>3
    <2>1. \A i \in DOMAIN d : a <= d[i].from /\ d[i].from + d[i].len <= b
      BY <1>3, <2>0 DEF Spans
    <2>2. \A i, j \in DOMAIN d : i < j => d[i].from + d[i].len <= d[j].from
      <3> TAKE i, j \in DOMAIN d
      <3> HAVE i < j
      <3>1. i + k - 1 < j + k - 1
        BY <2>0
      <3>2. i + k - 1 \in DOMAIN c /\ j + k - 1 \in DOMAIN c
        BY <2>0
      <3>3. c[i + k - 1].from + c[i + k - 1].len <= c[j + k - 1].from
        BY <3>1, <3>2 DEF Spans
      <3>4. d[i] = c[i + k - 1] /\ d[j] = c[j + k - 1]
        BY <1>3, <2>0
      <3> QED BY <3>3, <3>4
    <2>3. ASSUME NEW x \in a .. (b - 1)
          PROVE  \E i \in DOMAIN d : d[i].from <= x /\ x < d[i].from + d[i].len
      <3>1. PICK i \in DOMAIN c : c[i].from <= x /\ x < c[i].from + c[i].len
        BY DEF Spans
      <3>2. i >= k
        BY <1>1, <1>3, <3>1
      <3>3. i - k + 1 \in DOMAIN d /\ d[i - k + 1] = c[i]
        BY <1>3, <2>0, <3>2
      <3> QED BY <3>1, <3>3
    <2>4. 1 \in DOMAIN d /\ d[1] = c[k]
      BY <1>3, <2>0
    <2>5. d[1].from = a
      <3>1. a <= c[k].from /\ c[k].from + c[k].len <= b
        BY <1>3 DEF Spans
      <3>a. c[k].from \in Nat /\ c[k].len \in Nat /\ c[k].len > 0
        BY <1>1, <1>3
      <3>2. a \in a .. (b - 1)
        BY <3>1, <3>a
      <3>3. PICK i \in DOMAIN c : c[i].from <= a /\ a < c[i].from + c[i].len
        BY <3>2 DEF Spans
      <3>4. i >= k
        BY <1>1, <1>3, <3>3
      <3>5. i > k => c[k].from + c[k].len <= c[i].from
        BY <1>3 DEF Spans
      <3>6. i = k
        <4>1. ASSUME i > k PROVE FALSE
          <5>1. c[i].from \in Nat /\ c[k].from + c[k].len <= c[i].from
            BY <1>1, <3>5, <4>1
          <5> QED BY <3>1, <3>3, <3>a, <5>1
        <4> QED BY <3>4, <4>1
      <3> QED BY <1>1, <1>3, <2>4, <3>1, <3>3, <3>6
    <2> QED BY <1>3, <2>1, <2>2, <2>3, <2>4, <2>5 DEF Spans
  <1> QED BY <1>0, <1>2, <1>3 DEF Rest

\* The flag is that of the object in front, which stripEmpty may change.
LEMMA StrippedAnnounced ==
    ASSUME NEW c \in Seq(Told), NEW reported \in BOOLEAN, NEW a \in Nat,
           Announced(c, reported, a), NEW d, d = stripEmpty(c)
    PROVE  Announced(d, stripReported(c, reported), a)
  <1>0. /\ d \in Seq(Told)
        /\ Rest(c, d)
    BY Stripped
  <1>1. \A i \in DOMAIN c : c[i].from \in Nat /\ c[i].len \in Nat
    BY ToldParts
  <1>2. CASE d = <<>> /\ \A i \in DOMAIN c : c[i].len = 0
    BY <1>1, <1>2 DEF Announced
  <1>3. ASSUME NEW k \in 1 .. Len(c), c[k].len > 0, \A i \in 1 .. (k - 1) : c[i].len = 0,
               d \in Seq(Told), Len(d) = Len(c) - k + 1,
               \A i \in 1 .. Len(d) : d[i] = c[i + k - 1]
        PROVE  Announced(d, stripReported(c, reported), a)
    <2>0. DOMAIN d = 1 .. Len(d) /\ \A i \in 1 .. Len(d) : i + k - 1 \in DOMAIN c
      BY <1>3
    <2>1. stripReported(c, reported) = (reported /\ k = 1)
      <3>1. k = 1 => c[1].len > 0
        BY <1>3
      <3>2. k # 1 => ~(c[1].len > 0)
        BY <1>3
      <3>3. c # <<>>
        BY <1>3
      <3> QED BY <3>1, <3>2, <3>3 DEF stripReported
    <2>2. ASSUME NEW b \in Due, b >= a
          PROVE  \E i \in DOMAIN d : d[i].from = b /\ d[i].len > 0 /\ d[i].skip
      <3>1. PICK i \in DOMAIN c : c[i].from = b /\ c[i].len > 0 /\ c[i].skip
        BY <2>2 DEF Announced
      <3>2. i >= k
        BY <1>1, <1>3, <3>1
      <3>3. i - k + 1 \in DOMAIN d /\ d[i - k + 1] = c[i]
        BY <1>3, <2>0, <3>2
      <3> QED BY <3>1, <3>3
    <2>3. ASSUME NEW i \in DOMAIN d, d[i].len > 0, d[i].skip, i > 1 \/ ~(reported /\ k = 1)
          PROVE  d[i].from \in Due /\ d[i].from \notin lostAt
      <3>1. i + k - 1 \in DOMAIN c /\ d[i] = c[i + k - 1]
        BY <1>3, <2>0
      <3>2. i + k - 1 > 1 \/ ~reported
        BY <2>0, <2>3
      <3> QED BY <2>3, <3>1, <3>2 DEF Announced
    <2>4. reported /\ k = 1 /\ d # <<>> /\ d[1].len > 0 /\ d[1].from \in Due =>
            d[1].from \in lostAt
      BY <1>3, <2>0 DEF Announced
    <2> QED BY <2>1, <2>2, <2>3, <2>4 DEF Announced
  <1> QED BY <1>0, <1>2, <1>3 DEF Rest

\* A batch has the bytes from its first one on.
LEMMA BatchSpans ==
    ASSUME NEW batch \in Batches, NEW n \in Nat
    PROVE  /\ Batch(n, batch) \in Seq(Told)
           /\ batch.ends[Len(batch.skip)] \in Nat
           /\ Spans(Batch(n, batch), n, n + batch.ends[Len(batch.skip)])
  <1>0. PICK told, ends : told = Batch(n, batch) /\ ends = batch.ends
    OBVIOUS
  <1>1. PICK k \in 1 .. MaxBatch : batch \in [ends : Ends(k), skip : [1 .. k -> BOOLEAN]]
    BY DEF Batches
  <1>2. k \in Nat /\ k >= 1 /\ ends \in Ends(k) /\ batch.skip \in [1 .. k -> BOOLEAN]
    BY <1>0, <1>1, ReaderAssumption
  <1>3. DOMAIN batch.skip = 1 .. k /\ Len(batch.skip) = k
    BY <1>2
  <1>4. /\ \A i \in 0 .. k : ends[i] \in Nat
        /\ ends[0] = 0
        /\ \A i, j \in 0 .. k : i <= j => ends[i] <= ends[j]
    <2>1. ends \in [0 .. k -> 0 .. (k * MaxBytes)]
      BY <1>2 DEF Ends
    <2>2. PICK m : m = k * MaxBytes
      OBVIOUS
    <2>3. \A i \in 0 .. k : ends[i] \in 0 .. m
      BY <2>1, <2>2
    <2>4. \A i \in 0 .. k : ends[i] \in Nat
      BY <2>3
    <2>5. ends[0] = 0 /\ \A i, j \in 0 .. k : i <= j => ends[i] <= ends[j]
      BY <1>2, Zenon DEF Ends
    <2> QED BY <2>4, <2>5
  <1>5. told = [i \in 1 .. k |-> [from |-> n + ends[i - 1], len |-> ends[i] - ends[i - 1], skip |-> batch.skip[i]]]
    BY <1>0, <1>3 DEF Batch
  <1>6. \A i \in 1 .. k : /\ i - 1 \in 0 .. k /\ i \in 0 .. k
                          /\ ends[i] \in Nat /\ ends[i - 1] \in Nat /\ ends[i - 1] <= ends[i]
    BY <1>2, <1>4
  <1>7. \A i \in 1 .. k : told[i].from = n + ends[i - 1] /\ told[i].len = ends[i] - ends[i - 1]
                          /\ told[i].from + told[i].len = n + ends[i] /\ told[i] \in Told
    <2> TAKE i \in 1 .. k
    <2>1. told[i] = [from |-> n + ends[i - 1], len |-> ends[i] - ends[i - 1],
                     skip |-> batch.skip[i]]
      BY <1>5
    <2>2. n + ends[i - 1] \in Nat /\ ends[i] - ends[i - 1] \in Nat
          /\ n + ends[i - 1] + (ends[i] - ends[i - 1]) = n + ends[i]
      BY <1>6
    <2>3. batch.skip[i] \in BOOLEAN
      BY <1>2
    <2> QED BY <2>1, <2>2, <2>3 DEF Told
  <1>8. told \in Seq(Told) /\ DOMAIN told = 1 .. k
    BY <1>2, <1>5, <1>7
  <1>9. ASSUME NEW i \in 1 .. k PROVE n <= told[i].from /\ told[i].from + told[i].len <= n + ends[k]
    <2>1. ends[i] <= ends[k] /\ ends[k] \in Nat
      BY <1>2, <1>4
    <2> QED BY <1>6, <1>7, <2>1
  <1>10. ASSUME NEW i \in 1 .. k, NEW j \in 1 .. k, i < j
         PROVE  told[i].from + told[i].len <= told[j].from
    <2>1. i <= j - 1 /\ j - 1 \in 0 .. k /\ i \in 0 .. k
      BY <1>2, <1>10
    <2>2. ends[i] <= ends[j - 1]
      BY <1>4, <2>1
    <2> QED BY <1>6, <1>7, <2>2
  <1>11. ASSUME NEW x \in n .. ((n + ends[k]) - 1)
         PROVE  \E i \in 1 .. k : told[i].from <= x /\ x < told[i].from + told[i].len
    <2> DEFINE S == {i \in 1 .. k : x < n + ends[i]}
    <2>1. k \in S /\ S \in SUBSET Nat
      BY <1>2, <1>4
    <2>2. PICK i \in S : \A j \in S : i <= j
      <3> HIDE DEF S
      <3> QED BY <2>1, Least
    <2>3. i \in 1 .. k /\ x < n + ends[i]
      BY <2>2
    <2>4. CASE i = 1
      BY <1>4, <1>7, <2>3, <2>4
    <2>5. CASE i # 1
      <3>1. i - 1 \in 1 .. k /\ i - 1 \notin S
        BY <2>2, <2>3, <2>5
      <3>2. ~(x < n + ends[i - 1])
        BY <3>1
      <3> QED BY <1>6, <1>7, <2>3, <3>2
    <2> QED BY <2>4, <2>5
  <1>12. Spans(told, n, n + ends[k])
    <2>1. \A i \in DOMAIN told : n <= told[i].from /\ told[i].from + told[i].len <= n + ends[k]
      BY <1>8, <1>9
    <2>2. \A i, j \in DOMAIN told : i < j => told[i].from + told[i].len <= told[j].from
      BY <1>8, <1>10
    <2>3. \A x \in n .. ((n + ends[k]) - 1) :
                \E i \in DOMAIN told : told[i].from <= x /\ x < told[i].from + told[i].len
      BY <1>8, <1>11
    <2> QED BY <2>1, <2>2, <2>3 DEF Spans
  <1>13. ends[k] \in Nat
    BY <1>2, <1>4
  <1> QED BY <1>0, <1>3, <1>8, <1>12, <1>13

\* Read returns with the object in front: DataLost, or some of its bytes.
LEMMA ReturnStep ==
    ASSUME TypeOK, Losses, NEW c \in Seq(Told), c # <<>>, c[1].len > 0, c[1].from = taken,
           Spans(c, taken, given), NEW reported \in BOOLEAN,
           LossErrors => Announced(c, reported, taken),
           NEW n \in Nat, Return(c, reported, n), given' = given, Due' = Due
    PROVE  /\ current' \in Seq(Told) /\ current' # <<>>
           /\ taken' \in Nat /\ losses' \in Nat /\ lossReported' \in BOOLEAN
           /\ lostAt' \subseteq Nat
           /\ Spans(current, taken, given)'
           /\ LossErrors => Announced(current, lossReported, taken)'
           /\ Losses'
  <1>1. /\ taken \in Nat /\ given \in Nat /\ losses \in Nat
        /\ Due \subseteq Nat /\ lostAt \subseteq Nat
    BY DueType DEF TypeOK
  <1>2. 1 \in DOMAIN c /\ c[1] \in Told /\ c[1].from \in Nat /\ c[1].len \in Nat
        /\ c[1].skip \in BOOLEAN
    BY ToldParts
  <1>3. \A i \in DOMAIN c : c[i].from \in Nat /\ c[i].len \in Nat /\ i \in Nat /\ i >= 1
    BY ToldParts
  <1>4. CASE LossErrors /\ ~reported /\ c[1].skip
    <2>1. /\ lossReported' = TRUE /\ current' = c /\ losses' = losses + 1
          /\ lostAt' = lostAt \cup {taken} /\ taken' = taken
      BY <1>4 DEF Return
    <2>2. Spans(current, taken, given)'
      BY <2>1 DEF Spans
    <2>3. taken \in Due /\ taken \notin lostAt
      BY <1>2, <1>4 DEF Announced
    <2>4. Announced(current, lossReported, taken)'
      <3>1. ASSUME NEW i \in DOMAIN c, i > 1, c[i].len > 0, c[i].skip
            PROVE  c[i].from \in Due /\ c[i].from \notin lostAt /\ c[i].from # taken
        <4>1. c[1].from + c[1].len <= c[i].from
          BY <1>2, <3>1 DEF Spans
        <4>2. c[i].from # taken
          BY <1>1, <1>2, <1>3, <4>1
        <4> QED BY <1>4, <3>1, <4>2 DEF Announced
      <3>2. \A i \in DOMAIN c : i > 1 \/ i = 1
        BY <1>3
      <3> QED BY <1>2, <1>4, <2>1, <3>1 DEF Announced
    <2>5. Losses'
      <3>1. IsFiniteSet(lostAt') /\ losses' = Cardinality(lostAt')
        <4>1. IsFiniteSet(lostAt) /\ losses = Cardinality(lostAt)
          BY DEF Losses
        <4> QED BY <2>1, <2>3, <4>1, FS_AddElement
      <3>2. \A b \in lostAt' : b <= taken
        BY <1>1, <2>1 DEF Losses
      <3>3. lostAt' \subseteq Due /\ lostAt \subseteq lostAt'
        BY <2>1, <2>3 DEF Losses
      <3> QED BY <1>1, <2>1, <3>1, <3>2, <3>3 DEF Losses
    <2> QED BY <1>1, <2>1, <2>2, <2>4, <2>5
  <1>5. CASE ~(LossErrors /\ ~reported /\ c[1].skip)
    <2> DEFINE length == IF n < c[1].len THEN n ELSE c[1].len
               head == [from |-> c[1].from + length, len |-> c[1].len - length, skip |-> c[1].skip]
    <2>1. /\ lossReported' = reported /\ current' = [c EXCEPT ![1] = head]
          /\ losses' = losses /\ lostAt' = lostAt /\ taken' = taken + length
      BY <1>5 DEF Return
    <2>2. length \in Nat /\ length <= c[1].len
      BY <1>2
    <2> HIDE DEF length
    <2>3. /\ head \in Told /\ head.from = taken + length
          /\ head.from + head.len = taken + c[1].len /\ head.len = c[1].len - length
          /\ head.skip = c[1].skip
      <3>1. /\ head.from = taken + length /\ head.len = c[1].len - length
            /\ head.skip = c[1].skip
        OBVIOUS
      <3>2. taken + length \in Nat /\ c[1].len - length \in Nat
            /\ taken + length + (c[1].len - length) = taken + c[1].len
        BY <1>1, <1>2, <2>2
      <3>3. head \in Told
        BY <1>2, <3>2 DEF Told
      <3> QED BY <3>1, <3>2, <3>3
    <2> HIDE DEF head
    <2>4. /\ current' \in Seq(Told) /\ current' # <<>> /\ DOMAIN current' = DOMAIN c
          /\ current'[1] = head /\ \A i \in DOMAIN c : i > 1 => current'[i] = c[i]
      BY <1>2, <2>1, <2>3
    <2>5. taken + c[1].len <= given /\ taken' \in Nat /\ taken' <= given /\ taken <= taken'
      BY <1>1, <1>2, <2>1, <2>2 DEF Spans
    <2>6. ASSUME NEW i \in DOMAIN c, i > 1 PROVE taken + c[1].len <= c[i].from
      BY <1>2, <2>6 DEF Spans
    <2>7. Spans(current, taken, given)'
      <3>1. ASSUME NEW i \in DOMAIN c
            PROVE  taken' <= current'[i].from /\ current'[i].from + current'[i].len <= given
        <4>1. CASE i = 1
          BY <1>1, <2>1, <2>3, <2>4, <2>5, <4>1
        <4>2. CASE i > 1
          BY <1>1, <1>2, <1>3, <2>1, <2>2, <2>4, <2>6, <4>2 DEF Spans
        <4> QED BY <1>3, <4>1, <4>2
      <3>2. ASSUME NEW i \in DOMAIN c, NEW j \in DOMAIN c, i < j
            PROVE  current'[i].from + current'[i].len <= current'[j].from
        <4>1. CASE i = 1
          BY <1>3, <2>3, <2>4, <2>6, <3>2, <4>1
        <4>2. CASE i > 1
          <5>1. c[i].from + c[i].len <= c[j].from
            BY <1>2, <3>2 DEF Spans
          <5>2. j > 1
            BY <1>3, <3>2, <4>2
          <5> QED BY <2>4, <4>2, <5>1, <5>2
        <4> QED BY <1>3, <4>1, <4>2
      <3>3. ASSUME NEW x \in taken' .. (given - 1)
            PROVE  \E i \in DOMAIN c : current'[i].from <= x
                                       /\ x < current'[i].from + current'[i].len
        <4>1. x \in taken .. (given - 1) /\ x >= taken'
          BY <1>1, <2>5
        <4>2. PICK i \in DOMAIN c : c[i].from <= x /\ x < c[i].from + c[i].len
          BY <4>1 DEF Spans
        <4>3. CASE i = 1
          BY <1>1, <1>2, <2>1, <2>3, <2>4, <4>1, <4>2, <4>3
        <4>4. CASE i > 1
          BY <2>4, <4>2, <4>4
        <4> QED BY <1>3, <4>3, <4>4
      <3> QED BY <2>4, <3>1, <3>2, <3>3 DEF Spans
    <2>8. ASSUME NEW b \in Due, b >= taken, b < taken + c[1].len, LossErrors
          PROVE  b = taken /\ c[1].skip
      <3>1. PICK i \in DOMAIN c : c[i].from = b /\ c[i].len > 0 /\ c[i].skip
        BY <2>8 DEF Announced
      <3>2. ~(i > 1)
        BY <1>1, <1>2, <1>3, <2>6, <2>8, <3>1
      <3> QED BY <1>3, <3>1, <3>2
    <2>9. ASSUME LossErrors PROVE Announced(current, lossReported, taken)'
      <3>1. ASSUME NEW b \in Due, b >= taken'
            PROVE  \E i \in DOMAIN c : current'[i].from = b /\ current'[i].len > 0 /\ current'[i].skip
        <4>0. b \in Nat /\ b >= taken
          BY <1>1, <2>5, <3>1
        <4>1. PICK i \in DOMAIN c : c[i].from = b /\ c[i].len > 0 /\ c[i].skip
          BY <2>9, <4>0 DEF Announced
        <4>2. CASE i = 1
          <5>1. b = taken /\ length = 0
            BY <1>1, <2>1, <2>2, <3>1, <4>0, <4>1, <4>2
          <5> QED BY <1>1, <1>2, <2>3, <2>4, <4>1, <4>2, <5>1
        <4>3. CASE i > 1
          BY <2>4, <4>1, <4>3
        <4> QED BY <1>3, <4>2, <4>3
      <3>2. ASSUME NEW i \in DOMAIN c, current'[i].len > 0, current'[i].skip, i > 1 \/ ~reported
            PROVE  current'[i].from \in Due /\ current'[i].from \notin lostAt
        <4>1. i > 1
          BY <1>2, <1>3, <1>5, <2>3, <2>4, <2>9, <3>2
        <4> QED BY <2>4, <2>9, <3>2, <4>1 DEF Announced
      <3>3. ASSUME reported, current'[1].len > 0, current'[1].from \in Due
            PROVE  current'[1].from \in lostAt
        <4>1. /\ head.from >= taken /\ head.from < taken + c[1].len
          BY <1>1, <1>2, <2>2, <2>3, <2>4, <3>3
        <4>2. head.from = taken
          BY <2>4, <2>8, <2>9, <3>3, <4>1
        <4> QED BY <1>2, <2>4, <2>9, <3>3, <4>2 DEF Announced
      <3> QED BY <2>1, <2>4, <3>1, <3>2, <3>3 DEF Announced
    <2>10. Losses'
      <3>1. ASSUME LossErrors, NEW b \in Due, b < taken' PROVE b \in lostAt
        <4>1. CASE b < taken
          BY <3>1, <4>1 DEF Losses
        <4>2. CASE ~(b < taken)
          <5>1. b \in Nat /\ b >= taken /\ b < taken + c[1].len
            BY <1>1, <1>2, <2>1, <2>2, <3>1, <4>2
          <5>2. b = taken /\ c[1].skip
            BY <2>8, <3>1, <5>1
          <5> QED BY <1>2, <1>5, <3>1, <5>2 DEF Announced
        <4> QED BY <4>1, <4>2
      <3>2. \A b \in lostAt : b <= taken'
        BY <1>1, <2>5 DEF Losses
      <3> QED BY <2>1, <2>5, <3>1, <3>2 DEF Losses
    <2> QED BY <1>1, <2>1, <2>4, <2>5, <2>7, <2>9, <2>10
  <1> QED BY <1>4, <1>5

\* The empty batch.
LEMMA NothingTold == <<>> \in Seq(Told)
  OBVIOUS

\* Nothing is outstanding at the start.
LEMMA InitReads == Init => ReadInv
  <1> SUFFICES ASSUME Init PROVE ReadInv
    OBVIOUS
  <1>1. TypeOK
    BY NothingTold DEF Init, TypeOK
  <1>2. Losses
    BY FS_EmptySet DEF Init, Losses, Due
  <1> QED BY <1>1, <1>2 DEF Init, ReadInv, Outstanding, Ended

\* A new batch: all that came before was read.
LEMMA ReassembledReads ==
    ASSUME IInv, ReadInv, NEW batch \in Batches, Reassembled(batch)
    PROVE  ReadInv'
  <1> DEFINE fresh == {ret'[i].from : i \in {j \in DOMAIN ret' : ret'[j].len > 0 /\ ret'[j].skip}}
             n == batch.ends[Len(batch.skip)]
  <1>1. /\ asm = "idle" /\ asm' = "send" /\ ret' = Batch(given, batch)
        /\ given' = given + n /\ batches' = batches + 1
        /\ skips' = skips \cup {ret'[i] : i \in {j \in DOMAIN ret' : ret'[j].skip}}
    BY DEF Reassembled
  <1>2. /\ rd' = rd /\ reassembledClosed' = reassembledClosed /\ doneClosed' = doneClosed
        /\ size' = size /\ current' = current /\ closed' = closed
        /\ lossReported' = lossReported /\ first' = first /\ taken' = taken /\ eof' = eof
        /\ losses' = losses /\ lostAt' = lostAt /\ left' = left
    BY DEF Reassembled, chanVars, readVars
  <1>3. TypeOK /\ Losses /\ Ended /\ Outstanding
    BY DEF ReadInv
  <1>4. /\ taken \in Nat /\ given \in Nat /\ Due \subseteq Nat /\ lostAt \subseteq Nat
        /\ batches \in Nat
    BY <1>3, DueType DEF TypeOK
  <1>5. ret' \in Seq(Told) /\ n \in Nat /\ Spans(ret', given, given + n)
    BY <1>1, <1>4, BatchSpans
  <1> HIDE DEF n
  <1>6. \A i \in DOMAIN ret' : ret'[i].from \in Nat /\ ret'[i].len \in Nat
                               /\ given <= ret'[i].from /\ ret'[i].from + ret'[i].len <= given + n
    BY <1>5, ToldParts DEF Spans
  <1>7. fresh \subseteq Nat /\ \A b \in fresh : given <= b /\ b < given + n
    BY <1>4, <1>5, <1>6
  <1>13. Due' = Due \cup fresh
    <2>1. \A b : b \in Due' <=> \E r \in skips' : r.len > 0 /\ r.from = b
      BY DEF Due
    <2>2. \A b : b \in Due <=> \E r \in skips : r.len > 0 /\ r.from = b
      BY DEF Due
    <2>3. \A b : b \in fresh <=> \E i \in DOMAIN ret' : ret'[i].skip /\ ret'[i].len > 0 /\ ret'[i].from = b
      OBVIOUS
    <2>4. \A r : r \in skips' <=> r \in skips \/ \E i \in DOMAIN ret' : ret'[i].skip /\ ret'[i] = r
      BY <1>1
    <2> HIDE DEF fresh
    <2>5. ASSUME NEW b \in Due' PROVE b \in Due \/ b \in fresh
      <3>1. PICK r \in skips' : r.len > 0 /\ r.from = b
        BY <2>1
      <3>2. r \in skips \/ \E i \in DOMAIN ret' : ret'[i].skip /\ ret'[i] = r
        BY <2>4
      <3> QED BY <2>2, <2>3, <3>1, <3>2
    <2>6. ASSUME NEW b \in Due PROVE b \in Due'
      <3>1. PICK r \in skips : r.len > 0 /\ r.from = b
        BY <2>2
      <3> QED BY <2>1, <2>4, <3>1
    <2>7. ASSUME NEW b \in fresh PROVE b \in Due'
      <3>1. PICK i \in DOMAIN ret' : ret'[i].skip /\ ret'[i].len > 0 /\ ret'[i].from = b
        BY <2>3
      <3>2. ret'[i] \in skips'
        BY <2>4, <3>1
      <3> QED BY <2>1, <3>1, <3>2
    <2> QED BY <2>5, <2>6, <2>7
  <1>8. TypeOK'
    <2> HIDE DEF fresh
    <2>1. skips' \subseteq Told /\ given' \in Nat /\ batches' \in Nat
      <3>1. \A i \in DOMAIN ret' : ret'[i] \in Told
        BY <1>5
      <3> QED BY <1>1, <1>3, <1>4, <1>5, <3>1 DEF TypeOK
    <2> QED BY <1>1, <1>2, <1>3, <1>5, <2>1 DEF TypeOK
  <1>9. Ended'
    BY <1>1, <1>2, <1>3 DEF Ended
  <1>10. Losses'
    <2>1. taken' <= given'
      BY <1>1, <1>2, <1>3, <1>4, <1>5 DEF Losses
    <2>2. \A b \in Due' : b < given'
      <3> HIDE DEF fresh
      <3>1. given' = given + n /\ n \in Nat /\ given \in Nat
        BY <1>1, <1>4, <1>5
      <3>2. \A b \in Due : b \in Nat /\ b < given
        BY <1>3, <1>4 DEF Losses
      <3>3. ASSUME NEW b \in Due' PROVE b < given'
        <4>1. b \in Due \/ b \in fresh
          BY <1>13, <3>3
        <4>2. CASE b \in Due
          BY <3>1, <3>2, <4>2
        <4>3. CASE b \in fresh
          BY <1>7, <3>1, <4>3
        <4> QED BY <4>1, <4>2, <4>3
      <3> QED BY <3>3
    <2>3. lostAt' \subseteq Due'
      BY <1>2, <1>3, <1>13 DEF Losses
    <2>4. LossErrors => \A b \in Due' : b < taken' => b \in lostAt'
      <3>1. \A b \in fresh : ~(b < taken)
        BY <1>3, <1>4, <1>7 DEF Losses
      <3> QED BY <1>2, <1>3, <1>13, <3>1 DEF Losses
    <2> QED BY <1>2, <1>3, <2>1, <2>2, <2>3, <2>4 DEF Losses
  <1>11. ASSUME ~left PROVE Spans(ret, taken, given)' /\ Announced(ret, FALSE, taken)'
    <2>1. taken = given
      BY <1>1, <1>3, <1>11 DEF Outstanding
    <2>2. Spans(ret, taken, given)'
      BY <1>1, <1>2, <1>5, <2>1 DEF Spans
    <2>3. ASSUME NEW b \in Due', b >= taken
          PROVE  \E i \in DOMAIN ret' : ret'[i].from = b /\ ret'[i].len > 0 /\ ret'[i].skip
      <3>1. b \notin Due
        <4>1. ASSUME b \in Due PROVE FALSE
          <5>1. b < given /\ b \in Nat
            BY <1>3, <1>4, <4>1 DEF Losses
          <5> QED BY <1>4, <2>1, <2>3, <5>1
        <4> QED BY <4>1
      <3> QED BY <1>13, <2>3, <3>1
    <2>4. ASSUME NEW i \in DOMAIN ret', ret'[i].len > 0, ret'[i].skip
          PROVE  ret'[i].from \in Due' /\ ret'[i].from \notin lostAt
      <3>1. ret'[i].from \in fresh
        BY <2>4
      <3>2. ret'[i].from \notin Due
        BY <1>3, <1>4, <1>7, <3>1 DEF Losses
      <3> QED BY <1>3, <1>13, <3>1, <3>2 DEF Losses
    <2> HIDE DEF fresh
    <2>5. Announced(ret, FALSE, taken)'
      BY <1>2, <2>3, <2>4 DEF Announced
    <2> QED BY <2>2, <2>5
  <1>12. Outstanding'
    BY <1>1, <1>2, <1>11 DEF Outstanding
  <1> QED BY <1>8, <1>9, <1>10, <1>12 DEF ReadInv

\* Read takes from what is left of the last batch.
LEMMA ReadCurrentReads ==
    ASSUME IInv, ReadInv, NEW n \in ReadSizes, ReadCurrent(n)
    PROVE  ReadInv'
  <1> DEFINE c == stripEmpty(current)
             reported == stripReported(current, lossReported)
  <1>1. /\ rd = "idle" /\ c # <<>> /\ size' = n /\ Return(c, reported, n)
    BY DEF ReadCurrent
  <1>2. /\ asm' = asm /\ ret' = ret /\ batches' = batches /\ given' = given /\ skips' = skips /\ Due' = Due
        /\ reassembledClosed' = reassembledClosed /\ doneClosed' = doneClosed /\ first' = first
        /\ rd' = "idle" /\ closed' = closed /\ eof' = eof /\ left' = left
    BY DueSame DEF ReadCurrent, Return, asmVars, chanVars
  <1>3. TypeOK /\ Losses /\ Ended /\ Outstanding
    BY DEF ReadInv
  <1>4. asm = "wait"
    BY <1>1 DEF IInv, Held
  <1>5. current # <<>>
    BY <1>1, StripEmptyOfNothing
  <1>6. ~left
    BY <1>3, <1>5 DEF Ended
  <1>7. Spans(current, taken, given) /\ (LossErrors => Announced(current, lossReported, taken))
    BY <1>3, <1>4, <1>6 DEF Outstanding
  <1>8. /\ taken \in Nat /\ given \in Nat /\ current \in Seq(Told) /\ lossReported \in BOOLEAN
        /\ n \in Nat
    BY <1>3, ReaderAssumption DEF TypeOK
  <1>9. taken <= given
    BY <1>3 DEF Losses
  <1>10. c \in Seq(Told) /\ c[1].len > 0 /\ c[1].from = taken /\ Spans(c, taken, given)
    BY <1>1, <1>7, <1>8, <1>9, StrippedSpans
  <1>11. LossErrors => Announced(c, reported, taken)
    BY <1>7, <1>8, StrippedAnnounced
  <1>12. reported \in BOOLEAN
    BY <1>8 DEF stripReported
  <1> HIDE DEF c, reported
  <1>13. /\ current' \in Seq(Told) /\ current' # <<>>
         /\ taken' \in Nat /\ losses' \in Nat /\ lossReported' \in BOOLEAN
         /\ lostAt' \subseteq Nat
         /\ Spans(current, taken, given)'
         /\ LossErrors => Announced(current, lossReported, taken)'
         /\ Losses'
    BY <1>1, <1>2, <1>3, <1>8, <1>10, <1>11, <1>12, ReturnStep
  <1>14. TypeOK'
    BY <1>1, <1>2, <1>3, <1>8, <1>13 DEF TypeOK
  <1>15. Outstanding' /\ Ended'
    BY <1>2, <1>3, <1>4, <1>6, <1>13 DEF Outstanding, Ended
  <1> QED BY <1>13, <1>14, <1>15 DEF ReadInv

\* Read takes from the batch it receives, or drops an empty one.
LEMMA ReceiveReads ==
    ASSUME IInv, ReadInv, Receive
    PROVE  ReadInv'
  <1> DEFINE c == stripEmpty(ret)
             reported == stripReported(ret, lossReported)
  <1>1. /\ rd = "receive" /\ asm = "send" /\ asm' = "wait"
        /\ ret' = ret /\ batches' = batches /\ given' = given /\ skips' = skips /\ Due' = Due
        /\ reassembledClosed' = reassembledClosed /\ doneClosed' = doneClosed
        /\ size' = size /\ first' = first /\ closed' = closed /\ eof' = eof /\ left' = left
    BY DueSame DEF Receive, Return, chanVars
  <1>3. TypeOK /\ Losses /\ Ended /\ Outstanding
    BY DEF ReadInv
  <1>4. ~closed /\ current = <<>> /\ ~lossReported
    BY <1>1, <1>3 DEF IInv, Held, Ended
  <1>6. ~left
    BY <1>3, <1>4 DEF Ended
  <1>7. Spans(ret, taken, given) /\ (LossErrors => Announced(ret, FALSE, taken))
    BY <1>1, <1>3, <1>6 DEF Outstanding
  <1>8. /\ taken \in Nat /\ given \in Nat /\ ret \in Seq(Told) /\ size \in Nat
        /\ lossReported = FALSE
    BY <1>3, <1>4 DEF TypeOK
  <1>9. taken <= given
    BY <1>3 DEF Losses
  <1>10. /\ c \in Seq(Told) /\ Spans(c, taken, given)
         /\ c # <<>> => c[1].len > 0 /\ c[1].from = taken
    BY <1>7, <1>8, <1>9, StrippedSpans
  <1>11. LossErrors => Announced(c, reported, taken)
    BY <1>7, <1>8, StrippedAnnounced
  <1>12. reported = FALSE
    BY <1>8 DEF stripReported
  <1>13. CASE c # <<>>
    <2>1. Return(c, reported, size)
      BY <1>13 DEF Receive
    <2> HIDE DEF c, reported
    <2>2. /\ current' \in Seq(Told) /\ current' # <<>>
          /\ taken' \in Nat /\ losses' \in Nat /\ lossReported' \in BOOLEAN
          /\ lostAt' \subseteq Nat
          /\ Spans(current, taken, given)'
          /\ LossErrors => Announced(current, lossReported, taken)'
          /\ Losses'
      BY <1>1, <1>3, <1>8, <1>10, <1>11, <1>12, <1>13, <2>1, ReturnStep
    <2>3. rd' = "idle"
      BY <2>1 DEF Return
    <2>4. TypeOK'
      BY <1>1, <1>3, <1>8, <2>2, <2>3 DEF TypeOK
    <2>5. Outstanding' /\ Ended'
      BY <1>1, <1>3, <1>4, <1>6, <2>2, <2>3 DEF Outstanding, Ended
    <2> QED BY <2>2, <2>4, <2>5 DEF ReadInv
  <1>14. CASE c = <<>>
    <2>1. /\ rd' = "signal" /\ current' = <<>> /\ lossReported' = reported
          /\ taken' = taken /\ losses' = losses /\ lostAt' = lostAt
      BY <1>14 DEF Receive
    <2> HIDE DEF c, reported
    <2>2. TypeOK'
      BY <1>1, <1>3, <1>12, <2>1, NothingTold DEF TypeOK
    <2>3. Losses'
      BY <1>1, <1>3, <2>1 DEF Losses
    <2>4. Spans(current, taken, given)' /\ (LossErrors => Announced(current, lossReported, taken)')
      <3>1. current' = c /\ lossReported' = reported
        BY <1>14, <2>1
      <3> QED BY <1>1, <1>10, <1>11, <2>1, <3>1 DEF Spans, Announced
    <2>5. Outstanding' /\ Ended'
      BY <1>1, <1>3, <1>4, <1>6, <1>12, <2>1, <2>4 DEF Outstanding, Ended
    <2> QED BY <2>2, <2>3, <2>5 DEF ReadInv
  <1> QED BY <1>13, <1>14

\* Every step keeps what is outstanding in front of the reader.
LEMMA StepReads == IInv /\ ReadInv /\ [Next]_vars => ReadInv'
  <1> SUFFICES ASSUME IInv, ReadInv, [Next]_vars PROVE ReadInv'
    OBVIOUS
  <1>0. TypeOK /\ Losses /\ Ended /\ Outstanding
    BY DEF ReadInv
  <1>1. ASSUME NEW b \in Batches, Reassembled(b) PROVE ReadInv'
    BY <1>1, ReassembledReads
  <1>2. CASE ReassemblyComplete
    <2>1. TypeOK' /\ Losses'
      BY <1>0, <1>2, DueSame DEF ReassemblyComplete, readVars, TypeOK, Losses
    <2>2. Outstanding' /\ Ended'
      BY <1>0, <1>2, DueSame DEF ReassemblyComplete, readVars, Outstanding, Ended
    <2> QED BY <2>1, <2>2 DEF ReadInv
  <1>3. CASE CloseDone
    <2>1. TypeOK' /\ Losses'
      BY <1>0, <1>3, DueSame DEF CloseDone, readVars, TypeOK, Losses
    <2>2. Outstanding' /\ Ended'
      BY <1>0, <1>3, DueSame DEF CloseDone, readVars, Outstanding, Ended
    <2> QED BY <2>1, <2>2 DEF ReadInv
  <1>4. ASSUME NEW n \in ReadSizes, ReadCurrent(n) PROVE ReadInv'
    BY <1>4, ReadCurrentReads
  <1>5. ASSUME NEW n \in ReadSizes, ReadEOF(n) PROVE ReadInv'
    <2>1. /\ asm' = asm /\ ret' = ret /\ batches' = batches /\ given' = given /\ skips' = skips /\ Due' = Due
          /\ reassembledClosed' = reassembledClosed /\ doneClosed' = doneClosed /\ rd' = rd
          /\ closed /\ closed' = closed /\ first' = first /\ taken' = taken /\ losses' = losses
          /\ lostAt' = lostAt /\ left' = left /\ current' = <<>> /\ size' = n
          /\ lossReported' = stripReported(current, lossReported) /\ eof' = (eof \/ ~left)
      BY <1>5, DueSame DEF ReadEOF, asmVars, chanVars
    <2>2. TypeOK'
      BY <1>0, <2>1, NothingTold, ReaderAssumption DEF TypeOK, stripReported
    <2>3. Losses'
      BY <1>0, <2>1 DEF Losses
    <2>4. Outstanding'
      BY <1>0, <2>1 DEF Outstanding, Ended
    <2>5. Ended'
      BY <1>0, <2>1 DEF Ended
    <2> QED BY <2>2, <2>3, <2>4, <2>5 DEF ReadInv
  <1>6. ASSUME NEW n \in ReadSizes, ReadMore(n) PROVE ReadInv'
    <2>1. /\ asm' = asm /\ ret' = ret /\ batches' = batches /\ given' = given /\ skips' = skips /\ Due' = Due
          /\ reassembledClosed' = reassembledClosed /\ doneClosed' = doneClosed /\ rd = "idle"
          /\ ~closed /\ closed' = closed /\ first' = FALSE /\ taken' = taken /\ losses' = losses
          /\ lostAt' = lostAt /\ left' = left /\ eof' = eof /\ current' = <<>> /\ size' = n
          /\ lossReported' = stripReported(current, lossReported)
          /\ stripEmpty(current) = <<>> /\ rd' \in {"receive", "signal"}
      BY <1>6, DueSame DEF ReadMore, asmVars, chanVars
    <2>2. /\ current \in Seq(Told) /\ taken \in Nat /\ given \in Nat
          /\ lossReported \in BOOLEAN /\ taken <= given
      BY <1>0 DEF TypeOK, Losses
    <2>3. ~stripReported(current, lossReported)
      <3>1. CASE current = <<>>
        BY <1>0, <2>1, <3>1 DEF Ended, stripReported
      <3>2. CASE current # <<>>
        <4>1. 1 \in DOMAIN current /\ \A i \in DOMAIN current : current[i].len = 0
          <5>1. Rest(current, <<>>)
            BY <2>1, <2>2, Stripped
          <5> QED BY <2>2, <3>2, <5>1 DEF Rest
        <4> QED BY <3>2, <4>1 DEF stripReported
      <3> QED BY <3>1, <3>2
    <2>4. TypeOK'
      BY <1>0, <2>1, <2>3, NothingTold, ReaderAssumption DEF TypeOK, stripReported
    <2>5. Losses'
      BY <1>0, <2>1 DEF Losses
    <2>6. ~left /\ asm = "wait" => /\ Spans(<<>>, taken, given)
                                   /\ LossErrors => Announced(<<>>, FALSE, taken)
      <3> SUFFICES ASSUME ~left, asm = "wait"
                   PROVE  /\ Spans(<<>>, taken, given)
                          /\ LossErrors => Announced(<<>>, FALSE, taken)
        OBVIOUS
      <3>1. /\ Spans(current, taken, given)
            /\ LossErrors => Announced(current, lossReported, taken)
        BY <1>0 DEF Outstanding
      <3>2. Spans(<<>>, taken, given)
        BY <2>1, <2>2, <3>1, StrippedSpans
      <3>3. LossErrors => Announced(<<>>, FALSE, taken)
        BY <2>1, <2>2, <2>3, <3>1, StrippedAnnounced DEF Announced
      <3> QED BY <3>2, <3>3
    <2>7. Outstanding'
      <3>1. ~left /\ asm = "wait" => /\ Spans(current, taken, given)'
                                     /\ LossErrors => Announced(current, lossReported, taken)'
        BY <2>1, <2>3, <2>6 DEF Spans, Announced
      <3>2. ~left /\ asm = "send" => /\ Spans(ret, taken, given)'
                                     /\ LossErrors => Announced(ret, FALSE, taken)'
        BY <1>0, <2>1 DEF Outstanding, Spans, Announced
      <3> QED BY <1>0, <2>1, <3>1, <3>2 DEF Outstanding
    <2>8. Ended'
      BY <1>0, <2>1, <2>3 DEF Ended
    <2> QED BY <2>4, <2>5, <2>7, <2>8 DEF ReadInv
  <1>7. CASE SignalDone
    <2>1. /\ asm = "wait" /\ rd = "signal" /\ asm' = "idle" /\ rd' = "receive"
          /\ current = <<>> /\ UNCHANGED <<ret, batches, given, skips, chanVars, readVars>>
      BY <1>7 DEF SignalDone, IInv, Held
    <2>2. TypeOK' /\ Losses'
      BY <1>0, <2>1, DueSame DEF readVars, chanVars, TypeOK, Losses
    <2>3. ~left => taken = given
      <3> SUFFICES ASSUME ~left PROVE taken = given
        OBVIOUS
      <3>1. Spans(<<>>, taken, given) /\ taken <= given /\ taken \in Nat /\ given \in Nat
        BY <1>0, <2>1 DEF Outstanding, Losses, TypeOK
      <3> QED BY <3>1, NothingTold, StripEmptyOfNothing, StrippedSpans
    <2>4. Outstanding' /\ Ended'
      BY <1>0, <2>1, <2>3, DueSame DEF readVars, chanVars, Outstanding, Ended
    <2> QED BY <2>2, <2>4 DEF ReadInv
  <1>8. CASE Receive
    BY <1>8, ReceiveReads
  <1>9. CASE ReceiveClosed
    <2>1. TypeOK' /\ Losses'
      BY <1>0, <1>9, DueSame DEF ReceiveClosed, asmVars, chanVars, TypeOK, Losses
    <2>2. Outstanding' /\ Ended'
      BY <1>0, <1>9, DueSame DEF ReceiveClosed, asmVars, chanVars, Outstanding, Ended
    <2> QED BY <2>1, <2>2 DEF ReadInv
  <1>10. CASE Close
    <2>1. TypeOK' /\ Losses'
      BY <1>0, <1>10, NothingTold, DueSame DEF Close, asmVars, chanVars, TypeOK, Losses
    <2>2. Outstanding' /\ Ended'
      BY <1>0, <1>10, DueSame DEF Close, asmVars, chanVars, Outstanding, Ended
    <2> QED BY <2>1, <2>2 DEF ReadInv
  <1>11. CASE CloseReceive
    <2>1. TypeOK' /\ Losses'
      BY <1>0, <1>11, DueSame DEF CloseReceive, readVars, chanVars, TypeOK, Losses
    <2>2. Outstanding' /\ Ended'
      BY <1>0, <1>11, DueSame DEF CloseReceive, readVars, chanVars, Outstanding, Ended, IInv, Handshake
    <2> QED BY <2>1, <2>2 DEF ReadInv
  <1>12. CASE CloseSignal
    <2>1. TypeOK' /\ Losses'
      BY <1>0, <1>12, DueSame DEF CloseSignal, readVars, chanVars, TypeOK, Losses
    <2>2. Outstanding' /\ Ended'
      BY <1>0, <1>12, DueSame DEF CloseSignal, readVars, chanVars, Outstanding, Ended, IInv, Handshake
    <2> QED BY <2>1, <2>2 DEF ReadInv
  <1>13. CASE CloseReturn
    <2>1. TypeOK' /\ Losses'
      BY <1>0, <1>13, DueSame DEF CloseReturn, readVars, asmVars, chanVars, TypeOK, Losses
    <2>2. Outstanding' /\ Ended'
      BY <1>0, <1>13, DueSame DEF CloseReturn, readVars, asmVars, chanVars, Outstanding, Ended
    <2> QED BY <2>1, <2>2 DEF ReadInv
  <1>14. CASE UNCHANGED vars
    <2>0. UNCHANGED <<asmVars, chanVars, rd, readVars>> /\ Due' = Due
      BY <1>14, DueSame DEF vars, asmVars
    <2>1. TypeOK' /\ Losses'
      BY <1>0, <2>0 DEF readVars, asmVars, chanVars, TypeOK, Losses
    <2>2. Outstanding' /\ Ended'
      BY <1>0, <1>14, DueSame DEF vars, readVars, asmVars, chanVars, Outstanding, Ended, Announced
    <2> QED BY <2>1, <2>2 DEF ReadInv
  <1> QED
    BY <1>1, <1>2, <1>3, <1>4, <1>5, <1>6, <1>7, <1>8, <1>9, <1>10, <1>11,
       <1>12, <1>13, <1>14 DEF Next, Reader, ReadCall, Closer

\* Before a Close, Read returns exactly the bytes that Reassembled was passed,
\* in order, and DataLost exactly once before the first byte of each Reassembly
\* with a Skip and bytes, and not for one without bytes, for any batches,
\* however they are cut, and any sizes passed to Read.
THEOREM ReadsEverything == Spec => []ReadsAll
  <1>1. IInv /\ ReadInv => ReadsAll
    <2> SUFFICES ASSUME IInv, ReadInv PROVE ReadsAll
      OBVIOUS
    <2>1. TypeOK /\ Losses /\ Ended /\ Outstanding
      BY DEF ReadInv
    <2>2. LossReported
      BY <2>1 DEF Losses, LossReported
    <2>3. ~left /\ stripEmpty(current) # <<>> => stripEmpty(current)[1].from = taken
      <3> SUFFICES ASSUME ~left, stripEmpty(current) # <<>>
                   PROVE  stripEmpty(current)[1].from = taken
        OBVIOUS
      <3>1. asm = "wait"
        BY DEF IInv, Held
      <3>2. Spans(current, taken, given) /\ taken <= given
            /\ current \in Seq(Told) /\ taken \in Nat /\ given \in Nat
        BY <2>1, <3>1 DEF Outstanding, Losses, TypeOK
      <3> QED BY <3>2, StrippedSpans
    <2>4. ~left /\ asm \in {"idle", "closing", "done"} => taken = given
      BY <2>1 DEF Outstanding
    <2> QED BY <2>1, <2>2, <2>3, <2>4 DEF ReadsAll, Ended
  <1> QED
    BY <1>1, InitHolds, StepHolds, InitReads, StepReads, PTL DEF Spec
=============================================================================
