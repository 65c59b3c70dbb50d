---------------------------- MODULE CaptureProofs ----------------------------
(***************************************************************************)
(* Proofs about how packets reach a consumer and how they are decoded.     *)
(*                                                                         *)
(* PcapHandle and PacketSource, for every number of handles, packets and   *)
(* places in the channel: HandleInv says what the mutex of a handle        *)
(* protects, SourceInv, which rests on it, where the goroutine is in its   *)
(* list of handles and what is on its way to the consumer.                 *)
(*                                                                         *)
(* PacketDecoding and LayerParser, for frames of every length: DecodeInv   *)
(* says that a lazy packet is one of the packets that decodeNextLayer goes *)
(* through, the last of which is the eager packet; ContainerInv says what  *)
(* the three containers have in common.                                    *)
(***************************************************************************)
EXTENDS PacketSource, LayerParser, FiniteSetTheorems, SequenceTheorems,
        WellFoundedInduction, TLAPS

\* The packets of the handles, and what else a read returns.
Data == Handles \X (1..MaxPackets)
Results == {EOF, ReadError, TimeoutExpired} \cup Data

\* A call of ReadPacketData.
Call == [pc : {"lock", "loop", "next", "wait", "unlock", "return"}, h : Handles,
         waited : BOOLEAN, result : Results]

\* Inside of the handle's mutex.
Inside == {"loop", "next", "wait", "unlock"}

\* The types of PcapHandle's variables.
HandleType ==
    /\ mode \in [Handles -> Modes]
    /\ cptr \in [Handles -> BOOLEAN] /\ stop \in [Handles -> BOOLEAN]
    /\ mu \in [Handles -> {"free", "reader"}]
    /\ closer \in [Handles -> {"no", "stopping", "closed"}]
    /\ arrived \in [Handles -> 0..MaxPackets] /\ taken \in [Handles -> 0..MaxPackets]
    /\ rd \in Call \cup {NoRead}

\* The reader that has the mutex has an open C handle, and a handle is closed
\* only after it was asked to stop.
Guarded ==
    \A h \in Handles :
        /\ mu[h] = "reader" <=> rd.pc \in Inside /\ rd.h = h
        /\ rd.pc \in {"loop", "next", "wait"} /\ rd.h = h => cptr[h]
        /\ ~cptr[h] \/ closer[h] # "no" => stop[h]
        /\ taken[h] <= arrived[h]

\* The inductive invariant of the handles.
HandleInv == HandleType /\ Guarded

-----------------------------------------------------------------------------
\* A handle that returns io.EOF: it is to be closed or its file is read.
Ended(h) == stop[h] \/ (mode[h] = "file" /\ taken[h] = arrived[h])

\* How many handles concat has dropped.
Past == Cardinality(Handles) - Len(sources)

\* The types of PacketSource's own variables.
SourceType ==
    /\ pc \in {"none", "read", "send", "sleep", "done"}
    /\ sources \in Seq(Handles) /\ Len(sources) <= Cardinality(Handles)
    /\ packet \in Data \cup {NoPacket}
    /\ c \in [buf : Seq(Data), closed : BOOLEAN]
    /\ received \in Seq(Data)

\* Where the goroutine is.
Control ==
    /\ rd # NoRead => pc = "read" /\ sources # <<>> /\ rd.h = Head(sources)
    /\ pc = "send" <=> packet # NoPacket
    /\ pc = "done" => sources = <<>>
    /\ c.closed => pc = "done"

\* The handles are read in turn: those that were dropped have ended, and from
\* those after the current one nothing was read.
InTurn ==
    /\ \A i \in 1..Len(sources) : sources[i] = Past + i
    /\ \A h \in Handles : (h <= Past => Ended(h)) /\ (h > Past + 1 => taken[h] = 0)
    /\ rd.pc \in {"unlock", "return"} /\ rd.result = EOF => Ended(rd.h)

\* s holds what was taken from every handle, in order.
Exactly(s, t) ==
    /\ {s[i] : i \in DOMAIN s} = UNION {{h} \X (1..t[h]) : h \in Handles}
    /\ \A i, j \in DOMAIN s : i < j => Precedes(s[i], s[j])

\* The inductive invariant of the source, above HandleInv.
SourceInv == SourceType /\ Control /\ InTurn /\ Exactly(Passed, taken)

-----------------------------------------------------------------------------
(* The handles.                                                            *)

\* The handles are numbered from 1.
LEMMA HandlesAre == /\ Cardinality(Handles) \in Nat /\ Handles = 1..Cardinality(Handles)
                    /\ MaxPackets \in Nat
  BY HandleAssumption, FS_CardinalityType

\* A call in progress, what it may become, and that no call is one.
LEMMA Calls ==
    /\ NoRead.pc = "none" /\ NoRead \notin Call
    /\ \A x \in Call : x.pc # "none" /\ x.h \in Handles /\ x.result \in Results
    /\ \A x \in Call : \A l \in {"loop", "next", "wait", "unlock", "return"} :
        /\ [x EXCEPT !.pc = l] \in Call /\ [x EXCEPT !.pc = l].pc = l
        /\ [x EXCEPT !.pc = l].h = x.h /\ [x EXCEPT !.pc = l].result = x.result
    /\ \A x \in Call : [x EXCEPT !.pc = "loop", !.waited = TRUE] \in Call
                       /\ [x EXCEPT !.pc = "loop", !.waited = TRUE].pc = "loop"
                       /\ [x EXCEPT !.pc = "loop", !.waited = TRUE].h = x.h
    /\ \A h \in Handles : \A w \in BOOLEAN : \A r \in Results :
        [pc |-> "lock", h |-> h, waited |-> w, result |-> r] \in Call
  <1>1. NoRead.pc = "none"
    BY DEF NoRead
  <1>2. \A x \in Call : x.pc # "none" /\ x.h \in Handles /\ x.result \in Results
    BY DEF Call
  <1>3. NoRead \notin Call
    BY <1>1, <1>2
  <1>4. \A x \in Call : \A l \in {"loop", "next", "wait", "unlock", "return"} :
        /\ [x EXCEPT !.pc = l] \in Call /\ [x EXCEPT !.pc = l].pc = l
        /\ [x EXCEPT !.pc = l].h = x.h /\ [x EXCEPT !.pc = l].result = x.result
    BY DEF Call
  <1>6. \A x \in Call : [x EXCEPT !.pc = "loop", !.waited = TRUE] \in Call
                       /\ [x EXCEPT !.pc = "loop", !.waited = TRUE].pc = "loop"
                       /\ [x EXCEPT !.pc = "loop", !.waited = TRUE].h = x.h
    BY DEF Call
  <1>7. \A h \in Handles : \A w \in BOOLEAN : \A r \in Results :
        [pc |-> "lock", h |-> h, waited |-> w, result |-> r] \in Call
    BY DEF Call
  <1> QED BY <1>1, <1>2, <1>3, <1>4, <1>6, <1>7

\* A call leaves its loop with a result.
LEMMA Leaves ==
    ASSUME rd \in Call, NEW r \in Results, rd' = [rd EXCEPT !.pc = "unlock", !.result = r]
    PROVE  rd' \in Call /\ rd'.pc = "unlock" /\ rd'.h = rd.h /\ rd'.result = r
  BY DEF Call

\* What a step of a read, or what libpcap may return, makes of the call.
LEMMA ReadMoves ==
    ASSUME HandleType, NEW h \in Handles, ReadStep(h) \/ NextUnsure(h)
    PROVE  /\ rd \in Call /\ rd' \in Call /\ rd.h = h /\ rd'.h = h
           /\ UNCHANGED <<mode, cptr, stop, closer, arrived>>
           /\ rd.pc \in {"lock"} \cup Inside
           /\ \/ rd.pc = "lock" /\ mu[h] = "free" /\ mu' = [mu EXCEPT ![h] = "reader"] /\ taken' = taken
                 /\ IF cptr[h] THEN rd'.pc = "loop" ELSE rd'.pc = "unlock" /\ rd'.result = EOF
              \/ rd.pc \in Inside \ {"unlock"} /\ mu' = mu /\ taken' = taken
                 /\ \/ rd'.pc \in Inside \ {"unlock"}
                    \/ rd'.pc = "unlock" /\ rd'.result \in {ReadError, TimeoutExpired}
                    \/ rd'.pc = "unlock" /\ rd'.result = EOF /\ Ended(h)
              \/ rd.pc = "next" /\ mu' = mu /\ taken[h] < arrived[h]
                 /\ taken' = [taken EXCEPT ![h] = @ + 1]
                 /\ rd'.pc = "unlock" /\ rd'.result = <<h, taken[h] + 1>>
              \/ rd.pc = "unlock" /\ mu' = [mu EXCEPT ![h] = "free"] /\ taken' = taken
                 /\ rd'.pc = "return" /\ rd'.result = rd.result
  <1>0. /\ rd.pc # "none" => rd \in Call
        /\ arrived \in [Handles -> 0..MaxPackets] /\ taken \in [Handles -> 0..MaxPackets]
        /\ EOF \in Results /\ ReadError \in Results /\ TimeoutExpired \in Results
    BY Calls DEF HandleType, Results
  <1> USE DEF Inside
  <1>1. CASE Lock(h)
    <2>1. CASE cptr[h]
      BY <1>0, <1>1, <2>1, Calls DEF Lock
    <2>2. CASE ~cptr[h]
      <3>1. rd' = [rd EXCEPT !.pc = "unlock", !.result = EOF] /\ rd \in Call
        BY <1>0, <1>1, <2>2 DEF Lock
      <3>2. rd' \in Call /\ rd'.pc = "unlock" /\ rd'.h = rd.h /\ rd'.result = EOF
        BY <1>0, <3>1, Leaves
      <3> QED BY <1>1, <2>2, <3>1, <3>2 DEF Lock
    <2> QED BY <2>1, <2>2
  <1>2. CASE Loop(h)
    <2>1. CASE ~stop[h]
      BY <1>0, <1>2, <2>1, Calls DEF Loop
    <2>2. CASE stop[h]
      <3>1. rd' = [rd EXCEPT !.pc = "unlock", !.result = EOF] /\ rd \in Call
        BY <1>0, <1>2, <2>2 DEF Loop
      <3>2. rd' \in Call /\ rd'.pc = "unlock" /\ rd'.h = rd.h /\ rd'.result = EOF
        BY <1>0, <3>1, Leaves
      <3> QED BY <1>2, <2>2, <3>1, <3>2 DEF Loop, Ended
    <2> QED BY <2>1, <2>2
  <1>3. CASE NextOk(h)
    <2>1. taken[h] \in 0..MaxPackets /\ arrived[h] \in 0..MaxPackets /\ taken[h] < arrived[h]
      BY <1>0, <1>3 DEF NextOk
    <2>2. taken[h] + 1 \in 1..MaxPackets
      BY <2>1, HandlesAre
    <2>3. <<h, taken[h] + 1>> \in Results
      BY <2>2 DEF Results, Data
    <2>4. rd' = [rd EXCEPT !.pc = "unlock", !.result = <<h, taken[h] + 1>>] /\ rd \in Call
      BY <1>0, <1>3 DEF NextOk
    <2>5. rd' \in Call /\ rd'.pc = "unlock" /\ rd'.h = rd.h /\ rd'.result = <<h, taken[h] + 1>>
      BY <2>3, <2>4, Leaves
    <2> QED BY <1>3, <2>4, <2>5 DEF NextOk
  <1>4. CASE NextEOF(h)
    <2>1. rd' = [rd EXCEPT !.pc = "unlock", !.result = EOF] /\ rd \in Call
      BY <1>0, <1>4 DEF NextEOF
    <2>2. rd' \in Call /\ rd'.pc = "unlock" /\ rd'.h = rd.h /\ rd'.result = EOF
      BY <1>0, <2>1, Leaves
    <2> QED BY <1>4, <2>1, <2>2 DEF NextEOF, Ended
  <1>5. CASE NextTimeout(h)
    <2>1. CASE ~rd.waited
      BY <1>0, <1>5, <2>1, Calls DEF NextTimeout
    <2>2. CASE rd.waited
      <3>1. rd' = [rd EXCEPT !.pc = "unlock", !.result = TimeoutExpired] /\ rd \in Call
        BY <1>0, <1>5, <2>2 DEF NextTimeout
      <3>2. rd' \in Call /\ rd'.pc = "unlock" /\ rd'.h = rd.h /\ rd'.result = TimeoutExpired
        BY <1>0, <3>1, Leaves
      <3> QED BY <1>5, <2>2, <3>1, <3>2 DEF NextTimeout
    <2> QED BY <2>1, <2>2
  <1>6. CASE WaitForPacket(h)
    BY <1>0, <1>6, Calls DEF WaitForPacket
  <1>7. CASE Unlock(h)
    BY <1>0, <1>7, Calls DEF Unlock
  <1>8. CASE NextError(h)
    <2>1. rd' = [rd EXCEPT !.pc = "unlock", !.result = ReadError] /\ rd \in Call
      BY <1>0, <1>8 DEF NextError
    <2>2. rd' \in Call /\ rd'.pc = "unlock" /\ rd'.h = rd.h /\ rd'.result = ReadError
      BY <1>0, <2>1, Leaves
    <2> QED BY <1>8, <2>1, <2>2 DEF NextError
  <1>9. CASE NextTimeoutForever(h)
    BY <1>0, <1>9, Calls DEF NextTimeoutForever
  <1> QED BY <1>1, <1>2, <1>3, <1>4, <1>5, <1>6, <1>7, <1>8, <1>9 DEF ReadStep, NextUnsure

\* The handles to begin with.
LEMMA InitHandles == Init => HandleInv
  <1> SUFFICES ASSUME Init PROVE HandleInv
    OBVIOUS
  <1>1. arrived \in [Handles -> 0..MaxPackets] /\ taken \in [Handles -> 0..MaxPackets]
        /\ \A h \in Handles : taken[h] <= arrived[h]
    BY HandlesAre DEF Init, HandleInit
  <1>2. HandleType
    BY <1>1 DEF Init, HandleInit, HandleType
  <1>3. Guarded
    BY <1>1, Calls DEF Init, HandleInit, Guarded, Inside
  <1> QED BY <1>2, <1>3 DEF HandleInv

\* Arrivals and the two halves of Close.
LEMMA OutsideKeeps ==
    ASSUME HandleInv, NEW h \in Handles, Arrive(h) \/ CloseStart(h) \/ CloseFinish(h)
    PROVE  HandleInv'
  <1>0. HandleType /\ Guarded
    BY DEF HandleInv
  <1>1. CASE Arrive(h)
    <2>1. arrived[h] \in 0..MaxPackets /\ arrived[h] < MaxPackets /\ arrived \in [Handles -> 0..MaxPackets]
      BY <1>0, <1>1 DEF HandleType, Arrive
    <2>2. arrived[h] + 1 \in 0..MaxPackets
      BY <2>1, HandlesAre
    <2>3. arrived' = [arrived EXCEPT ![h] = arrived[h] + 1]
      BY <1>1 DEF Arrive
    <2>4. arrived' \in [Handles -> 0..MaxPackets]
      BY <2>1, <2>2, <2>3
    <2>5. HandleType'
      BY <1>0, <1>1, <2>4 DEF HandleType, Arrive
    <2>6. \A g \in Handles : taken[g] <= arrived'[g]
      <3>1. \A g \in Handles : taken[g] \in Nat /\ arrived[g] \in Nat /\ taken[g] <= arrived[g]
        BY <1>0 DEF HandleType, Guarded
      <3>2. \A g \in Handles : arrived'[g] = IF g = h THEN arrived[g] + 1 ELSE arrived[g]
        BY <2>1, <2>3
      <3> QED BY <3>1, <3>2
    <2>7. Guarded'
      BY <1>0, <1>1, <2>6 DEF Guarded, Arrive
    <2> QED BY <2>5, <2>7 DEF HandleInv
  <1>2. CASE CloseStart(h)
    <2>1. HandleType'
      BY <1>0, <1>2 DEF HandleType, CloseStart
    <2>2. Guarded'
      BY <1>0, <1>2 DEF Guarded, HandleType, CloseStart
    <2> QED BY <2>1, <2>2 DEF HandleInv
  <1>3. CASE CloseFinish(h)
    <2>1. HandleType'
      BY <1>0, <1>3 DEF HandleType, CloseFinish
    <2>2. ~(rd.pc \in {"loop", "next", "wait"} /\ rd.h = h)
      BY <1>0, <1>3 DEF Guarded, CloseFinish, Inside
    <2>3. Guarded'
      BY <1>0, <1>3, <2>2 DEF Guarded, HandleType, CloseFinish
    <2> QED BY <2>1, <2>3 DEF HandleInv
  <1> QED BY <1>1, <1>2, <1>3

\* The steps of a read.
LEMMA ReadKeeps ==
    ASSUME HandleInv, NEW h \in Handles, ReadStep(h) \/ NextUnsure(h)
    PROVE  HandleInv'
  <1>0. HandleType /\ Guarded
    BY DEF HandleInv
  <1>1. /\ rd \in Call /\ rd' \in Call /\ rd.h = h /\ rd'.h = h
        /\ UNCHANGED <<mode, cptr, stop, closer, arrived>>
        /\ \A g \in Handles : taken[g] \in 0..MaxPackets /\ arrived[g] \in 0..MaxPackets
                             /\ taken[g] <= arrived[g]
        /\ taken \in [Handles -> 0..MaxPackets] /\ mu \in [Handles -> {"free", "reader"}]
    BY <1>0, ReadMoves DEF HandleType, Guarded
  <1> DEFINE Same == /\ taken' \in [Handles -> 0..MaxPackets] /\ mu' \in [Handles -> {"free", "reader"}]
                     /\ \A g \in Handles : taken'[g] <= arrived[g]
                     /\ \A g \in Handles : mu'[g] = "reader" <=> rd'.pc \in Inside /\ rd'.h = g
                     /\ rd'.pc \in {"loop", "next", "wait"} => cptr[h]
  <1>2. Same => HandleInv'
    <2> SUFFICES ASSUME Same PROVE HandleInv'
      OBVIOUS
    <2>1. HandleType'
      BY <1>0, <1>1 DEF HandleType
    <2>2. Guarded'
      BY <1>0, <1>1 DEF Guarded
    <2> QED BY <2>1, <2>2 DEF HandleInv
  <1>3. CASE /\ rd.pc = "lock" /\ mu[h] = "free" /\ mu' = [mu EXCEPT ![h] = "reader"] /\ taken' = taken
             /\ IF cptr[h] THEN rd'.pc = "loop" ELSE rd'.pc = "unlock" /\ rd'.result = EOF
    <2>1. \A g \in Handles : g # h => mu[g] # "reader"
      BY <1>0, <1>1 DEF Guarded
    <2>2. Same
      BY <1>1, <1>3, <2>1 DEF Inside
    <2> QED BY <1>2, <2>2
  <1>4. CASE /\ rd.pc \in Inside \ {"unlock"} /\ mu' = mu /\ taken' = taken
             /\ rd'.pc \in Inside
    <2>1. cptr[h] /\ \A g \in Handles : mu[g] = "reader" <=> g = h
      BY <1>0, <1>1, <1>4 DEF Guarded, Inside
    <2>2. Same
      BY <1>1, <1>4, <2>1 DEF Inside
    <2> QED BY <1>2, <2>2
  <1>5. CASE /\ rd.pc = "next" /\ mu' = mu /\ taken[h] < arrived[h]
             /\ taken' = [taken EXCEPT ![h] = @ + 1]
             /\ rd'.pc = "unlock"
    <2>1. \A g \in Handles : mu[g] = "reader" <=> g = h
      BY <1>0, <1>1, <1>5 DEF Guarded, Inside
    <2>2. taken[h] + 1 \in 0..MaxPackets /\ taken[h] + 1 <= arrived[h]
      BY <1>1, <1>5, HandlesAre
    <2>3. taken' = [taken EXCEPT ![h] = taken[h] + 1]
      BY <1>5
    <2>4. taken' \in [Handles -> 0..MaxPackets] /\ \A g \in Handles : taken'[g] <= arrived[g]
      BY <1>1, <2>2, <2>3
    <2>5. Same
      BY <1>1, <1>5, <2>1, <2>4 DEF Inside
    <2> QED BY <1>2, <2>5
  <1>6. CASE rd.pc = "unlock" /\ mu' = [mu EXCEPT ![h] = "free"] /\ taken' = taken /\ rd'.pc = "return"
    <2>1. \A g \in Handles : g # h => mu[g] # "reader"
      BY <1>0, <1>1 DEF Guarded
    <2>2. Same
      BY <1>1, <1>6, <2>1 DEF Inside
    <2> QED BY <1>2, <2>2
  <1> QED BY <1>0, <1>3, <1>4, <1>5, <1>6, ReadMoves DEF Inside

-----------------------------------------------------------------------------
(* What is on its way to the consumer.                                     *)

\* Between, for a packet p that is being sent and a call r.
HeldBy(p, r) ==
    (IF p = NoPacket THEN <<>> ELSE <<p>>) \o
    (IF r.pc \in {"unlock", "return"} /\ r.result \in Data THEN <<r.result>> ELSE <<>>)

\* There is never more than one packet between libpcap and the channel.
LEMMA HeldIs ==
    ASSUME NEW p \in Data \cup {NoPacket}, NEW r \in Call \cup {NoRead}, r # NoRead => p = NoPacket
    PROVE  /\ p # NoPacket => HeldBy(p, r) = <<p>> /\ p \in Data
           /\ r.pc \in {"unlock", "return"} /\ r.result \in Data => HeldBy(p, r) = <<r.result>>
           /\ p = NoPacket /\ ~(r.pc \in {"unlock", "return"} /\ r.result \in Data) =>
                HeldBy(p, r) = <<>>
           /\ HeldBy(p, r) \in Seq(Data)
  <1>1. NoRead.pc = "none" /\ (r.pc \in {"unlock", "return"} => p = NoPacket)
    BY Calls
  <1>2. <<>> \in Seq(Data) /\ <<>> \o <<>> = <<>>
    BY EmptySeq, ConcatEmptySeq
  <1>3. \A x \in Data : <<x>> \in Seq(Data)
    OBVIOUS
  <1>4. \A x \in Data : <<x>> \o <<>> = <<x>> /\ <<>> \o <<x>> = <<x>>
    BY <1>3, ConcatEmptySeq
  <1>5. CASE p # NoPacket
    <2>1. r.pc \notin {"unlock", "return"} /\ p \in Data
      BY <1>1, <1>5
    <2>2. HeldBy(p, r) = <<p>> \o <<>>
      BY <1>5, <2>1 DEF HeldBy
    <2> QED BY <1>3, <1>4, <1>5, <2>1, <2>2
  <1>6. CASE p = NoPacket /\ r.pc \in {"unlock", "return"} /\ r.result \in Data
    <2>1. HeldBy(p, r) = <<>> \o <<r.result>>
      BY <1>6 DEF HeldBy
    <2> QED BY <1>3, <1>4, <1>6, <2>1
  <1>7. CASE p = NoPacket /\ ~(r.pc \in {"unlock", "return"} /\ r.result \in Data)
    <2>1. HeldBy(p, r) = <<>> \o <<>>
      BY <1>7 DEF HeldBy
    <2> QED BY <1>2, <1>7, <2>1
  <1> QED BY <1>1, <1>5, <1>6, <1>7

\* The three parts of Passed.
LEMMA PassedIs ==
    /\ Passed = (received \o c.buf) \o HeldBy(packet, rd)
    /\ Passed' = (received' \o c'.buf) \o HeldBy(packet', rd')
  BY DEF Passed, Between, HeldBy, Data

\* A packet that goes from one place to the next keeps its position.
LEMMA Moves ==
    ASSUME NEW r \in Seq(Data), NEW b \in Seq(Data), NEW x \in Data, NEW h \in Seq(Data)
    PROVE  /\ (r \o Append(b, x)) \o <<>> = (r \o b) \o <<x>>
           /\ (r \o b) \o <<x>> = Append((r \o b) \o <<>>, x)
           /\ b # <<>> => (Append(r, Head(b)) \o Tail(b)) \o h = (r \o b) \o h
           /\ (r \o b) \o h \in Seq(Data)
  <1>1. /\ <<x>> \in Seq(Data) /\ Append(b, x) \in Seq(Data) /\ Append(b, x) = b \o <<x>>
        /\ r \o b \in Seq(Data)
    BY AppendIsConcat, AppendProperties, ConcatProperties
  <1>2. (r \o Append(b, x)) \o <<>> = (r \o b) \o <<x>>
    <2>1. r \o Append(b, x) \in Seq(Data)
      BY <1>1, ConcatProperties
    <2>2. (r \o Append(b, x)) \o <<>> = r \o Append(b, x)
      BY <2>1, ConcatEmptySeq
    <2>3. r \o (b \o <<x>>) = (r \o b) \o <<x>>
      BY <1>1, ConcatAssociative
    <2> QED BY <1>1, <2>2, <2>3
  <1>3. (r \o b) \o <<x>> = Append((r \o b) \o <<>>, x)
    <2>1. (r \o b) \o <<>> = r \o b
      BY <1>1, ConcatEmptySeq
    <2>2. Append(r \o b, x) = (r \o b) \o <<x>>
      BY <1>1, AppendIsConcat
    <2> QED BY <2>1, <2>2
  <1>4. ASSUME b # <<>> PROVE Append(r, Head(b)) \o Tail(b) = r \o b
    <2>1. PICK y, t : y = Head(b) /\ t = Tail(b)
      OBVIOUS
    <2>2. y \in Data /\ t \in Seq(Data) /\ <<y>> \in Seq(Data)
      BY <1>4, <2>1, HeadTailProperties
    <2>3. b = <<y>> \o t
      <3>1. Len(b) \in Nat \ {0} /\ 1 \in 1..Len(b) /\ Len(b) \in 1..Len(b)
        BY <1>4, EmptySeq
      <3>2. SubSeq(b, 1, Len(b)) = << b[1] >> \o SubSeq(b, 1 + 1, Len(b))
        BY <3>1, SubSeqRecursiveFirst
      <3>3. SubSeq(b, 1, Len(b)) = b /\ t = SubSeq(b, 2, Len(b)) /\ y = b[1]
        BY <1>4, <2>1, SubSeqFull, TailIsSubSeq
      <3> QED BY <3>2, <3>3
    <2>4. (r \o <<y>>) \o t = r \o (<<y>> \o t)
      BY <2>2, ConcatAssociative
    <2>5. Append(r, y) = r \o <<y>>
      BY <2>2, AppendIsConcat
    <2> QED BY <2>1, <2>3, <2>4, <2>5
  <1> QED BY <1>1, <1>2, <1>3, <1>4, ConcatProperties

\* libpcap returns the next packet of the handle that is being read.
LEMMA AppendExactly ==
    ASSUME NEW s \in Seq(Data), NEW t \in [Handles -> 0..MaxPackets], Exactly(s, t),
           NEW h \in Handles, \A g \in Handles : g > h => t[g] = 0,
           t[h] + 1 \in 1..MaxPackets, NEW u, u = [t EXCEPT ![h] = t[h] + 1]
    PROVE  Exactly(Append(s, <<h, t[h] + 1>>), u)
  <1>0. PICK x : x = <<h, t[h] + 1>>
    OBVIOUS
  <1>1. x \in Data /\ x = <<h, t[h] + 1>> /\ x[1] = h /\ x[2] = t[h] + 1
    BY <1>0 DEF Data
  <1>2. PICK q \in Seq(Data) : q = Append(s, x)
    BY <1>1, AppendProperties
  <1>3. /\ Len(s) \in Nat /\ DOMAIN s = 1..Len(s) /\ DOMAIN q = 1..(Len(s) + 1)
        /\ \A i \in 1..Len(s) : q[i] = s[i]
        /\ q[Len(s) + 1] = x
    BY <1>1, <1>2, AppendProperties
  <1>4. Handles \subseteq Nat /\ \A g \in Handles : t[g] \in Nat
    BY HandlesAre
  <1>5. \A i \in DOMAIN s : \E g \in Handles : \E n \in 1..t[g] : s[i] = <<g, n>>
    <2> SUFFICES ASSUME NEW i \in DOMAIN s PROVE \E g \in Handles : \E n \in 1..t[g] : s[i] = <<g, n>>
      OBVIOUS
    <2>1. s[i] \in UNION {{g} \X (1..t[g]) : g \in Handles}
      BY DEF Exactly
    <2>2. PICK g \in Handles : s[i] \in {g} \X (1..t[g])
      BY <2>1
    <2> QED BY <2>2
  <1>6. \A g \in Handles : u[g] = IF g = h THEN t[h] + 1 ELSE t[g]
    OBVIOUS
  <1>7. ASSUME NEW i \in DOMAIN q, NEW j \in DOMAIN q, i < j PROVE Precedes(q[i], q[j])
    <2>1. CASE j \in 1..Len(s)
      <3>1. i \in DOMAIN s /\ j \in DOMAIN s /\ q[i] = s[i] /\ q[j] = s[j]
        BY <1>3, <1>7, <2>1
      <3> QED BY <1>7, <3>1 DEF Exactly
    <2>2. CASE j = Len(s) + 1
      <3>1. i \in DOMAIN s /\ q[i] = s[i] /\ q[j] = x
        BY <1>3, <1>7, <2>2
      <3>2. PICK g \in Handles : \E n \in 1..t[g] : s[i] = <<g, n>>
        BY <1>5, <3>1
      <3>3. PICK n \in 1..t[g] : s[i] = <<g, n>>
        BY <3>2
      <3>4. s[i][1] = g /\ s[i][2] = n
        BY <3>3
      <3>5. g <= h
        BY <1>4, <3>3
      <3> QED BY <1>1, <1>4, <3>1, <3>3, <3>4, <3>5 DEF Precedes
    <2> QED BY <1>3, <2>1, <2>2
  <1>8. {q[i] : i \in DOMAIN q} = UNION {{g} \X (1..u[g]) : g \in Handles}
    <2>1. ASSUME NEW i \in DOMAIN q PROVE q[i] \in UNION {{g} \X (1..u[g]) : g \in Handles}
      <3>1. CASE i \in DOMAIN s
        <4>1. PICK g \in Handles : \E n \in 1..t[g] : s[i] = <<g, n>>
          BY <1>5, <3>1
        <4>2. PICK n \in 1..t[g] : s[i] = <<g, n>>
          BY <4>1
        <4>3. n \in 1..u[g]
          BY <1>4, <1>6
        <4>4. <<g, n>> \in {g} \X (1..u[g])
          BY <4>3
        <4>5. q[i] = <<g, n>>
          BY <1>3, <3>1, <4>2
        <4> QED BY <4>4, <4>5
      <3>2. CASE i = Len(s) + 1
        <4>1. t[h] + 1 \in 1..u[h]
          BY <1>4, <1>6
        <4>2. q[i] \in {h} \X (1..u[h])
          BY <1>1, <1>3, <3>2, <4>1
        <4> QED BY <4>2
      <3> QED BY <1>3, <3>1, <3>2
    <2>2. ASSUME NEW g \in Handles, NEW n \in 1..u[g] PROVE \E i \in DOMAIN q : q[i] = <<g, n>>
      <3>1. CASE g = h /\ n = t[h] + 1
        <4>1. Len(s) + 1 \in DOMAIN q /\ q[Len(s) + 1] = <<g, n>>
          BY <1>1, <1>3, <3>1
        <4> QED BY <4>1
      <3>2. CASE ~(g = h /\ n = t[h] + 1)
        <4>1. n \in 1..t[g]
          BY <1>4, <1>6, <3>2
        <4>2. <<g, n>> \in {g} \X (1..t[g])
          BY <4>1
        <4>3. <<g, n>> \in UNION {{f} \X (1..t[f]) : f \in Handles}
          BY <4>2
        <4>4. <<g, n>> \in {s[i] : i \in DOMAIN s}
          BY <4>3 DEF Exactly
        <4>5. PICK i \in DOMAIN s : s[i] = <<g, n>>
          BY <4>4
        <4>6. i \in DOMAIN q /\ q[i] = <<g, n>>
          BY <1>3, <4>5
        <4> QED BY <4>6
      <3> QED BY <3>1, <3>2
    <2>3. ASSUME NEW z \in UNION {{g} \X (1..u[g]) : g \in Handles} PROVE z \in {q[i] : i \in DOMAIN q}
      <3>1. PICK g \in Handles : z \in {g} \X (1..u[g])
        OBVIOUS
      <3>2. PICK n \in 1..u[g] : z = <<g, n>>
        BY <3>1
      <3> QED BY <2>2, <3>2
    <2> QED BY <2>1, <2>3
  <1> QED BY <1>1, <1>2, <1>7, <1>8 DEF Exactly

-----------------------------------------------------------------------------
(* The goroutine and the consumer.                                         *)

\* Errors are no packets.
LEMMA NoData ==
    EOF \notin Data /\ ReadError \notin Data /\ TimeoutExpired \notin Data /\ NoPacket \notin Data
    /\ EOF # ReadError /\ EOF # TimeoutExpired
  BY DEF Data, EOF, ReadError, TimeoutExpired, NoPacket

\* Nothing but where the packets are has changed.
LEMMA Stays ==
    ASSUME SourceInv, Passed' = Passed, taken' = taken
    PROVE  Exactly(Passed, taken)'
  BY DEF SourceInv, Exactly, Precedes

\* The types that the steps below need, and that no read is under way while a
\* packet waits to be sent.
LEMMA TypesOf ==
    ASSUME HandleInv, SourceInv
    PROVE  /\ packet \in Data \cup {NoPacket} /\ rd \in Call \cup {NoRead}
           /\ rd # NoRead => packet = NoPacket
           /\ c.buf \in Seq(Data) /\ c.closed \in BOOLEAN /\ received \in Seq(Data)
           /\ sources \in Seq(Handles) /\ Len(sources) \in Nat /\ Len(sources) <= Cardinality(Handles)
           /\ HandleType /\ Guarded /\ SourceType /\ Control /\ InTurn /\ Exactly(Passed, taken)
           /\ Past \in Nat /\ Past = Cardinality(Handles) - Len(sources)
  <1>1. HandleType /\ Guarded /\ SourceType /\ Control /\ InTurn /\ Exactly(Passed, taken)
    BY DEF HandleInv, SourceInv
  <1>2. sources \in Seq(Handles) /\ Len(sources) \in Nat /\ Len(sources) <= Cardinality(Handles)
    BY <1>1 DEF SourceType
  <1>3. Past \in Nat /\ Past = Cardinality(Handles) - Len(sources)
    BY <1>2, HandlesAre DEF Past
  <1> QED BY <1>1, <1>2, <1>3 DEF HandleType, SourceType, Control

\* The source to begin with.
LEMMA InitSource == Init => SourceInv
  <1> SUFFICES ASSUME Init PROVE SourceInv
    OBVIOUS
  <1>0. PICK n \in Nat : n = Cardinality(Handles) /\ Handles = 1..n
    BY HandlesAre
  <1>1. sources = [i \in 1..n |-> i]
    BY <1>0 DEF Init
  <1>2. sources \in Seq(Handles) /\ Len(sources) = n /\ \A i \in 1..n : sources[i] = i
    <2>1. \A i \in 1..n : i \in Handles
      BY <1>0
    <2>2. [i \in 1..n |-> i] \in Seq(Handles)
      BY <2>1, IsASeq
    <2>3. DOMAIN sources = 1..n
      BY <1>1
    <2> QED BY <1>1, <2>2, <2>3, LenProperties
  <1>3. <<>> \in Seq(Data)
    BY EmptySeq
  <1>4. SourceType
    BY <1>0, <1>2, <1>3 DEF Init, SourceType
  <1>5. Control
    BY DEF Init, HandleInit, Control
  <1>6. Past = 0
    <2>1. Past = n - n
      BY <1>0, <1>2, Zenon DEF Past
    <2> QED BY <2>1
  <1>7. InTurn
    <2>1. \A h \in Handles : ~(h <= 0) /\ taken[h] = 0
      BY <1>0 DEF Init, HandleInit
    <2>2. rd.pc = "none"
      BY Calls DEF Init, HandleInit
    <2> QED BY <1>2, <1>6, <2>1, <2>2 DEF InTurn
  <1>8. Passed = <<>>
    <2>1. HeldBy(packet, rd) = <<>>
      <3>1. packet = NoPacket /\ rd = NoRead /\ rd.pc = "none"
        BY Calls DEF Init, HandleInit
      <3> QED BY <3>1, HeldIs
    <2>2. <<>> \o <<>> = <<>>
      BY <1>3, ConcatEmptySeq
    <2> QED BY <2>1, <2>2, PassedIs DEF Init
  <1>9. Exactly(Passed, taken)
    <2>1. \A h \in Handles : taken[h] = 0 /\ {h} \X (1..taken[h]) = {}
      BY DEF Init, HandleInit
    <2>2. UNION {{h} \X (1..taken[h]) : h \in Handles} = {}
      BY <2>1
    <2>3. DOMAIN Passed = {}
      BY <1>8
    <2> QED BY <2>2, <2>3 DEF Exactly
  <1> QED BY <1>4, <1>5, <1>7, <1>9 DEF SourceInv

\* Steps that do not touch the handles keep what is known of them...
LEMMA FrameHandles == ASSUME HandleInv, UNCHANGED handleVars PROVE HandleInv'
  BY DEF HandleInv, HandleType, Guarded, handleVars

\* ... and, if they leave the list of sources alone, whose turn it is.
LEMMA FrameTurn == ASSUME InTurn, UNCHANGED <<handleVars, sources>> PROVE InTurn'
  BY DEF InTurn, Ended, Past, handleVars

\* The steps that leave the handles alone.
LEMMA PassingKeeps ==
    ASSUME HandleInv, SourceInv, Packets \/ Sleep \/ Send \/ Receive \/ GiveUp \/ UNCHANGED vars
    PROVE  HandleInv' /\ SourceInv'
  <1>0. /\ packet \in Data \cup {NoPacket} /\ rd \in Call \cup {NoRead} /\ (rd # NoRead => packet = NoPacket)
        /\ c.buf \in Seq(Data) /\ c.closed \in BOOLEAN /\ received \in Seq(Data)
        /\ SourceType /\ Control /\ InTurn
    BY TypesOf
  <1>1. UNCHANGED handleVars /\ UNCHANGED sources
    BY DEF Packets, Sleep, Send, Receive, GiveUp, vars, sourceVars, handleVars
  <1>2. rd' = rd /\ taken' = taken
    BY <1>1 DEF handleVars
  <1>3. HandleInv' /\ InTurn'
    BY <1>0, <1>1, FrameHandles, FrameTurn
  <1>4. PICK held \in Seq(Data) : held = HeldBy(packet, rd)
    BY <1>0, HeldIs
  <1>5. CASE Packets \/ Sleep \/ GiveUp \/ UNCHANGED vars
    <2>1. packet' = packet /\ c' = c /\ received' = received
      BY <1>5 DEF Packets, Sleep, GiveUp, vars, sourceVars
    <2>2. SourceType'
      BY <1>0, <1>1, <1>5, <2>1 DEF SourceType, Packets, Sleep, GiveUp, vars, sourceVars
    <2>3. Control'
      BY <1>0, <1>1, <1>2, <1>5, <2>1 DEF Control, Packets, Sleep, GiveUp, vars, sourceVars
    <2>4. Passed' = Passed
      BY <1>2, <2>1, PassedIs
    <2> QED BY <1>2, <1>3, <2>2, <2>3, <2>4, Stays DEF SourceInv
  <1>6. CASE Send
    <2>1. /\ pc = "send" /\ pc' = "read" /\ packet' = NoPacket /\ received' = received
          /\ c' = [c EXCEPT !.buf = Append(c.buf, packet)]
      BY <1>6 DEF Send
    <2>2. packet # NoPacket /\ packet \in Data /\ rd = NoRead
      BY <1>0, <2>1 DEF Control
    <2>3. /\ c'.buf = Append(c.buf, packet) /\ c'.closed = c.closed
          /\ c' \in [buf : Seq(Data), closed : BOOLEAN]
      <3>1. c \in [buf : Seq(Data), closed : BOOLEAN] /\ Append(c.buf, packet) \in Seq(Data)
        BY <1>0, <2>2, AppendProperties DEF SourceType
      <3> QED BY <2>1, <3>1
    <2>4. SourceType'
      BY <1>0, <1>1, <2>1, <2>3 DEF SourceType
    <2>5. Control'
      BY <1>0, <1>1, <1>2, <2>1, <2>2, <2>3 DEF Control
    <2>6. HeldBy(packet, rd) = <<packet>> /\ HeldBy(packet', rd') = <<>>
      <3>1. packet' \in Data \cup {NoPacket} /\ rd'.pc = "none" /\ rd' = NoRead /\ packet' = NoPacket
        BY <1>2, <2>1, <2>2, Calls
      <3>2. HeldBy(packet', rd') = <<>>
        BY <3>1, HeldIs
      <3> QED BY <1>0, <2>2, <3>2, HeldIs
    <2>7. (received \o Append(c.buf, packet)) \o <<>> = (received \o c.buf) \o <<packet>>
      BY <1>0, <1>4, <2>2, Moves
    <2>8. Passed' = Passed
      BY <2>1, <2>3, <2>6, <2>7, PassedIs
    <2> QED BY <1>2, <1>3, <2>4, <2>5, <2>8, Stays DEF SourceInv
  <1>7. CASE Receive
    <2>1. pc' = pc /\ packet' = packet
      BY <1>7 DEF Receive
    <2>2. CASE /\ c.buf # <<>> /\ received' = Append(received, Head(c.buf))
               /\ c' = [c EXCEPT !.buf = Tail(c.buf)]
      <3>1. Head(c.buf) \in Data /\ Tail(c.buf) \in Seq(Data)
        BY <1>0, <2>2, HeadTailProperties
      <3>2. /\ c'.buf = Tail(c.buf) /\ c'.closed = c.closed
            /\ c' \in [buf : Seq(Data), closed : BOOLEAN]
        BY <1>0, <2>2, <3>1 DEF SourceType
      <3>3. received' \in Seq(Data)
        BY <1>0, <2>2, <3>1, AppendProperties
      <3>4. SourceType'
        BY <1>0, <1>1, <2>1, <3>2, <3>3 DEF SourceType
      <3>5. Control'
        BY <1>0, <1>1, <1>2, <2>1, <3>2 DEF Control
      <3>6. (Append(received, Head(c.buf)) \o Tail(c.buf)) \o held = (received \o c.buf) \o held
        BY <1>0, <2>2, <3>1, Moves
      <3>7. Passed' = Passed
        BY <1>2, <1>4, <2>1, <2>2, <3>2, <3>6, PassedIs
      <3> QED BY <1>2, <1>3, <3>4, <3>5, <3>7, Stays DEF SourceInv
    <2>3. CASE UNCHANGED <<received, c>>
      <3>1. SourceType'
        BY <1>0, <1>1, <2>1, <2>3 DEF SourceType
      <3>2. Control'
        BY <1>0, <1>1, <1>2, <2>1, <2>3 DEF Control
      <3>3. Passed' = Passed
        BY <1>2, <2>1, <2>3, PassedIs
      <3> QED BY <1>2, <1>3, <3>1, <3>2, <3>3, Stays DEF SourceInv
    <2> QED BY <1>7, <2>2, <2>3 DEF Receive
  <1> QED BY <1>5, <1>6, <1>7

\* concat asks a handle, and takes its answer.
LEMMA ConcatKeeps ==
    ASSUME HandleInv, SourceInv, ConcatRead \/ ReadReturns
    PROVE  HandleInv' /\ SourceInv'
  <1>0. /\ packet \in Data \cup {NoPacket} /\ rd \in Call \cup {NoRead} /\ (rd # NoRead => packet = NoPacket)
        /\ c.buf \in Seq(Data) /\ c.closed \in BOOLEAN /\ received \in Seq(Data)
        /\ sources \in Seq(Handles) /\ Len(sources) \in Nat /\ Len(sources) <= Cardinality(Handles)
        /\ HandleType /\ Guarded /\ SourceType /\ Control /\ InTurn
        /\ Past \in Nat /\ Past = Cardinality(Handles) - Len(sources)
    BY TypesOf
  <1>1. /\ UNCHANGED <<mode, cptr, stop, mu, closer, arrived, taken>>
        /\ received' = received
    BY DEF ConcatRead, ReadReturns, NotHandle
  <1>2. \A h \in Handles : Ended(h) => Ended(h)'
    BY <1>1 DEF Ended
  <1>3. rd.pc \notin Inside /\ rd.pc # "lock" /\ pc = "read" /\ packet = NoPacket /\ ~c.closed
    BY <1>0, Calls DEF ConcatRead, ReadReturns, Inside, Control
  <1>4. ASSUME rd'.pc \in {"none", "lock"}, rd' \in Call \cup {NoRead} PROVE HandleInv'
    <2>1. HandleType'
      BY <1>0, <1>1, <1>4 DEF HandleType
    <2>2. \A h \in Handles : mu[h] # "reader"
      BY <1>0, <1>3 DEF Guarded
    <2>3. rd'.pc \notin Inside
      BY <1>4 DEF Inside
    <2>4. Guarded'
      BY <1>0, <1>1, <2>2, <2>3 DEF Guarded, Inside
    <2> QED BY <2>1, <2>4 DEF HandleInv
  <1>5. CASE ConcatRead /\ sources # <<>>
    <2>1. /\ rd = NoRead /\ UNCHANGED <<pc, c, sources, packet>>
          /\ rd' = [pc |-> "lock", h |-> Head(sources), waited |-> FALSE, result |-> EOF]
      BY <1>5 DEF ConcatRead
    <2>2. Head(sources) \in Handles /\ EOF \in Results
      BY <1>0, <1>5, HeadTailProperties DEF Results
    <2>3. rd' \in Call /\ rd'.pc = "lock" /\ rd'.h = Head(sources)
      BY <2>1, <2>2, Calls
    <2>4. HandleInv'
      BY <1>4, <2>3
    <2>5. SourceType'
      BY <1>0, <1>1, <2>1 DEF SourceType
    <2>6. Control'
      BY <1>0, <1>3, <1>5, <2>1, <2>3 DEF Control
    <2>7. InTurn'
      <3>1. Past' = Past
        BY <2>1 DEF Past
      <3> QED BY <1>0, <1>1, <1>2, <2>1, <2>3, <3>1 DEF InTurn
    <2>8. HeldBy(packet, rd) = <<>> /\ HeldBy(packet', rd') = <<>>
      <3>1. rd.pc = "none" /\ packet' = NoPacket /\ rd' \in Call /\ rd'.pc = "lock"
        BY <1>3, <2>1, <2>3, Calls
      <3>2. HeldBy(packet', rd') = <<>>
        BY <3>1, HeldIs
      <3> QED BY <1>0, <1>3, <3>1, <3>2, HeldIs
    <2>9. Passed' = Passed
      BY <1>1, <2>1, <2>8, PassedIs
    <2> QED BY <1>1, <2>4, <2>5, <2>6, <2>7, <2>9, Stays DEF SourceInv
  <1>6. CASE ConcatRead /\ sources = <<>>
    <2>1. /\ rd = NoRead /\ rd' = rd /\ UNCHANGED <<sources, packet>>
          /\ pc' = "done" /\ c' = [c EXCEPT !.closed = TRUE]
      BY <1>6 DEF ConcatRead
    <2>2. HandleInv'
      BY <1>4, <2>1, Calls
    <2>3. c'.buf = c.buf /\ c' \in [buf : Seq(Data), closed : BOOLEAN]
      BY <1>0, <2>1 DEF SourceType
    <2>4. SourceType'
      BY <1>0, <1>1, <2>1, <2>3 DEF SourceType
    <2>5. Control'
      BY <1>0, <1>3, <1>6, <2>1 DEF Control
    <2>6. InTurn'
      <3>1. Past' = Past
        BY <2>1 DEF Past
      <3> QED BY <1>0, <1>1, <1>2, <2>1, <3>1, Calls DEF InTurn
    <2>7. Passed' = Passed
      BY <1>1, <2>1, <2>3, PassedIs
    <2> QED BY <1>1, <2>2, <2>4, <2>5, <2>6, <2>7, Stays DEF SourceInv
  <1>7. CASE ReadReturns
    <2>1. rd.pc = "return" /\ rd' = NoRead /\ c' = c /\ rd'.pc = "none" /\ rd \in Call /\ rd # NoRead
      BY <1>0, <1>7, Calls DEF ReadReturns
    <2>2. HandleInv'
      BY <1>4, <2>1
    <2>3. sources # <<>> /\ rd.h = Head(sources) /\ rd.h \in Handles
      BY <1>0, <2>1, Calls DEF Control
    <2>4. CASE rd.result = EOF /\ sources' = Tail(sources) /\ UNCHANGED <<pc, packet>>
      <3>1. /\ Tail(sources) \in Seq(Handles) /\ Len(Tail(sources)) = Len(sources) - 1
            /\ \A i \in 1..Len(Tail(sources)) : Tail(sources)[i] = sources[i + 1]
            /\ Len(sources) \in Nat \ {0}
        BY <1>0, <2>3, HeadTailProperties, EmptySeq
      <3>2. Past' = Past + 1
        BY <1>0, <2>4, <3>1, HandlesAre DEF Past
      <3>3. SourceType'
        BY <1>0, <1>1, <2>1, <2>4, <3>1, HandlesAre DEF SourceType
      <3>4. Control'
        BY <1>0, <1>3, <2>1, <2>4 DEF Control
      <3>5. rd.h = Past + 1 /\ Ended(rd.h)
        <4>1. Head(sources) = sources[1] /\ 1 \in 1..Len(sources)
          BY <1>0, <2>3, <3>1
        <4> QED BY <1>0, <2>1, <2>3, <2>4, <4>1 DEF InTurn
      <3>6. InTurn'
        <4>1. \A i \in 1..Len(sources') : sources'[i] = Past' + i
          <5>1. ASSUME NEW i \in 1..Len(Tail(sources)) PROVE Tail(sources)[i] = (Past + 1) + i
            <6>1. i + 1 \in 1..Len(sources)
              BY <3>1
            <6>2. sources[i + 1] = Past + (i + 1)
              BY <1>0, <6>1 DEF InTurn
            <6> QED BY <1>0, <3>1, <6>2
          <5> QED BY <2>4, <3>2, <5>1
        <4>2. ASSUME NEW h \in Handles PROVE (h <= Past + 1 => Ended(h)') /\ (h > (Past + 1) + 1 => taken'[h] = 0)
          <5>1. h \in Nat
            BY HandlesAre
          <5>2. h <= Past + 1 => h <= Past \/ h = rd.h
            BY <1>0, <3>5, <5>1
          <5>3. h > (Past + 1) + 1 => h > Past + 1
            BY <1>0, <5>1
          <5> QED BY <1>0, <1>1, <1>2, <3>5, <5>2, <5>3 DEF InTurn
        <4> QED BY <2>1, <3>2, <4>1, <4>2 DEF InTurn
      <3>7. HeldBy(packet, rd) = <<>> /\ HeldBy(packet', rd') = <<>>
        BY <1>0, <1>3, <2>1, <2>4, NoData, HeldIs
      <3>8. Passed' = Passed
        BY <1>1, <2>1, <3>7, PassedIs
      <3> QED BY <1>1, <2>2, <3>3, <3>4, <3>6, <3>8, Stays DEF SourceInv
    <2>5. CASE \/ rd.result \in {ReadError, TimeoutExpired} /\ pc' = "sleep" /\ UNCHANGED <<sources, packet>>
               \/ rd.result \in Data /\ pc' = "send" /\ packet' = rd.result /\ UNCHANGED sources
      <3>1. SourceType'
        BY <1>0, <1>1, <2>1, <2>5 DEF SourceType
      <3>2. Control'
        BY <1>0, <1>3, <2>1, <2>5, NoData DEF Control
      <3>3. Past' = Past
        BY <2>5 DEF Past
      <3>4. InTurn'
        BY <1>0, <1>1, <1>2, <2>1, <2>5, <3>3 DEF InTurn
      <3>5. HeldBy(packet, rd) = HeldBy(packet', rd')
        <4>1. packet' \in Data \cup {NoPacket}
          BY <1>0, <2>5
        <4>2. CASE rd.result \in Data
          <5>1. packet' = rd.result /\ packet' # NoPacket
            BY <2>5, <4>2, NoData
          <5>2. HeldBy(packet, rd) = <<rd.result>>
            BY <1>0, <2>1, <4>2, HeldIs
          <5>3. HeldBy(packet', rd') = <<packet'>>
            BY <2>1, <4>1, <5>1, HeldIs
          <5> QED BY <5>1, <5>2, <5>3
        <4>3. CASE rd.result \notin Data
          <5>1. packet' = NoPacket
            BY <1>3, <2>5, <4>3
          <5>2. HeldBy(packet, rd) = <<>>
            BY <1>0, <1>3, <4>3, HeldIs
          <5>3. HeldBy(packet', rd') = <<>>
            BY <2>1, <4>1, <5>1, HeldIs
          <5> QED BY <5>2, <5>3
        <4> QED BY <4>2, <4>3
      <3>6. Passed' = Passed
        BY <1>1, <2>1, <3>5, PassedIs
      <3> QED BY <1>1, <2>2, <3>1, <3>2, <3>4, <3>6, Stays DEF SourceInv
    <2> QED BY <1>7, <2>4, <2>5 DEF ReadReturns, EndsSource, Data
  <1> QED BY <1>5, <1>6, <1>7

\* The steps of the handles.
LEMMA HandleKeeps ==
    ASSUME HandleInv, SourceInv, UNCHANGED sourceVars, NEW h \in Handles,
           ReadStep(h) \/ NextUnsure(h) \/ Arrive(h) \/ CloseStart(h) \/ CloseFinish(h)
    PROVE  HandleInv' /\ SourceInv'
  <1>0. /\ packet \in Data \cup {NoPacket} /\ rd \in Call \cup {NoRead} /\ (rd # NoRead => packet = NoPacket)
        /\ c.buf \in Seq(Data) /\ received \in Seq(Data)
        /\ sources \in Seq(Handles) /\ Len(sources) \in Nat
        /\ HandleType /\ Guarded /\ SourceType /\ Control /\ InTurn /\ Exactly(Passed, taken)
        /\ Past \in Nat
    BY TypesOf
  <1>1. /\ UNCHANGED <<pc, sources, packet, c, received>>
    BY DEF sourceVars
  <1>2. HandleInv'
    BY OutsideKeeps, ReadKeeps
  <1>3. SourceType' /\ Past' = Past
    BY <1>0, <1>1 DEF SourceType, Past
  <1>4. CASE Arrive(h) \/ CloseStart(h) \/ CloseFinish(h)
    <2>1. rd' = rd /\ taken' = taken
      BY <1>4 DEF Arrive, CloseStart, CloseFinish
    <2>2. Control'
      BY <1>0, <1>1, <2>1 DEF Control
    <2>3. \A g \in Handles : Ended(g) => Ended(g)'
      BY <1>0, <1>4 DEF HandleType, Ended, Arrive, CloseStart, CloseFinish
    <2>4. rd.pc \in {"unlock", "return"} => rd.h \in Handles
      BY <1>0, Calls
    <2>5. InTurn'
      <3>1. rd.pc \in {"unlock", "return"} /\ rd.result = EOF => Ended(rd.h)'
        <4> SUFFICES ASSUME rd.pc \in {"unlock", "return"}, rd.result = EOF PROVE Ended(rd.h)'
          OBVIOUS
        <4>1. PICK g \in Handles : g = rd.h
          BY <2>4
        <4>2. Ended(g)'
          BY <1>0, <2>3, <4>1 DEF InTurn
        <4> QED BY <2>1, <4>1, <4>2 DEF Ended
      <3> QED BY <1>0, <1>1, <1>3, <2>1, <2>3, <3>1 DEF InTurn
    <2>6. Passed' = Passed
      BY <1>1, <2>1, PassedIs
    <2> QED BY <1>2, <1>3, <2>1, <2>2, <2>5, <2>6, Stays DEF SourceInv
  <1>5. CASE ReadStep(h) \/ NextUnsure(h)
    <2>0. /\ rd \in Call /\ rd' \in Call /\ rd.h = h /\ rd'.h = h /\ rd # NoRead /\ rd' # NoRead
          /\ UNCHANGED <<mode, cptr, stop, closer, arrived>>
          /\ rd.pc \in {"lock"} \cup Inside
      BY <1>0, <1>5, ReadMoves, Calls
    <2>1. Control' /\ packet = NoPacket /\ packet' = NoPacket /\ sources # <<>> /\ h = Head(sources)
      BY <1>0, <1>1, <2>0 DEF Control
    <2>2. h = Past + 1
      <3>1. Head(sources) = sources[1] /\ 1 \in 1..Len(sources)
        BY <1>0, <2>1, EmptySeq
      <3> QED BY <1>0, <2>1, <3>1 DEF InTurn
    <2>3. CASE /\ taken' = taken
               /\ \/ /\ rd.pc = "lock"
                     /\ IF cptr[h] THEN rd'.pc = "loop" ELSE rd'.pc = "unlock" /\ rd'.result = EOF
                  \/ /\ rd.pc \in Inside \ {"unlock"}
                     /\ \/ rd'.pc \in Inside \ {"unlock"}
                        \/ rd'.pc = "unlock" /\ rd'.result \in {ReadError, TimeoutExpired}
                        \/ rd'.pc = "unlock" /\ rd'.result = EOF /\ Ended(h)
                  \/ rd.pc = "unlock" /\ rd'.pc = "return" /\ rd'.result = rd.result
      <3>1. \A g \in Handles : Ended(g) => Ended(g)'
        BY <2>0, <2>3 DEF Ended
      <3>2. rd'.pc \in {"unlock", "return"} /\ rd'.result = EOF => Ended(h)
        <4> SUFFICES ASSUME rd'.pc \in {"unlock", "return"}, rd'.result = EOF PROVE Ended(h)
          OBVIOUS
        <4>1. CASE rd.pc = "lock" /\ ~cptr[h]
          BY <1>0, <4>1 DEF Guarded, Ended
        <4>2. CASE rd.pc = "unlock" /\ rd'.result = rd.result
          BY <1>0, <2>0, <4>2 DEF InTurn
        <4> QED BY <2>3, <4>1, <4>2, NoData DEF Inside
      <3>3. InTurn'
        <4>1. rd'.pc \in {"unlock", "return"} /\ rd'.result = EOF => Ended(h)'
          BY <3>1, <3>2
        <4>2. (rd.pc \in {"unlock", "return"} /\ rd.result = EOF => Ended(rd.h))'
          BY <2>0, <4>1 DEF Ended
        <4> QED BY <1>0, <1>1, <1>3, <2>3, <3>1, <4>2 DEF InTurn
      <3>4. HeldBy(packet, rd) = HeldBy(packet', rd')
        <4>1. rd.pc \in {"unlock", "return"} /\ rd.result \in Data <=>
                rd'.pc \in {"unlock", "return"} /\ rd'.result \in Data
          BY <2>0, <2>3, NoData DEF Inside
        <4>2. rd.pc \in {"unlock", "return"} => rd'.result = rd.result
          BY <2>3 DEF Inside
        <4>3. CASE rd.pc \in {"unlock", "return"} /\ rd.result \in Data
          BY <1>0, <2>0, <2>1, <4>1, <4>2, <4>3, HeldIs
        <4>4. CASE ~(rd.pc \in {"unlock", "return"} /\ rd.result \in Data)
          BY <1>0, <2>0, <2>1, <4>1, <4>4, HeldIs
        <4> QED BY <4>3, <4>4
      <3>5. Passed' = Passed
        BY <1>1, <3>4, PassedIs
      <3> QED BY <1>2, <1>3, <2>1, <2>3, <3>3, <3>5, Stays DEF SourceInv
    <2>4. CASE /\ rd.pc = "next" /\ taken[h] < arrived[h] /\ taken' = [taken EXCEPT ![h] = @ + 1]
               /\ rd'.pc = "unlock" /\ rd'.result = <<h, taken[h] + 1>>
      <3>1. /\ taken \in [Handles -> 0..MaxPackets] /\ taken[h] + 1 \in 1..MaxPackets
            /\ taken' = [taken EXCEPT ![h] = taken[h] + 1]
        <4>1. taken[h] \in 0..MaxPackets /\ arrived[h] \in 0..MaxPackets
          BY <1>0 DEF HandleType
        <4> QED BY <1>0, <2>4, <4>1, HandlesAre DEF HandleType
      <3>2. PICK x : x = <<h, taken[h] + 1>>
        OBVIOUS
      <3>3. x \in Data /\ x # EOF
        BY <3>1, <3>2, NoData DEF Data
      <3>4. \A g \in Handles : g > h => taken[g] = 0
        BY <1>0, <2>2 DEF InTurn
      <3>5. InTurn'
        <4>1. ASSUME NEW g \in Handles
              PROVE  (g <= Past => Ended(g)') /\ (g > Past + 1 => taken'[g] = 0)
          <5>1. g <= Past \/ g > Past + 1 => g # h
            BY <1>0, <2>2, HandlesAre
          <5>2. g # h => taken'[g] = taken[g]
            BY <3>1
          <5> QED BY <1>0, <2>0, <5>1, <5>2 DEF InTurn, Ended
        <4> QED BY <1>0, <1>1, <1>3, <2>4, <3>2, <3>3, <4>1 DEF InTurn
      <3>6. HeldBy(packet, rd) = <<>> /\ HeldBy(packet', rd') = <<x>>
        <4>1. HeldBy(packet, rd) = <<>>
          BY <1>0, <2>1, <2>4, HeldIs
        <4>2. rd'.pc \in {"unlock", "return"} /\ rd'.result \in Data /\ rd'.result = x
          BY <2>4, <3>2, <3>3
        <4> QED BY <2>0, <2>1, <4>1, <4>2, HeldIs
      <3>7. <<>> \in Seq(Data)
        BY EmptySeq
      <3>8. /\ (received \o c.buf) \o <<x>> = Append((received \o c.buf) \o <<>>, x)
            /\ (received \o c.buf) \o <<>> \in Seq(Data)
        BY <1>0, <3>3, <3>7, Moves
      <3>9. Passed \in Seq(Data) /\ Passed' = Append(Passed, x)
        BY <1>1, <3>6, <3>8, PassedIs
      <3>10. Exactly(Append(Passed, x), taken')
        BY <1>0, <3>1, <3>2, <3>4, <3>9, AppendExactly
      <3>11. Exactly(Passed, taken)'
        BY <3>9, <3>10 DEF Exactly, Precedes
      <3> QED BY <1>2, <1>3, <2>1, <3>5, <3>11 DEF SourceInv
    <2> QED BY <1>0, <1>5, <2>3, <2>4, ReadMoves
  <1> QED BY <1>4, <1>5

-----------------------------------------------------------------------------
\* The inductive invariant of handles, goroutine and consumer.
THEOREM CaptureInductive == Spec => [](HandleInv /\ SourceInv)
  <1>1. Init => HandleInv /\ SourceInv
    BY InitHandles, InitSource
  <1>2. HandleInv /\ SourceInv /\ [Next]_vars => (HandleInv /\ SourceInv)'
    <2> SUFFICES ASSUME HandleInv, SourceInv, [Next]_vars PROVE HandleInv' /\ SourceInv'
      OBVIOUS
    <2>1. CASE Packets \/ Sleep \/ Send \/ Receive \/ GiveUp \/ UNCHANGED vars
      BY <2>1, PassingKeeps
    <2>2. CASE ConcatRead \/ ReadReturns
      BY <2>2, ConcatKeeps
    <2>3. ASSUME NEW h \in Handles, UNCHANGED sourceVars,
                 ReadStep(h) \/ NextUnsure(h) \/ Arrive(h) \/ CloseStart(h) \/ CloseFinish(h)
          PROVE  HandleInv' /\ SourceInv'
      BY <2>3, HandleKeeps
    <2> QED BY <2>1, <2>2, <2>3 DEF Next, Goroutine
  <1> QED BY <1>1, <1>2, PTL DEF Spec

\* No C call is made with a handle that was closed, and the mutex is held
\* exactly by a reader that is inside (Close, getNextBufPtrLocked), for every
\* number of handles and every kind of them.
THEOREM ClosedHandlesUnused == Spec => []NoUseAfterClose
  <1>1. HandleInv => NoUseAfterClose
    BY DEF HandleInv, Guarded, NoUseAfterClose, Inside
  <1> QED BY <1>1, CaptureInductive, PTL

\* The consumer gets the packets that libpcap returned, each once and in their
\* order, and its range ends only when every handle has (packetsToChannel,
\* concat.ReadPacketData), for every number of handles and packets and every
\* capacity of the channel.
THEOREM NothingIsLost == Spec => []Complete
  <1>1. HandleInv /\ SourceInv => Complete
    <2> SUFFICES ASSUME HandleInv, SourceInv PROVE Complete
      OBVIOUS
    <2>1. Control /\ InTurn /\ Exactly(Passed, taken) /\ Past = Cardinality(Handles) - Len(sources)
      BY TypesOf
    <2>2. EndsOnlyAtEOF
      <3> SUFFICES ASSUME c.closed
                   PROVE  (\A h \in Handles : Ended(h)) /\ pc = "done" /\ packet = NoPacket
        BY DEF EndsOnlyAtEOF, Ended
      <3>1. pc = "done" /\ packet = NoPacket /\ sources = <<>>
        BY <2>1 DEF Control
      <3>2. Past = Cardinality(Handles)
        BY <2>1, <3>1, HandlesAre
      <3>3. \A h \in Handles : h <= Past
        BY <3>2, HandlesAre
      <3> QED BY <2>1, <3>1, <3>3 DEF InTurn
    <2> QED BY <2>1, <2>2 DEF Complete, Exactly
  <1> QED BY <1>1, CaptureInductive, PTL

-----------------------------------------------------------------------------
(* Packets: what decoding layer by layer makes of a frame.                   *)

\* A packet, from its parts.
Pk(l, r, f, t, x) == [layers |-> l, roles |-> r, failure |-> f, truncated |-> t, next |-> x]
\* What layers may hold.
Names == STRING \union {"failure"}
PacketState == [layers : Seq(Names), roles : [Roles -> Nat], failure : Nat,
                truncated : BOOLEAN, next : Nat]

\* The roles of a packet when decoder d has added its layer.
RolesWith(l, r, d) ==
    IF d.role \in Roles /\ r[d.role] = None THEN [r EXCEPT ![d.role] = Len(l) + 1] ELSE r

\* b holds what q holds, and perhaps more; with nothing left to decode, the same.
Ext(q, b) ==
    /\ Len(q.layers) <= Len(b.layers)
    /\ \A i \in 1..Len(q.layers) : b.layers[i] = q.layers[i]
    /\ \A r \in Roles : q.roles[r] \in {None, b.roles[r]}
    /\ q.failure \in {None, b.failure}
    /\ q.truncated => b.truncated
    /\ q.next = None => b = q

\* n decoders have been called, and none of them failed.
Going(n, q) == q.next = n + 1 /\ Len(q.layers) = n /\ q.failure = None
Sound(n, q) == q \in PacketState /\ (q.next # None => Going(n, q))

LEMMA LeastNumber ==
    ASSUME NEW S \in SUBSET Nat, S # {}
    PROVE  Min(S) \in S /\ \A j \in S : Min(S) <= j
  <1> DEFINE R == OpToRel(<, Nat)
  <1>1. IsWellFoundedOn(R, Nat)
    BY NatLessThanWellFounded
  <1>2. PICK i \in S : \A j \in S : ~(<<j, i>> \in R)
    <2> HIDE DEF R
    <2> QED BY <1>1, WFMin
  <1>3. \A j \in S : ~(j < i)
    BY <1>2 DEF OpToRel
  <1>4. \A j \in S : i <= j
    BY <1>3
  <1> QED BY <1>4 DEF Min

\* What the operations on packets do to the parts.
LEMMA PacketParts ==
    ASSUME NEW q \in PacketState
    PROVE  /\ q = Pk(q.layers, q.roles, q.failure, q.truncated, q.next)
           /\ q.layers \in Seq(Names) /\ q.roles \in [Roles -> Nat] /\ q.failure \in Nat
           /\ q.truncated \in BOOLEAN /\ q.next \in Nat /\ Len(q.layers) \in Nat
  BY DEF PacketState, Pk

LEMMA PkParts ==
    ASSUME NEW l \in Seq(Names), NEW r \in [Roles -> Nat], NEW f \in Nat,
           NEW t \in BOOLEAN, NEW x \in Nat
    PROVE  /\ Pk(l, r, f, t, x) \in PacketState
           /\ Pk(l, r, f, t, x).layers = l /\ Pk(l, r, f, t, x).roles = r
           /\ Pk(l, r, f, t, x).failure = f /\ Pk(l, r, f, t, x).truncated = t
           /\ Pk(l, r, f, t, x).next = x
  BY DEF PacketState, Pk

LEMMA PkNext ==
    ASSUME NEW l, NEW r, NEW f, NEW t, NEW x, NEW y
    PROVE  [Pk(l, r, f, t, x) EXCEPT !.next = y] = Pk(l, r, f, t, y)
  BY DEF Pk

LEMMA PkFails ==
    ASSUME NEW l \in Seq(Names), NEW r \in [Roles -> Nat], NEW f \in Nat,
           NEW t \in BOOLEAN, NEW x \in Nat
    PROVE  addFinalDecodeError(Pk(l, r, f, t, x))
             = Pk(Append(l, "failure"), r, IF f = None THEN Len(l) + 1 ELSE f, t, x)
  <1>1. PICK q : q = Pk(l, r, f, t, x)
    OBVIOUS
  <1>2. q.layers = l /\ q.failure = f
    BY <1>1 DEF Pk
  <1>3. PICK m : m = Append(l, "failure")
    OBVIOUS
  <1>4. PICK g : g = IF f = None THEN Len(l) + 1 ELSE f
    OBVIOUS
  <1>5. addFinalDecodeError(q) = [q EXCEPT !.layers = m, !.failure = g]
    BY <1>2, <1>3, <1>4, Zenon DEF addFinalDecodeError
  <1>6. [q EXCEPT !.layers = m, !.failure = g] = Pk(m, r, g, t, x)
    <2>1. [q EXCEPT !.layers = m] = Pk(m, r, f, t, x)
      BY <1>1 DEF Pk
    <2>2. [Pk(m, r, f, t, x) EXCEPT !.failure = g] = Pk(m, r, g, t, x)
      BY DEF Pk
    <2>3. [q EXCEPT !.layers = m, !.failure = g]
            = [[q EXCEPT !.layers = m] EXCEPT !.failure = g]
      OBVIOUS
    <2> QED BY <2>1, <2>2, <2>3, Zenon
  <1> QED BY <1>1, <1>3, <1>4, <1>5, <1>6, Zenon

LEMMA RolesType ==
    ASSUME NEW l \in Seq(Names), NEW r \in [Roles -> Nat], NEW d \in Decoder
    PROVE  /\ RolesWith(l, r, d) \in [Roles -> Nat]
           /\ \A x \in Roles : r[x] \in {None, RolesWith(l, r, d)[x]}
  BY DEF RolesWith

LEMMA PkBuild ==
    ASSUME NEW l \in Seq(Names), NEW r \in [Roles -> Nat], NEW f \in Nat,
           NEW t \in BOOLEAN, NEW x \in Nat, NEW d \in Decoder,
           NEW u \in BOOLEAN, u <=> t \/ d.trunc
    PROVE  /\ d.end \in {"error", "panic"} => Build(Pk(l, r, f, t, x), d) = Pk(l, r, f, u, x)
           /\ d.end \notin {"error", "panic"} =>
                Build(Pk(l, r, f, t, x), d) = Pk(Append(l, d.type), RolesWith(l, r, d), f, u, x)
  <1>1. u = (t \/ d.trunc)
    BY DEF Decoder
  <1>2. [Pk(l, r, f, t, x) EXCEPT !.truncated = @ \/ d.trunc] = Pk(l, r, f, u, x)
    BY <1>1 DEF Pk
  <1>3. PICK m : m = Append(l, d.type)
    OBVIOUS
  <1>4. Len(m) = Len(l) + 1
    BY <1>3
  <1>5. AddLayer(Pk(l, r, f, u, x), d) = Pk(m, r, f, u, x)
    <2>1. PICK q : q = Pk(l, r, f, u, x)
      OBVIOUS
    <2>2. q.layers = l
      BY <2>1 DEF Pk
    <2>3. AddLayer(q, d) = [q EXCEPT !.layers = m]
      BY <1>3, <2>2, Zenon DEF AddLayer
    <2>4. [q EXCEPT !.layers = m] = Pk(m, r, f, u, x)
      BY <2>1 DEF Pk
    <2> QED BY <2>1, <2>3, <2>4, Zenon
  <1>6. SetLayer(Pk(m, r, f, u, x), d.role) = Pk(m, RolesWith(l, r, d), f, u, x)
    <2>1. CASE d.role \in Roles /\ r[d.role] = None
      <3>1. PICK e : e = d.role
        OBVIOUS
      <3>2. PICK s : s = [r EXCEPT ![e] = Len(l) + 1]
        OBVIOUS
      <3>3. RolesWith(l, r, d) = s
        BY <2>1, <3>1, <3>2 DEF RolesWith
      <3>4. [Pk(m, r, f, u, x) EXCEPT !.roles[e] = Len(Pk(m, r, f, u, x).layers)]
                = Pk(m, s, f, u, x)
        <4>1. PICK q : q = Pk(m, r, f, u, x)
          OBVIOUS
        <4>2. q.roles = r /\ Len(q.layers) = Len(l) + 1
          BY <1>4, <4>1 DEF Pk
        <4>3. [q EXCEPT !.roles[e] = Len(q.layers)] = [q EXCEPT !.roles = s]
          BY <3>2, <4>2
        <4>4. [q EXCEPT !.roles = s] = Pk(m, s, f, u, x)
          BY <4>1 DEF Pk
        <4> QED BY <4>1, <4>3, <4>4, Zenon
      <3>5. Pk(m, r, f, u, x).roles = r
        BY DEF Pk
      <3> QED BY <2>1, <3>1, <3>3, <3>4, <3>5 DEF SetLayer
    <2>2. CASE ~(d.role \in Roles /\ r[d.role] = None)
      BY <2>2 DEF SetLayer, RolesWith, Pk
    <2> QED BY <2>1, <2>2
  <1> QED BY <1>1, <1>2, <1>3, <1>5, <1>6 DEF Build

\* Ext is an order.
LEMMA ExtOrder ==
    ASSUME NEW a \in PacketState, NEW b \in PacketState, NEW w \in PacketState,
           Ext(a, b), Ext(b, w)
    PROVE  Ext(a, w)
  <1>1. /\ Len(a.layers) \in Nat /\ Len(b.layers) \in Nat /\ Len(w.layers) \in Nat
    BY PacketParts
  <1>2. Len(a.layers) <= Len(w.layers)
    BY <1>1 DEF Ext
  <1>3. \A i \in 1..Len(a.layers) : w.layers[i] = a.layers[i]
    <2> TAKE i \in 1..Len(a.layers)
    <2>1. i \in 1..Len(b.layers)
      BY <1>1 DEF Ext
    <2> QED BY <2>1 DEF Ext
  <1>4. \A r \in Roles : a.roles[r] \in {None, w.roles[r]}
    BY DEF Ext
  <1> QED BY <1>2, <1>3, <1>4 DEF Ext

LEMMA ExtSame ==
    ASSUME NEW a \in PacketState PROVE Ext(a, a)
  BY PacketParts DEF Ext

LEMMA ExtPrefix ==
    ASSUME NEW q \in PacketState, NEW e \in PacketState, Ext(q, e)
    PROVE  IsPrefix(q.layers, e.layers)
  <1>1. PICK s \in Seq(Names), t \in Seq(Names) : s = q.layers /\ t = e.layers
    BY PacketParts
  <1>2. /\ Len(q.layers) <= Len(e.layers)
        /\ \A i \in 1..Len(q.layers) : e.layers[i] = q.layers[i]
    BY DEF Ext
  <1>3. SubSeq(s, 1, Len(s)) = SubSeq(t, 1, Len(s))
    BY <1>1, <1>2
  <1> QED BY <1>1, <1>2, <1>3 DEF IsPrefix

\* A decoder only adds.
LEMMA PkExt ==
    ASSUME NEW l \in Seq(Names), NEW r \in [Roles -> Nat], NEW f \in Nat,
           NEW t \in BOOLEAN, NEW x \in Nat \ {0},
           NEW m \in Seq(Names), NEW s \in [Roles -> Nat], NEW g \in Nat,
           NEW u \in BOOLEAN, NEW y \in Nat, NEW e,
           m = l \/ m = Append(l, e), \A i \in Roles : r[i] \in {None, s[i]},
           f \in {None, g}, t => u
    PROVE  Ext(Pk(l, r, f, t, x), Pk(m, s, g, u, y))
  <1>1. /\ Len(l) \in Nat /\ Len(m) \in Nat /\ Len(l) <= Len(m)
        /\ \A i \in 1..Len(l) : m[i] = l[i]
    OBVIOUS
  <1>2. x # None
    BY DEF None
  <1>3. PICK a \in PacketState : /\ a = Pk(l, r, f, t, x) /\ a.layers = l /\ a.roles = r
                                /\ a.failure = f /\ a.truncated = t /\ a.next = x
    BY PkParts
  <1>4. PICK b \in PacketState : /\ b = Pk(m, s, g, u, y) /\ b.layers = m /\ b.roles = s
                                /\ b.failure = g /\ b.truncated = u
    BY PkParts
  <1>5. Ext(a, b)
    <2>1. \A i \in Roles : a.roles[i] \in {None, b.roles[i]}
      BY <1>3, <1>4
    <2>2. a.failure \in {None, b.failure} /\ (a.truncated => b.truncated)
      BY <1>3, <1>4
    <2>3. /\ Len(a.layers) <= Len(b.layers)
          /\ \A i \in 1..Len(a.layers) : b.layers[i] = a.layers[i]
      BY <1>1, <1>3, <1>4
    <2> QED BY <1>2, <1>3, <2>1, <2>2, <2>3 DEF Ext
  <1> QED BY <1>3, <1>4, <1>5

-----------------------------------------------------------------------------
\* A decoder that fails has ended the chain, with or without its own layer.
Extend(l, r, t, d, y) ==
    IF d.end \in {"error", "panic"} THEN Pk(l, r, None, t \/ d.trunc, y)
    ELSE Pk(Append(l, d.type), RolesWith(l, r, d), None, t \/ d.trunc, y)

LEMMA BuildIs ==
    ASSUME NEW l \in Seq(Names), NEW r \in [Roles -> Nat], NEW t \in BOOLEAN,
           NEW d \in Decoder, NEW x \in Nat \ {0}, NEW y \in Nat
    PROVE  /\ Build(Pk(l, r, None, t, None), d) = Extend(l, r, t, d, None)
           /\ Extend(l, r, t, d, y) \in PacketState
           /\ Extend(l, r, t, d, y).next = y
           /\ Extend(l, r, t, d, y).failure = None
           /\ Extend(l, r, t, d, y).layers =
                IF d.end \in {"error", "panic"} THEN l ELSE Append(l, d.type)
           /\ Extend(l, r, t, d, y).truncated <=> (t \/ d.trunc)
           /\ [Extend(l, r, t, d, None) EXCEPT !.next = y] = Extend(l, r, t, d, y)
           /\ Ext(Pk(l, r, None, t, x), Extend(l, r, t, d, y))
  <1>1. PICK u \in BOOLEAN : u = (t \/ d.trunc)
    BY DEF Decoder
  <1>2. None \in Nat
    BY DEF None
  <1>3. CASE d.end \in {"error", "panic"}
    <2>1. \A z : Extend(l, r, t, d, z) = Pk(l, r, None, u, z)
      BY <1>1, <1>3 DEF Extend
    <2>2. \A i \in Roles : r[i] \in {None, r[i]}
      OBVIOUS
    <2>3. Ext(Pk(l, r, None, t, x), Pk(l, r, None, u, y))
      BY <1>1, <1>2, <2>2, PkExt
    <2>4. Build(Pk(l, r, None, t, None), d) = Pk(l, r, None, u, None)
      <3>1. u <=> t \/ d.trunc
        BY <1>1
      <3> QED BY <1>2, <1>3, <3>1, PkBuild
    <2>5. [Pk(l, r, None, u, None) EXCEPT !.next = y] = Pk(l, r, None, u, y)
      BY PkNext
    <2>6. /\ Pk(l, r, None, u, y) \in PacketState /\ Pk(l, r, None, u, y).next = y
          /\ Pk(l, r, None, u, y).failure = None /\ Pk(l, r, None, u, y).layers = l
      BY <1>2, PkParts
    <2>7. Extend(l, r, t, d, y).truncated = u
      BY <2>1 DEF Pk
    <2> QED BY <1>1, <1>3, <2>1, <2>3, <2>4, <2>5, <2>6, <2>7
  <1>4. CASE d.end \notin {"error", "panic"}
    <2>0. d.type \in Names
      BY DEF Decoder, Names
    <2>1. PICK m \in Seq(Names) : m = Append(l, d.type)
      BY <2>0, AppendProperties
    <2>2. PICK s \in [Roles -> Nat] :
              s = RolesWith(l, r, d) /\ \A i \in Roles : r[i] \in {None, s[i]}
      BY RolesType
    <2>3. \A z : Extend(l, r, t, d, z) = Pk(m, s, None, u, z)
      BY <1>1, <1>4, <2>1, <2>2 DEF Extend
    <2>4. Ext(Pk(l, r, None, t, x), Pk(m, s, None, u, y))
      BY <1>1, <1>2, <2>1, <2>2, PkExt
    <2>5. Build(Pk(l, r, None, t, None), d) = Pk(m, s, None, u, None)
      <3>1. u <=> t \/ d.trunc
        BY <1>1
      <3>2. Build(Pk(l, r, None, t, None), d)
              = Pk(Append(l, d.type), RolesWith(l, r, d), None, u, None)
        BY <1>2, <1>4, <3>1, PkBuild
      <3> QED BY <2>1, <2>2, <3>2, Zenon
    <2>6. [Pk(m, s, None, u, None) EXCEPT !.next = y] = Pk(m, s, None, u, y)
      BY PkNext
    <2>7. /\ Pk(m, s, None, u, y) \in PacketState /\ Pk(m, s, None, u, y).next = y
          /\ Pk(m, s, None, u, y).failure = None /\ Pk(m, s, None, u, y).layers = m
      BY <1>2, PkParts
    <2>8. Extend(l, r, t, d, y).truncated = u
      BY <2>3 DEF Pk
    <2> QED BY <1>1, <1>4, <2>1, <2>3, <2>4, <2>5, <2>6, <2>7, <2>8
  <1> QED BY <1>3, <1>4

\* The failure is one more layer.
LEMMA FailureIs ==
    ASSUME NEW q \in PacketState, q.failure = None, NEW a \in PacketState, a.next # None,
           Ext(a, [q EXCEPT !.next = 1])
    PROVE  /\ addFinalDecodeError(q) \in PacketState
           /\ addFinalDecodeError(q).next = q.next
           /\ addFinalDecodeError(q).layers = Append(q.layers, "failure")
           /\ addFinalDecodeError(q).truncated = q.truncated
           /\ addFinalDecodeError(q).failure = Len(q.layers) + 1
           /\ Ext(a, addFinalDecodeError(q))
  <1>1. PICK l \in Seq(Names), r \in [Roles -> Nat], t \in BOOLEAN, x \in Nat :
            q = Pk(l, r, None, t, x)
    <2>1. /\ q = Pk(q.layers, q.roles, q.failure, q.truncated, q.next)
          /\ q.layers \in Seq(Names) /\ q.roles \in [Roles -> Nat]
          /\ q.truncated \in BOOLEAN /\ q.next \in Nat
      BY PacketParts
    <2> QED BY <2>1, Zenon
  <1>2. None \in Nat /\ 1 \in Nat \ {0} /\ None = 0
    BY DEF None
  <1>3. q.layers = l /\ q.next = x /\ q.truncated = t
    <2>1. /\ Pk(l, r, None, t, x).layers = l /\ Pk(l, r, None, t, x).next = x
          /\ Pk(l, r, None, t, x).truncated = t
      BY DEF Pk
    <2> QED BY <1>1, <2>1
  <1>4. PICK m \in Seq(Names) : m = Append(l, "failure")
    <2>1. "failure" \in Names
      BY DEF Names
    <2> QED BY <2>1, AppendProperties, Zenon
  <1>5. PICK g \in Nat : g = Len(l) + 1
    OBVIOUS
  <1>6. addFinalDecodeError(q) = Pk(m, r, g, t, x)
    <2>1. addFinalDecodeError(Pk(l, r, None, t, x))
            = Pk(Append(l, "failure"), r, IF None = None THEN Len(l) + 1 ELSE None, t, x)
      <3>1. \A f \in Nat : addFinalDecodeError(Pk(l, r, f, t, x))
              = Pk(Append(l, "failure"), r, IF f = None THEN Len(l) + 1 ELSE f, t, x)
        BY <1>1, PkFails
      <3> QED BY <1>2, <3>1, Zenon
    <2> QED BY <1>1, <1>4, <1>5, <2>1, Zenon
  <1>7. /\ Pk(m, r, g, t, x) \in PacketState /\ Pk(m, r, g, t, x).next = x
        /\ Pk(m, r, g, t, x).failure = g /\ Pk(m, r, g, t, x).layers = m
        /\ Pk(m, r, g, t, x).truncated = t
    BY PkParts
  <1>8. [q EXCEPT !.next = 1] = Pk(l, r, None, t, 1)
    BY <1>1, PkNext
  <1>9. Ext(Pk(l, r, None, t, 1), Pk(m, r, g, t, x))
    <2>1. \A i \in Roles : r[i] \in {None, r[i]}
      OBVIOUS
    <2> QED BY <1>2, <1>4, <2>1, PkExt
  <1>10. Pk(l, r, None, t, 1) \in PacketState
    BY <1>2, PkParts
  <1>11. Ext(a, Pk(m, r, g, t, x))
    BY <1>7, <1>8, <1>9, <1>10, ExtOrder
  <1> QED BY <1>3, <1>4, <1>5, <1>6, <1>7, <1>11

\* A call of decodeNextLayer with bytes left, and the decoder that it calls.
LEMMA StepIs ==
    ASSUME NEW fr \in Seq(Decoder), NEW n \in 0..(Len(fr) - 1),
           NEW q \in PacketState, Going(n, q)
    PROVE  \E b \in PacketState, d \in Decoder :
            /\ d = fr[n + 1] /\ b = Build([q EXCEPT !.next = None], d)
            /\ b.next = None /\ b.failure = None
            /\ b.truncated <=> (q.truncated \/ d.trunc)
            /\ b.layers = IF d.end \in {"error", "panic"} THEN q.layers
                          ELSE Append(q.layers, d.type)
            /\ \A y \in Nat : Ext(q, [b EXCEPT !.next = y])
            /\ decodeNextLayer(fr, q) =
                 IF Failed(d) THEN addFinalDecodeError(b)
                 ELSE IF d.end = "next" THEN [b EXCEPT !.next = n + 2] ELSE b
  <1>1. PICK l \in Seq(Names), r \in [Roles -> Nat], t \in BOOLEAN :
            q = Pk(l, r, None, t, n + 1) /\ q.layers = l /\ Len(l) = n /\ q.truncated = t
    BY PacketParts DEF Going
  <1>2. PICK d \in Decoder : d = fr[n + 1]
    OBVIOUS
  <1>3. n + 1 \in Nat \ {0} /\ None \in Nat /\ n + 1 # None
    BY DEF None
  <1>4. [q EXCEPT !.next = None] = Pk(l, r, None, t, None)
    BY <1>1, PkNext
  <1>5. PICK b : b = Extend(l, r, t, d, None)
    OBVIOUS
  <1>6. /\ Build([q EXCEPT !.next = None], d) = b
        /\ b \in PacketState /\ b.next = None /\ b.failure = None
        /\ b.truncated <=> (t \/ d.trunc)
        /\ b.layers = IF d.end \in {"error", "panic"} THEN l ELSE Append(l, d.type)
    <2>1. /\ Build(Pk(l, r, None, t, None), d) = Extend(l, r, t, d, None)
          /\ Extend(l, r, t, d, None) \in PacketState
          /\ Extend(l, r, t, d, None).next = None
          /\ Extend(l, r, t, d, None).failure = None
          /\ Extend(l, r, t, d, None).truncated <=> (t \/ d.trunc)
          /\ Extend(l, r, t, d, None).layers =
                IF d.end \in {"error", "panic"} THEN l ELSE Append(l, d.type)
      BY <1>1, <1>2, <1>3, BuildIs
    <2> QED BY <1>4, <1>5, <2>1
  <1>7. \A y \in Nat : Ext(q, [b EXCEPT !.next = y])
    <2> TAKE y \in Nat
    <2>1. /\ [Extend(l, r, t, d, None) EXCEPT !.next = y] = Extend(l, r, t, d, y)
          /\ Ext(Pk(l, r, None, t, n + 1), Extend(l, r, t, d, y))
      BY <1>1, <1>2, <1>3, BuildIs
    <2> QED BY <1>1, <1>5, <2>1, Zenon
  <1>8. ~NoPayload(fr, q) /\ q.next = n + 1
    BY <1>1 DEF NoPayload, Going, Decoded
  <1>9. decodeNextLayer(fr, q) =
                 IF Failed(d) THEN addFinalDecodeError(b)
                 ELSE IF d.end = "next" THEN [b EXCEPT !.next = n + 2] ELSE b
    <2>1. q.next + 1 = n + 2 /\ q.next # None /\ fr[q.next] = d
      BY <1>2, <1>3, <1>8
    <2> QED BY <1>6, <1>8, <2>1, Zenon DEF decodeNextLayer
  <1>10. /\ b.truncated <=> (q.truncated \/ d.trunc)
         /\ b.layers = IF d.end \in {"error", "panic"} THEN q.layers
                       ELSE Append(q.layers, d.type)
    BY <1>1, <1>6
  <1> QED BY <1>2, <1>6, <1>7, <1>9, <1>10, Zenon

\* A step of the lazy packet.
LEMMA StepSound ==
    ASSUME NEW fr \in Seq(Decoder), NEW n \in 0..Len(fr), NEW q, Sound(n, q)
    PROVE  /\ Sound(n + 1, decodeNextLayer(fr, q))
           /\ Ext(q, decodeNextLayer(fr, q))
           /\ n = Len(fr) => decodeNextLayer(fr, q).next = None
  <1> USE DEF None
  <1>0. q \in PacketState
    BY DEF Sound
  <1>1. CASE q.next = None
    <2>1. decodeNextLayer(fr, q) = q
      BY <1>1 DEF decodeNextLayer
    <2> QED BY <1>0, <1>1, <2>1, ExtSame DEF Sound
  <1>2. CASE q.next # None /\ n = Len(fr)
    <2>1. Going(n, q)
      BY <1>2 DEF Sound
    <2>2. decodeNextLayer(fr, q) = [q EXCEPT !.next = None]
      BY <1>2, <2>1 DEF decodeNextLayer, NoPayload, Going, Decoded
    <2>3. PICK l \in Seq(Names), r \in [Roles -> Nat], t \in BOOLEAN :
              q = Pk(l, r, None, t, n + 1)
      BY <1>0, <2>1, PacketParts DEF Going
    <2>4. decodeNextLayer(fr, q) = Pk(l, r, None, t, None)
      BY <2>2, <2>3, PkNext
    <2>5. Pk(l, r, None, t, None) \in PacketState /\ Pk(l, r, None, t, None).next = None
      BY PkParts
    <2>6. Ext(Pk(l, r, None, t, n + 1), Pk(l, r, None, t, None))
      <3>1. \A i \in Roles : r[i] \in {None, r[i]}
        OBVIOUS
      <3>2. n + 1 \in Nat \ {0} /\ None \in Nat
        OBVIOUS
      <3> HIDE DEF None
      <3> QED BY <3>1, <3>2, PkExt
    <2> QED BY <2>3, <2>4, <2>5, <2>6 DEF Sound
  <1>3. CASE q.next # None /\ n \in 0..(Len(fr) - 1)
    <2>1. Going(n, q)
      BY <1>3 DEF Sound
    <2>2. PICK b \in PacketState, d \in Decoder :
            /\ d = fr[n + 1] /\ b = Build([q EXCEPT !.next = None], d)
            /\ b.next = None /\ b.failure = None
            /\ b.layers = IF d.end \in {"error", "panic"} THEN q.layers
                          ELSE Append(q.layers, d.type)
            /\ \A y \in Nat : Ext(q, [b EXCEPT !.next = y])
            /\ decodeNextLayer(fr, q) =
                 IF Failed(d) THEN addFinalDecodeError(b)
                 ELSE IF d.end = "next" THEN [b EXCEPT !.next = n + 2] ELSE b
      BY <1>0, <1>3, <2>1, StepIs
    <2>3. CASE Failed(d)
      <3>1. Ext(q, [b EXCEPT !.next = 1])
        BY <2>2
      <3>2. /\ addFinalDecodeError(b) \in PacketState
            /\ addFinalDecodeError(b).next = None /\ Ext(q, addFinalDecodeError(b))
        BY <1>0, <1>3, <2>2, <3>1, FailureIs
      <3> QED BY <1>3, <2>2, <2>3, <3>2 DEF Sound
    <2>4. CASE ~Failed(d) /\ d.end = "next"
      <3>1. PICK w : w = [b EXCEPT !.next = n + 2]
        OBVIOUS
      <3>2. /\ w \in PacketState /\ w.next = n + 2 /\ w.failure = None /\ w.layers = b.layers
        <4>1. n + 2 \in Nat
          OBVIOUS
        <4> HIDE DEF None
        <4> QED BY <2>2, <3>1, <4>1 DEF PacketState
      <3>3. Len(b.layers) = n + 1
        BY <1>0, <2>1, <2>2, <2>4, PacketParts DEF Going, Decoder
      <3>4. Ext(q, w)
        <4>1. n + 2 \in Nat
          OBVIOUS
        <4> QED BY <2>2, <3>1, <4>1, Zenon
      <3> QED BY <1>3, <2>2, <2>4, <3>1, <3>2, <3>3, <3>4 DEF Sound, Going
    <2>5. CASE ~Failed(d) /\ d.end # "next"
      <3>1. [b EXCEPT !.next = None] = b
        <4> HIDE DEF None
        <4> QED BY <2>2 DEF PacketState
      <3>2. Ext(q, b)
        BY <2>2, <3>1
      <3> QED BY <1>3, <2>2, <2>5, <3>2 DEF Sound
    <2> QED BY <2>3, <2>4, <2>5
  <1> QED BY <1>1, <1>2, <1>3

-----------------------------------------------------------------------------
\* The packets that decodeNextLayer makes of q, one after the other.
LazyLoop(fr, q, h) == [n \in 0..(Len(fr) + 1) |->
                          IF n = 0 THEN q ELSE decodeNextLayer(fr, h[n - 1])]
Chain(fr, q) == CHOOSE h : h = LazyLoop(fr, q, h)

\* Recursion over numbers is well defined.
LEMMA ChainExists ==
    ASSUME NEW fr, NEW q, Len(fr) \in Nat
    PROVE  Chain(fr, q) = LazyLoop(fr, q, Chain(fr, q))
  <1> DEFINE Good(m, g) ==
          g = [n \in 0..m |-> IF n = 0 THEN q ELSE decodeNextLayer(fr, g[n - 1])]
  <1> DEFINE Bad == {m \in Nat : \A g : ~Good(m, g)}
  <1>1. 0 \notin Bad
    <2>1. PICK g : g = [n \in 0..0 |-> q]
      OBVIOUS
    <2>2. Good(0, g)
      BY <2>1
    <2> QED BY <2>2
  <1>2. ASSUME NEW m \in Nat, m \notin Bad
        PROVE  m + 1 \notin Bad
    <2>1. PICK g : Good(m, g)
      BY <1>2
    <2>2. PICK w : w = decodeNextLayer(fr, g[m])
      OBVIOUS
    <2>3. PICK f : f = [n \in 0..(m + 1) |-> IF n = m + 1 THEN w ELSE g[n]]
      OBVIOUS
    <2>4. ASSUME NEW n \in 0..(m + 1)
          PROVE  f[n] = IF n = 0 THEN q ELSE decodeNextLayer(fr, f[n - 1])
      <3>1. CASE n = m + 1
        <4>1. f[n - 1] = g[m] /\ f[n] = w /\ n # 0
          BY <2>3, <3>1
        <4> QED BY <2>2, <4>1, Zenon
      <3>2. CASE n \in 0..m
        <4>1. f[n] = g[n] /\ (n # 0 => f[n - 1] = g[n - 1])
          BY <2>3, <3>2
        <4>2. g[n] = IF n = 0 THEN q ELSE decodeNextLayer(fr, g[n - 1])
          BY <2>1, <3>2, Zenon
        <4> QED BY <4>1, <4>2, Zenon
      <3> QED BY <3>1, <3>2
    <2>5. f = [n \in 0..(m + 1) |-> f[n]]
      BY <2>3
    <2>6. Good(m + 1, f)
      BY <2>4, <2>5, Zenon
    <2>7. m + 1 \in Nat
      OBVIOUS
    <2> QED BY <2>6, <2>7, Zenon
  <1>3. Bad = {}
    <2> SUFFICES ASSUME Bad # {} PROVE FALSE
      OBVIOUS
    <2>1. PICK b \in Bad : \A j \in Bad : b <= j
      <3>1. Bad \in SUBSET Nat
        OBVIOUS
      <3> QED BY <3>1, LeastNumber
    <2>2. b \in Nat /\ b # 0
      BY <1>1, <2>1
    <2>3. b - 1 \in Nat /\ (b - 1) + 1 = b /\ ~(b <= b - 1)
      BY <2>2
    <2>4. b - 1 \notin Bad
      BY <2>1, <2>3, Zenon
    <2> HIDE DEF Bad
    <2> QED BY <1>2, <2>1, <2>3, <2>4
  <1>4. PICK N \in Nat : N = Len(fr) + 1
    OBVIOUS
  <1>5. \E g : Good(N, g)
    BY <1>3, <1>4
  <1>6. \E g : g = LazyLoop(fr, q, g)
    BY <1>4, <1>5, Zenon DEF LazyLoop
  <1> QED BY <1>6, Zenon DEF Chain

LEMMA ChainIs ==
    ASSUME NEW fr, NEW q, Len(fr) \in Nat
    PROVE  /\ DOMAIN Chain(fr, q) = 0..(Len(fr) + 1)
           /\ Chain(fr, q)[0] = q
           /\ \A n \in 0..Len(fr) :
                Chain(fr, q)[n + 1] = decodeNextLayer(fr, Chain(fr, q)[n])
  <1>1. PICK h : h = Chain(fr, q)
    OBVIOUS
  <1>2. h = LazyLoop(fr, q, h)
    BY <1>1, ChainExists, Zenon
  <1>3. DOMAIN h = 0..(Len(fr) + 1)
    BY <1>2, Zenon DEF LazyLoop
  <1>4. \A n \in 0..(Len(fr) + 1) : h[n] = IF n = 0 THEN q ELSE decodeNextLayer(fr, h[n - 1])
    BY <1>2, Zenon DEF LazyLoop
  <1>5. h[0] = q
    BY <1>4
  <1>6. ASSUME NEW n \in 0..Len(fr) PROVE h[n + 1] = decodeNextLayer(fr, h[n])
    <2>1. n + 1 \in 0..(Len(fr) + 1) /\ n + 1 # 0 /\ (n + 1) - 1 = n
      OBVIOUS
    <2> QED BY <1>4, <2>1
  <1> QED BY <1>1, <1>3, <1>5, <1>6

\* Every packet of the chain is sound, and holds what those before it hold.
LEMMA ChainSound ==
    ASSUME NEW fr \in Seq(Decoder), NEW q, Sound(0, q), NEW n \in 0..(Len(fr) + 1)
    PROVE  /\ Sound(n, Chain(fr, q)[n])
           /\ \A k \in 0..n : Ext(Chain(fr, q)[k], Chain(fr, q)[n])
           /\ n = Len(fr) + 1 => Chain(fr, q)[n].next = None
  <1>1. PICK h : h = Chain(fr, q)
    OBVIOUS
  <1>2. Len(fr) \in Nat
    OBVIOUS
  <1>3. h[0] = q /\ \A i \in 0..Len(fr) : h[i + 1] = decodeNextLayer(fr, h[i])
    BY <1>1, <1>2, ChainIs
  <1> DEFINE Good(m) == /\ Sound(m, h[m])
                        /\ \A k \in 0..m : h[k] \in PacketState /\ Ext(h[k], h[m])
                        /\ m = Len(fr) + 1 => h[m].next = None
  <1> DEFINE Bad == {m \in 0..(Len(fr) + 1) : ~Good(m)}
  <1>4. Good(0)
    <2>1. h[0] \in PacketState /\ Ext(h[0], h[0])
      BY <1>3, ExtSame DEF Sound
    <2> QED BY <1>2, <1>3, <2>1
  <1>5. ASSUME NEW m \in 0..Len(fr), Good(m)
        PROVE  Good(m + 1)
    <2>1. PICK a : a = h[m]
      OBVIOUS
    <2>2. PICK b : b = h[m + 1]
      OBVIOUS
    <2>3. b = decodeNextLayer(fr, a)
      BY <1>3, <2>1, <2>2
    <2>4. Sound(m, a)
      BY <1>5, <2>1
    <2>5. /\ Sound(m + 1, b) /\ Ext(a, b) /\ (m = Len(fr) => b.next = None)
      BY <2>3, <2>4, StepSound
    <2>6. ASSUME NEW k \in 0..(m + 1) PROVE h[k] \in PacketState /\ Ext(h[k], b)
      <3>1. CASE k = m + 1
        BY <2>2, <2>5, <3>1, ExtSame DEF Sound
      <3>2. CASE k \in 0..m
        <4>1. Ext(h[k], a)
          BY <1>5, <2>1, <3>2
        <4>2. h[k] \in PacketState
          BY <1>5, <3>2
        <4> QED BY <2>4, <2>5, <4>1, <4>2, ExtOrder DEF Sound
      <3> QED BY <3>1, <3>2
    <2> QED BY <1>2, <2>2, <2>5, <2>6
  <1>6. Bad = {}
    <2> SUFFICES ASSUME Bad # {} PROVE FALSE
      OBVIOUS
    <2>1. PICK b \in Bad : \A j \in Bad : b <= j
      <3>1. Bad \in SUBSET Nat
        OBVIOUS
      <3> QED BY <3>1, LeastNumber
    <2>2. b \in 0..(Len(fr) + 1) /\ ~Good(b)
      BY <2>1
    <2> HIDE DEF Good
    <2>3. b # 0
      BY <1>4, <2>2
    <2>4. b - 1 \in 0..Len(fr) /\ (b - 1) + 1 = b /\ ~(b <= b - 1)
      BY <2>2, <2>3
    <2>5. b - 1 \notin Bad /\ b - 1 \in 0..(Len(fr) + 1)
      BY <2>1, <2>4
    <2>6. Good(b - 1)
      BY <2>5
    <2> QED BY <1>5, <2>2, <2>4, <2>6
  <1>7. Good(n)
    BY <1>6
  <1> QED BY <1>1, <1>7

-----------------------------------------------------------------------------
\* The eager packet after each of its decoders.
EagerStart == [q |-> NewPacket(None), err |-> FALSE, done |-> FALSE]
EagerLoop(fr, h) == [n \in 0..Len(fr) |->
                        IF n = 0 THEN EagerStart ELSE eagerStep(fr, h[n - 1], fr[n])]
EagerChain(fr) == CHOOSE h : h = EagerLoop(fr, h)

LEMMA EagerExists ==
    ASSUME NEW fr, Len(fr) \in Nat
    PROVE  EagerChain(fr) = EagerLoop(fr, EagerChain(fr))
  <1> DEFINE Good(m, g) ==
          g = [n \in 0..m |-> IF n = 0 THEN EagerStart ELSE eagerStep(fr, g[n - 1], fr[n])]
  <1> DEFINE Bad == {m \in Nat : \A g : ~Good(m, g)}
  <1>1. 0 \notin Bad
    <2>1. PICK g : g = [n \in 0..0 |-> EagerStart]
      OBVIOUS
    <2>2. Good(0, g)
      BY <2>1
    <2> QED BY <2>2
  <1>2. ASSUME NEW m \in Nat, m \notin Bad
        PROVE  m + 1 \notin Bad
    <2>1. PICK g : Good(m, g)
      BY <1>2
    <2>2. PICK w : w = eagerStep(fr, g[m], fr[m + 1])
      OBVIOUS
    <2>3. PICK f : f = [n \in 0..(m + 1) |-> IF n = m + 1 THEN w ELSE g[n]]
      OBVIOUS
    <2>4. ASSUME NEW n \in 0..(m + 1)
          PROVE  f[n] = IF n = 0 THEN EagerStart ELSE eagerStep(fr, f[n - 1], fr[n])
      <3>1. CASE n = m + 1
        <4>1. f[n - 1] = g[m] /\ f[n] = w /\ n # 0
          BY <2>3, <3>1
        <4> QED BY <2>2, <3>1, <4>1, Zenon
      <3>2. CASE n \in 0..m
        <4>1. f[n] = g[n] /\ (n # 0 => f[n - 1] = g[n - 1])
          BY <2>3, <3>2
        <4>2. g[n] = IF n = 0 THEN EagerStart ELSE eagerStep(fr, g[n - 1], fr[n])
          BY <2>1, <3>2, Zenon
        <4> QED BY <4>1, <4>2, Zenon
      <3> QED BY <3>1, <3>2
    <2>5. f = [n \in 0..(m + 1) |-> f[n]]
      BY <2>3
    <2>6. Good(m + 1, f)
      BY <2>4, <2>5, Zenon
    <2>7. m + 1 \in Nat
      OBVIOUS
    <2> QED BY <2>6, <2>7, Zenon
  <1>3. Bad = {}
    <2> SUFFICES ASSUME Bad # {} PROVE FALSE
      OBVIOUS
    <2>1. PICK b \in Bad : \A j \in Bad : b <= j
      <3>1. Bad \in SUBSET Nat
        OBVIOUS
      <3> QED BY <3>1, LeastNumber
    <2>2. b \in Nat /\ b # 0
      BY <1>1, <2>1
    <2>3. b - 1 \in Nat /\ (b - 1) + 1 = b /\ ~(b <= b - 1)
      BY <2>2
    <2>4. b - 1 \notin Bad
      BY <2>1, <2>3, Zenon
    <2> HIDE DEF Bad
    <2> QED BY <1>2, <2>1, <2>3, <2>4
  <1>4. PICK N \in Nat : N = Len(fr)
    OBVIOUS
  <1>5. \E g : Good(N, g)
    BY <1>3, <1>4
  <1>6. \E g : g = EagerLoop(fr, g)
    BY <1>4, <1>5, Zenon DEF EagerLoop
  <1> QED BY <1>6, Zenon DEF EagerChain

\* The eager packet, when what the first decoder returned has been handled.
Handled(acc) == IF acc.err THEN addFinalDecodeError(acc.q) ELSE acc.q

LEMMA EagerIs ==
    ASSUME NEW fr, Len(fr) \in Nat
    PROVE  /\ EagerChain(fr)[0] = EagerStart
           /\ \A n \in 0..(Len(fr) - 1) :
                EagerChain(fr)[n + 1] = eagerStep(fr, EagerChain(fr)[n], fr[n + 1])
           /\ initialDecode(fr) = Handled(EagerChain(fr)[Len(fr)])
  <1>1. PICK h : h = EagerChain(fr)
    OBVIOUS
  <1>2. h = EagerLoop(fr, h)
    BY <1>1, EagerExists, Zenon
  <1>3. \A n \in 0..Len(fr) :
            h[n] = IF n = 0 THEN EagerStart ELSE eagerStep(fr, h[n - 1], fr[n])
    BY <1>2, Zenon DEF EagerLoop
  <1>4. h[0] = EagerStart
    BY <1>3
  <1>5. ASSUME NEW n \in 0..(Len(fr) - 1) PROVE h[n + 1] = eagerStep(fr, h[n], fr[n + 1])
    <2>1. n + 1 \in 0..Len(fr) /\ n + 1 # 0 /\ (n + 1) - 1 = n
      OBVIOUS
    <2> QED BY <1>3, <2>1
  <1>6. initialDecode(fr) = Handled(EagerChain(fr)[Len(fr)])
    BY Zenon DEF initialDecode, Handled, EagerChain, EagerLoop, EagerStart
  <1> QED BY <1>1, <1>4, <1>5, <1>6

\* The eager packet e after the decoders that made q of the lazy packet.
Follows(fr, n, e, q) ==
    /\ ~e.done => /\ ~e.err /\ n < Len(fr) /\ Going(n, q)
                  /\ e.q = [q EXCEPT !.next = None]
    /\ e.done => /\ Handled(e) = [q EXCEPT !.next = None]
                 /\ q.next = None \/ (n = Len(fr) /\ Going(n, q))

LEMMA FollowsStep ==
    ASSUME NEW fr \in Seq(Decoder), NEW n \in 0..(Len(fr) - 1),
           NEW q, Sound(n, q), NEW e, Follows(fr, n, e, q)
    PROVE  Follows(fr, n + 1, eagerStep(fr, e, fr[n + 1]), decodeNextLayer(fr, q))
  <1>0. q \in PacketState
    BY DEF Sound
  <1>1. CASE e.done
    <2>1. eagerStep(fr, e, fr[n + 1]) = e
      BY <1>1, Zenon DEF eagerStep
    <2>2. q.next = None
      BY <1>1 DEF Follows
    <2>3. decodeNextLayer(fr, q) = q
      BY <2>2, Zenon DEF decodeNextLayer
    <2> QED BY <1>1, <2>1, <2>2, <2>3, Zenon DEF Follows
  <1>2. CASE ~e.done
    <2>1. Going(n, q) /\ e.q = [q EXCEPT !.next = None]
      BY <1>2 DEF Follows
    <2>2. PICK b \in PacketState, d \in Decoder :
            /\ d = fr[n + 1] /\ b = Build([q EXCEPT !.next = None], d)
            /\ b.next = None /\ b.failure = None
            /\ b.layers = IF d.end \in {"error", "panic"} THEN q.layers
                          ELSE Append(q.layers, d.type)
            /\ \A y \in Nat : Ext(q, [b EXCEPT !.next = y])
            /\ decodeNextLayer(fr, q) =
                 IF Failed(d) THEN addFinalDecodeError(b)
                 ELSE IF d.end = "next" THEN [b EXCEPT !.next = n + 2] ELSE b
      BY <1>0, <2>1, StepIs
    <2>3. PICK w : w = eagerStep(fr, e, d)
      OBVIOUS
    <2>4. /\ w.q = b /\ w.err = Failed(d) /\ w.done = (d.end # "next" \/ NoPayload(fr, b))
      <3>1. w = [q |-> b, err |-> Failed(d), done |-> d.end # "next" \/ NoPayload(fr, b)]
        BY <1>2, <2>1, <2>2, <2>3, Zenon DEF eagerStep
      <3> QED BY <3>1, Zenon
    <2>5. PICK a : a = decodeNextLayer(fr, q)
      OBVIOUS
    <2>6. Sound(n + 1, a)
      BY <2>5, StepSound
    <2>7. [b EXCEPT !.next = None] = b
      BY <2>2 DEF PacketState
    <2>8. CASE Failed(d)
      <3>1. a = addFinalDecodeError(b)
        BY <2>2, <2>5, <2>8
      <3>2. w.done /\ w.err
        BY <2>4, <2>8 DEF Failed
      <3>3. a.next = None
        <4>1. None \in Nat /\ 1 \in Nat /\ n + 1 # None
          BY DEF None
        <4>2. q.next # None /\ Ext(q, [b EXCEPT !.next = 1])
          BY <2>1, <2>2, <4>1 DEF Going
        <4> QED BY <1>0, <2>2, <3>1, <4>2, FailureIs
      <3>4. a \in PacketState
        BY <2>6 DEF Sound
      <3>5. [a EXCEPT !.next = None] = a
        BY <3>3, <3>4 DEF PacketState
      <3>6. Handled(w) = a
        BY <2>4, <3>1, <3>2, Zenon DEF Handled
      <3> QED BY <2>2, <2>3, <2>5, <3>2, <3>3, <3>5, <3>6, Zenon DEF Follows
    <2>9. CASE ~Failed(d) /\ d.end = "next"
      <3>1. a = [b EXCEPT !.next = n + 2]
        BY <2>2, <2>5, <2>9
      <3>2. Handled(w) = b /\ ~w.err /\ w.q = b
        BY <2>4, <2>9 DEF Handled
      <3>3. b = [a EXCEPT !.next = None]
        <4>1. [a EXCEPT !.next = None] = [b EXCEPT !.next = None]
          BY <3>1, <2>2 DEF PacketState
        <4> QED BY <2>7, <4>1
      <3>4. Len(b.layers) = n + 1
        BY <1>0, <2>1, <2>2, <2>9, PacketParts DEF Going, Decoder
      <3>5. w.done <=> n + 1 = Len(fr)
        BY <2>2, <2>4, <2>9, <3>4 DEF NoPayload, Decoded
      <3>6. Going(n + 1, a)
        <4>1. a.next = n + 2 /\ n + 2 # None
          BY <2>2, <3>1 DEF PacketState, None
        <4> QED BY <2>6, <4>1 DEF Sound
      <3>7. Follows(fr, n + 1, w, a)
        BY <3>2, <3>3, <3>5, <3>6 DEF Follows
      <3> QED BY <2>2, <2>3, <2>5, <3>7
    <2>10. CASE ~Failed(d) /\ d.end # "next"
      <3>1. a = b /\ w.done /\ Handled(w) = b
        BY <2>2, <2>4, <2>5, <2>10 DEF Handled
      <3> QED BY <2>2, <2>3, <2>5, <2>7, <3>1, Zenon DEF Follows
    <2> QED BY <2>8, <2>9, <2>10
  <1> QED BY <1>1, <1>2

LEMMA StartSound ==
    /\ NewPacket(1) \in PacketState /\ Going(0, NewPacket(1)) /\ Sound(0, NewPacket(1))
    /\ [NewPacket(1) EXCEPT !.next = None] = NewPacket(None)
  <1>1. <<>> \in Seq(Names) /\ Len(<<>>) = 0
    OBVIOUS
  <1>2. NewPacket(1) \in PacketState
    BY <1>1 DEF NewPacket, PacketState, None
  <1>3. Going(0, NewPacket(1))
    BY <1>1 DEF NewPacket, Going
  <1>4. [NewPacket(1) EXCEPT !.next = None] = NewPacket(None)
    <2>1. PICK r : r = [i \in Roles |-> None]
      OBVIOUS
    <2>2. PICK l, t : l = <<>> /\ t = FALSE
      OBVIOUS
    <2>3. \A x : NewPacket(x) = Pk(l, r, None, t, x)
      BY <2>1, <2>2, Zenon DEF NewPacket, Pk
    <2>4. [Pk(l, r, None, t, 1) EXCEPT !.next = None] = Pk(l, r, None, t, None)
      BY PkNext
    <2> QED BY <2>3, <2>4, Zenon
  <1> QED BY <1>2, <1>3, <1>4 DEF Sound

\* Decoded to its end, the lazy packet is the eager packet.
LEMMA EagerIsLast ==
    ASSUME NEW fr \in Seq(Decoder), fr # <<>>
    PROVE  initialDecode(fr) = Chain(fr, NewPacket(1))[Len(fr) + 1]
  <1>1. PICK h : h = Chain(fr, NewPacket(1))
    OBVIOUS
  <1>2. PICK e : e = EagerChain(fr)
    OBVIOUS
  <1>3. Len(fr) \in Nat /\ Len(fr) # 0
    OBVIOUS
  <1>4. /\ h[0] = NewPacket(1)
        /\ \A i \in 0..Len(fr) : h[i + 1] = decodeNextLayer(fr, h[i])
    BY <1>1, <1>3, ChainIs
  <1>5. /\ e[0] = EagerStart
        /\ \A i \in 0..(Len(fr) - 1) : e[i + 1] = eagerStep(fr, e[i], fr[i + 1])
        /\ initialDecode(fr) = Handled(e[Len(fr)])
    BY <1>2, <1>3, EagerIs
  <1>6. \A n \in 0..(Len(fr) + 1) : Sound(n, h[n])
    BY <1>1, StartSound, ChainSound
  <1> DEFINE Bad == {m \in 0..Len(fr) : ~Follows(fr, m, e[m], h[m])}
  <1>7. Follows(fr, 0, e[0], h[0])
    <2>1. /\ ~EagerStart.done /\ ~EagerStart.err /\ EagerStart.q = NewPacket(None)
      BY DEF EagerStart
    <2> QED BY <1>3, <1>4, <1>5, <2>1, StartSound DEF Follows
  <1>8. Bad = {}
    <2> SUFFICES ASSUME Bad # {} PROVE FALSE
      OBVIOUS
    <2>1. PICK b \in Bad : \A j \in Bad : b <= j
      <3>1. Bad \in SUBSET Nat
        OBVIOUS
      <3> QED BY <3>1, LeastNumber
    <2>2. b \in 0..Len(fr) /\ ~Follows(fr, b, e[b], h[b])
      BY <2>1
    <2>3. b # 0
      BY <1>7, <2>2
    <2>4. PICK m \in 0..(Len(fr) - 1) : m + 1 = b /\ ~(b <= m)
      BY <1>3, <2>2, <2>3
    <2>5. m \notin Bad /\ m \in 0..Len(fr) /\ m \in 0..(Len(fr) + 1)
      BY <1>3, <2>1, <2>4
    <2>6. Follows(fr, m, e[m], h[m]) /\ Sound(m, h[m])
      BY <1>6, <2>5
    <2>7. Follows(fr, m + 1, eagerStep(fr, e[m], fr[m + 1]), decodeNextLayer(fr, h[m]))
      BY <2>6, FollowsStep
    <2>8. e[m + 1] = eagerStep(fr, e[m], fr[m + 1]) /\ h[m + 1] = decodeNextLayer(fr, h[m])
      BY <1>4, <1>5, <2>5
    <2> QED BY <2>2, <2>4, <2>7, <2>8
  <1>9. PICK q : q = h[Len(fr)]
    OBVIOUS
  <1>10. Follows(fr, Len(fr), e[Len(fr)], q) /\ q \in PacketState
    BY <1>3, <1>6, <1>8, <1>9 DEF Sound
  <1>11. Handled(e[Len(fr)]) = [q EXCEPT !.next = None]
    BY <1>3, <1>10 DEF Follows
  <1>12. h[Len(fr) + 1] = decodeNextLayer(fr, q)
    BY <1>3, <1>4, <1>9
  <1>13. decodeNextLayer(fr, q) = [q EXCEPT !.next = None]
    <2>1. CASE q.next = None
      <3>1. q = [q EXCEPT !.next = None]
        BY <1>10, <2>1 DEF PacketState
      <3> QED BY <2>1, <3>1, Zenon DEF decodeNextLayer
    <2>2. CASE q.next # None
      <3>1. Going(Len(fr), q)
        BY <1>3, <1>10, <2>2 DEF Follows
      <3>2. NoPayload(fr, q)
        BY <3>1 DEF NoPayload, Going, Decoded
      <3> QED BY <2>2, <3>2, Zenon DEF decodeNextLayer
    <2> QED BY <2>1, <2>2
  <1> QED BY <1>1, <1>5, <1>11, <1>12, <1>13

-----------------------------------------------------------------------------
\* What an accessor decodes from where the packet stands lies on the same chain.
Whole(fr) == Chain(fr, NewPacket(1))
Rest(fr, k) == Chain(fr, Whole(fr)[k])

LEMMA Walk ==
    ASSUME NEW fr \in Seq(Decoder), NEW k \in 0..(Len(fr) + 1)
    PROVE  /\ \A n \in 0..(Len(fr) + 1) :
                \E j \in k..(Len(fr) + 1) : Rest(fr, k)[n] = Whole(fr)[j]
           /\ Rest(fr, k)[Len(fr) + 1].next = None
  <1>0. PICK h, a : h = Whole(fr) /\ a = Rest(fr, k)
    OBVIOUS
  <1>1. PICK N \in Nat : N = Len(fr) + 1
    OBVIOUS
  <1>2. Len(fr) \in Nat
    OBVIOUS
  <1>3. \A i \in 0..Len(fr) : h[i + 1] = decodeNextLayer(fr, h[i])
    BY <1>0, <1>2, ChainIs DEF Whole
  <1>4. a[0] = h[k] /\ \A i \in 0..Len(fr) : a[i + 1] = decodeNextLayer(fr, a[i])
    BY <1>0, <1>2, ChainIs DEF Rest
  <1>5. h[N].next = None
    BY <1>0, <1>1, StartSound, ChainSound DEF Whole
  <1> DEFINE On(n) == \E j \in k..N : n <= j /\ a[n] = h[j]
  <1> DEFINE Bad == {m \in 0..N : ~On(m)}
  <1>6. On(0)
    BY <1>1, <1>4
  <1>7. ASSUME NEW m \in 0..Len(fr), On(m) PROVE On(m + 1)
    <2>1. PICK j \in k..N : m <= j /\ a[m] = h[j]
      BY <1>7
    <2>2. CASE j = N
      <3>1. decodeNextLayer(fr, h[j]) = h[j]
        BY <1>5, <2>2, Zenon DEF decodeNextLayer
      <3>2. a[m + 1] = h[j] /\ m + 1 <= j
        BY <1>1, <1>4, <2>1, <2>2, <3>1
      <3> QED BY <3>2
    <2>3. CASE j # N
      <3>1. j \in 0..Len(fr) /\ j + 1 \in k..N /\ m + 1 <= j + 1
        BY <1>1, <1>2, <2>1, <2>3
      <3>2. a[m + 1] = h[j + 1]
        BY <1>3, <1>4, <2>1, <3>1
      <3> QED BY <3>1, <3>2
    <2> QED BY <2>2, <2>3
  <1>8. Bad = {}
    <2> SUFFICES ASSUME Bad # {} PROVE FALSE
      OBVIOUS
    <2>1. PICK b \in Bad : \A j \in Bad : b <= j
      <3>1. Bad \in SUBSET Nat
        OBVIOUS
      <3> QED BY <3>1, LeastNumber
    <2>2. b \in 0..N /\ ~On(b)
      BY <2>1
    <2> HIDE DEF On
    <2>3. b # 0
      BY <1>6, <2>2
    <2>4. PICK m \in 0..Len(fr) : m + 1 = b /\ ~(b <= m)
      BY <1>1, <1>2, <2>2, <2>3
    <2>5. m \notin Bad /\ m \in 0..N
      BY <1>1, <1>2, <2>1, <2>4
    <2>6. On(m)
      BY <2>5
    <2> QED BY <1>7, <2>2, <2>4, <2>6
  <1>9. \A n \in 0..N : On(n)
    BY <1>8
  <1>10. a[N] = h[N]
    <2>1. N \in 0..N
      BY <1>1
    <2>2. PICK j \in k..N : N <= j /\ a[N] = h[j]
      BY <1>9, <2>1
    <2> QED BY <1>1, <2>2
  <1> QED BY <1>0, <1>1, <1>5, <1>9, <1>10

\* Where the loop of an accessor stops: one of the places enough, the first.
LEMMA Stops ==
    ASSUME NEW fr \in Seq(Decoder), NEW k \in 0..(Len(fr) + 1), NEW S,
           S \subseteq 0..(Len(fr) + 1), Len(fr) + 1 \in S
    PROVE  Min(S) \in S /\ \E j \in k..(Len(fr) + 1) : Rest(fr, k)[Min(S)] = Whole(fr)[j]
  <1>1. S \in SUBSET Nat /\ S # {}
    OBVIOUS
  <1>2. PICK m \in S : m = Min(S)
    BY <1>1, LeastNumber
  <1>3. \A n \in 0..(Len(fr) + 1) :
            \E j \in k..(Len(fr) + 1) : Rest(fr, k)[n] = Whole(fr)[j]
    BY Walk
  <1>4. m \in 0..(Len(fr) + 1)
    OBVIOUS
  <1> QED BY <1>2, <1>3, <1>4, Zenon

LEMMA RoleStops ==
    ASSUME NEW fr \in Seq(Decoder), NEW k \in 0..(Len(fr) + 1), NEW r \in Roles
    PROVE  \E j \in k..(Len(fr) + 1) :
               /\ AfterRole(fr, Whole(fr)[k], r) = Whole(fr)[j]
               /\ Whole(fr)[j].roles[r] # None \/ Whole(fr)[j].next = None
  <1>1. PICK h, a : h = Whole(fr) /\ a = Rest(fr, k) /\ a = Chain(fr, h[k])
    BY DEF Rest
  <1>2. Len(fr) \in Nat /\ DOMAIN a = 0..(Len(fr) + 1)
    BY <1>1, ChainIs
  <1>3. PICK S : S = {n \in DOMAIN a : a[n].roles[r] # None \/ a[n].next = None}
    OBVIOUS
  <1>4. AfterRole(fr, h[k], r) = a[Min(S)]
    BY <1>1, <1>3, Zenon DEF AfterRole, DecodeUntil, Chain, LazyLoop
  <1>5. S \subseteq 0..(Len(fr) + 1) /\ Len(fr) + 1 \in S
    <2>1. Rest(fr, k)[Len(fr) + 1].next = None
      BY Walk
    <2>2. Len(fr) + 1 \in DOMAIN a /\ a[Len(fr) + 1].next = None
      BY <1>1, <1>2, <2>1
    <2> QED BY <1>2, <1>3, <2>2
  <1>6. Min(S) \in S /\ \E j \in k..(Len(fr) + 1) : a[Min(S)] = h[j]
    <2>1. Min(S) \in S /\ \E j \in k..(Len(fr) + 1) : Rest(fr, k)[Min(S)] = Whole(fr)[j]
      BY <1>5, Stops
    <2> QED BY <1>1, <2>1, Zenon
  <1> QED BY <1>1, <1>3, <1>4, <1>6, Zenon

LEMMA ErrorStops ==
    ASSUME NEW fr \in Seq(Decoder), NEW k \in 0..(Len(fr) + 1)
    PROVE  \E j \in k..(Len(fr) + 1) :
               /\ AfterErrorLayer(fr, Whole(fr)[k]) = Whole(fr)[j]
               /\ Whole(fr)[j].failure # None \/ Whole(fr)[j].next = None
  <1>1. PICK h, a : h = Whole(fr) /\ a = Rest(fr, k) /\ a = Chain(fr, h[k])
    BY DEF Rest
  <1>2. Len(fr) \in Nat /\ DOMAIN a = 0..(Len(fr) + 1)
    BY <1>1, ChainIs
  <1>3. PICK S : S = {n \in DOMAIN a : a[n].failure # None \/ a[n].next = None}
    OBVIOUS
  <1>4. AfterErrorLayer(fr, h[k]) = a[Min(S)]
    BY <1>1, <1>3, Zenon DEF AfterErrorLayer, DecodeUntil, Chain, LazyLoop
  <1>5. S \subseteq 0..(Len(fr) + 1) /\ Len(fr) + 1 \in S
    <2>1. Rest(fr, k)[Len(fr) + 1].next = None
      BY Walk
    <2>2. Len(fr) + 1 \in DOMAIN a /\ a[Len(fr) + 1].next = None
      BY <1>1, <1>2, <2>1
    <2> QED BY <1>2, <1>3, <2>2
  <1>6. Min(S) \in S /\ \E j \in k..(Len(fr) + 1) : a[Min(S)] = h[j]
    <2>1. Min(S) \in S /\ \E j \in k..(Len(fr) + 1) : Rest(fr, k)[Min(S)] = Whole(fr)[j]
      BY <1>5, Stops
    <2> QED BY <1>1, <2>1, Zenon
  <1> QED BY <1>1, <1>3, <1>4, <1>6, Zenon

LEMMA LayersStop ==
    ASSUME NEW fr \in Seq(Decoder), NEW k \in 0..(Len(fr) + 1)
    PROVE  \E j \in k..(Len(fr) + 1) :
               /\ AfterLayers(fr, Whole(fr)[k]) = Whole(fr)[j]
               /\ Whole(fr)[j].next = None
  <1>1. PICK h, a : h = Whole(fr) /\ a = Rest(fr, k) /\ a = Chain(fr, h[k])
    BY DEF Rest
  <1>2. Len(fr) \in Nat /\ DOMAIN a = 0..(Len(fr) + 1)
    BY <1>1, ChainIs
  <1>3. PICK S : S = {n \in DOMAIN a : FALSE \/ a[n].next = None}
    OBVIOUS
  <1>4. AfterLayers(fr, h[k]) = a[Min(S)]
    BY <1>1, <1>3, Zenon DEF AfterLayers, DecodeUntil, Chain, LazyLoop
  <1>5. S \subseteq 0..(Len(fr) + 1) /\ Len(fr) + 1 \in S
    <2>1. Rest(fr, k)[Len(fr) + 1].next = None
      BY Walk
    <2>2. Len(fr) + 1 \in DOMAIN a /\ a[Len(fr) + 1].next = None
      BY <1>1, <1>2, <2>1
    <2> QED BY <1>2, <1>3, <2>2
  <1>6. Min(S) \in S /\ \E j \in k..(Len(fr) + 1) : a[Min(S)] = h[j]
    <2>1. Min(S) \in S /\ \E j \in k..(Len(fr) + 1) : Rest(fr, k)[Min(S)] = Whole(fr)[j]
      BY <1>5, Stops
    <2> QED BY <1>1, <2>1, Zenon
  <1> QED BY <1>1, <1>3, <1>4, <1>6, Zenon

LEMMA ClassStops ==
    ASSUME NEW fr \in Seq(Decoder), NEW k \in 0..(Len(fr) + 1),
           NEW class \in Classes
    PROVE  \E j \in k..(Len(fr) + 1) :
               /\ AfterLayerClass(fr, Whole(fr)[k], class) = Whole(fr)[j]
               /\ Find(Whole(fr)[j], class) # None \/ Whole(fr)[j].next = None
  <1>1. PICK h, a : h = Whole(fr) /\ a = Rest(fr, k) /\ a = Chain(fr, h[k])
    BY DEF Rest
  <1>2. Len(fr) \in Nat /\ DOMAIN a = 0..(Len(fr) + 1)
    BY <1>1, ChainIs
  <1>3. PICK S : S = {n \in DOMAIN a : Find(a[n], class) # None \/ a[n].next = None}
    OBVIOUS
  <1>4. AfterLayerClass(fr, h[k], class) = a[Min(S)]
    BY <1>1, <1>3, Zenon DEF AfterLayerClass, DecodeUntil, Chain, LazyLoop
  <1>5. S \subseteq 0..(Len(fr) + 1) /\ Len(fr) + 1 \in S
    <2>1. Rest(fr, k)[Len(fr) + 1].next = None
      BY Walk
    <2>2. Len(fr) + 1 \in DOMAIN a /\ a[Len(fr) + 1].next = None
      BY <1>1, <1>2, <2>1
    <2> QED BY <1>2, <1>3, <2>2
  <1>6. Min(S) \in S /\ \E j \in k..(Len(fr) + 1) : a[Min(S)] = h[j]
    <2>1. Min(S) \in S /\ \E j \in k..(Len(fr) + 1) : Rest(fr, k)[Min(S)] = Whole(fr)[j]
      BY <1>5, Stops
    <2> QED BY <1>1, <2>1, Zenon
  <1> QED BY <1>1, <1>3, <1>4, <1>6, Zenon

\* The first layer of a class stays the first.
LEMMA FindStays ==
    ASSUME NEW q \in PacketState, NEW b \in PacketState, Ext(q, b), NEW class,
           Find(q, class) # None
    PROVE  Find(b, class) = Find(q, class)
  <1> DEFINE In(p) == {i \in DOMAIN p.layers : p.layers[i] \in class}
  <1>1. /\ DOMAIN q.layers = 1..Len(q.layers) /\ Len(q.layers) \in Nat
        /\ DOMAIN b.layers = 1..Len(b.layers) /\ Len(b.layers) \in Nat
    BY DEF PacketState
  <1>2. In(q) \in SUBSET Nat /\ In(b) \in SUBSET Nat
    BY <1>1
  <1>3. In(q) # {} /\ Find(q, class) = Min(In(q))
    BY DEF Find
  <1>4. Min(In(q)) \in In(q) /\ \A j \in In(q) : Min(In(q)) <= j
    BY <1>2, <1>3, LeastNumber
  <1>5. /\ Len(q.layers) <= Len(b.layers)
        /\ \A i \in 1..Len(q.layers) : b.layers[i] = q.layers[i]
    BY DEF Ext
  <1>6. In(q) \subseteq In(b)
    BY <1>1, <1>5
  <1>7. In(b) # {}
    BY <1>4, <1>6
  <1>8. Min(In(b)) \in In(b) /\ \A j \in In(b) : Min(In(b)) <= j
    BY <1>2, <1>7, LeastNumber
  <1>9. Find(b, class) = Min(In(b))
    BY <1>7 DEF Find
  <1>10. Min(In(b)) <= Min(In(q))
    BY <1>4, <1>6, <1>8
  <1>11. Min(In(b)) \in In(q)
    <2>1. PICK m : m = Min(In(b))
      OBVIOUS
    <2>2. PICK i : i = Min(In(q))
      OBVIOUS
    <2>3. m \in 1..Len(b.layers) /\ b.layers[m] \in class
      BY <1>1, <1>8, <2>1
    <2>4. i \in 1..Len(q.layers) /\ m <= i
      BY <1>1, <1>4, <1>10, <2>1, <2>2
    <2>5. m \in 1..Len(q.layers)
      BY <1>1, <2>3, <2>4
    <2>6. q.layers[m] \in class
      BY <1>5, <2>3, <2>5
    <2> QED BY <1>1, <2>1, <2>5, <2>6
  <1>12. Min(In(q)) <= Min(In(b)) /\ Min(In(b)) \in Nat /\ Min(In(q)) \in Nat
    BY <1>2, <1>4, <1>8, <1>11
  <1> QED BY <1>3, <1>9, <1>10, <1>12

\* The lazy packet stands somewhere on the chain of its frame.
OnChain(fr, q) == \E k \in 0..(Len(fr) + 1) : q = Chain(fr, NewPacket(1))[k]
DecodeInv == frame \in Frames /\ OnChain(frame, lazy)

LEMMA OnChainIsEager ==
    ASSUME NEW fr \in Frames, NEW q, OnChain(fr, q)
    PROVE  LET e == initialDecode(fr) IN
           /\ IsPrefix(q.layers, e.layers)
           /\ \A r \in Roles : q.roles[r] \in {None, e.roles[r]}
           /\ q.truncated => e.truncated
           /\ q.next = None => q = e
           /\ \A r \in Roles : AfterRole(fr, q, r).roles[r] = e.roles[r]
           /\ \A class \in Classes : Find(AfterLayerClass(fr, q, class), class) = Find(e, class)
           /\ AfterErrorLayer(fr, q).failure = e.failure
           /\ AfterLayers(fr, q).layers = e.layers
  <1>1. fr \in Seq(Decoder) /\ fr # <<>>
    BY FramesAssumption
  <1>2. PICK h : h = Whole(fr) /\ h = Chain(fr, NewPacket(1))
    BY DEF Whole
  <1>3. PICK N \in Nat : N = Len(fr) + 1
    BY <1>1
  <1>4. PICK k \in 0..N : q = h[k] /\ k \in 0..(Len(fr) + 1)
    BY <1>2, <1>3 DEF OnChain
  <1>5. PICK e : e = initialDecode(fr) /\ e = h[N]
    BY <1>1, <1>2, <1>3, EagerIsLast
  <1>6. \A n \in 0..N : Sound(n, h[n]) /\ \A i \in 0..n : Ext(h[i], h[n])
    BY <1>1, <1>2, <1>3, StartSound, ChainSound
  <1>7. \A j \in 0..N : h[j] \in PacketState /\ Ext(h[j], e)
    BY <1>3, <1>5, <1>6 DEF Sound
  <1>8. \A j \in 0..N : h[j].next = None => e = h[j]
    BY <1>7, Zenon DEF Ext
  <1>9. q \in PacketState /\ e \in PacketState /\ Ext(q, e)
    BY <1>3, <1>4, <1>5, <1>7
  <1>10. IsPrefix(q.layers, e.layers)
    BY <1>9, ExtPrefix
  <1>11. ASSUME NEW r \in Roles PROVE AfterRole(fr, q, r).roles[r] = e.roles[r]
    <2>1. PICK j \in k..N : /\ AfterRole(fr, q, r) = h[j]
                            /\ h[j].roles[r] # None \/ h[j].next = None
      <3>1. \E j \in k..(Len(fr) + 1) :
                /\ AfterRole(fr, Whole(fr)[k], r) = Whole(fr)[j]
                /\ Whole(fr)[j].roles[r] # None \/ Whole(fr)[j].next = None
        BY <1>1, <1>4, RoleStops
      <3> QED BY <1>2, <1>3, <1>4, <3>1, Zenon
    <2>2. j \in 0..N
      BY <1>3, <1>4, <2>1
    <2>3. h[j].roles[r] \in {None, e.roles[r]}
      BY <1>7, <2>2, Zenon DEF Ext
    <2> QED BY <1>8, <2>1, <2>2, <2>3
  <1>12. ASSUME NEW class \in Classes
         PROVE  Find(AfterLayerClass(fr, q, class), class) = Find(e, class)
    <2>1. PICK j \in k..N : /\ AfterLayerClass(fr, q, class) = h[j]
                            /\ Find(h[j], class) # None \/ h[j].next = None
      <3>1. \E j \in k..(Len(fr) + 1) :
                /\ AfterLayerClass(fr, Whole(fr)[k], class) = Whole(fr)[j]
                /\ Find(Whole(fr)[j], class) # None \/ Whole(fr)[j].next = None
        BY <1>1, <1>4, ClassStops
      <3> QED BY <1>2, <1>3, <1>4, <3>1, Zenon
    <2>2. j \in 0..N
      BY <1>3, <1>4, <2>1
    <2>3. CASE Find(h[j], class) # None
      <3>1. h[j] \in PacketState /\ Ext(h[j], e)
        BY <1>7, <2>2
      <3> QED BY <1>9, <2>1, <2>3, <3>1, FindStays
    <2>4. CASE h[j].next = None
      BY <1>8, <2>1, <2>2, <2>4
    <2> QED BY <2>1, <2>3, <2>4
  <1>13. AfterErrorLayer(fr, q).failure = e.failure
    <2>1. PICK j \in k..N : /\ AfterErrorLayer(fr, q) = h[j]
                            /\ h[j].failure # None \/ h[j].next = None
      <3>1. \E j \in k..(Len(fr) + 1) :
                /\ AfterErrorLayer(fr, Whole(fr)[k]) = Whole(fr)[j]
                /\ Whole(fr)[j].failure # None \/ Whole(fr)[j].next = None
        BY <1>1, <1>4, ErrorStops
      <3> QED BY <1>2, <1>3, <1>4, <3>1, Zenon
    <2>2. j \in 0..N
      BY <1>3, <1>4, <2>1
    <2>3. h[j].failure \in {None, e.failure}
      BY <1>7, <2>2, Zenon DEF Ext
    <2> QED BY <1>8, <2>1, <2>2, <2>3
  <1>14. AfterLayers(fr, q).layers = e.layers
    <2>1. PICK j \in k..N : AfterLayers(fr, q) = h[j] /\ h[j].next = None
      <3>1. \E j \in k..(Len(fr) + 1) :
                /\ AfterLayers(fr, Whole(fr)[k]) = Whole(fr)[j]
                /\ Whole(fr)[j].next = None
        BY <1>1, <1>4, LayersStop
      <3> QED BY <1>2, <1>3, <1>4, <3>1, Zenon
    <2>2. j \in 0..N
      BY <1>3, <1>4, <2>1
    <2> QED BY <1>8, <2>1, <2>2
  <1>15. /\ \A r \in Roles : q.roles[r] \in {None, e.roles[r]}
         /\ q.truncated => e.truncated
         /\ q.next = None => q = e
    BY <1>9 DEF Ext
  <1> QED BY <1>5, <1>10, <1>11, <1>12, <1>13, <1>14, <1>15, Zenon

\* However a packet is decoded, lazily by any calls of its accessors in any
\* order or eagerly when it is made, every accessor returns the same
\* (lazyPacket, eagerPacket).
THEOREM PacketLazyAsEager == DecodeSpec => []LazyAsEager
  <1>1. DecodeInit => DecodeInv
    <2> SUFFICES ASSUME DecodeInit PROVE DecodeInv
      OBVIOUS
    <2>1. frame \in Frames /\ lazy = NewPacket(1)
      BY DEF DecodeInit
    <2>2. Len(frame) \in Nat
      BY <2>1, FramesAssumption
    <2>3. Chain(frame, NewPacket(1))[0] = NewPacket(1) /\ 0 \in 0..(Len(frame) + 1)
      BY <2>2, ChainIs
    <2> QED BY <2>1, <2>3, Zenon DEF DecodeInv, OnChain
  <1>2. DecodeInv /\ [DecodeNext]_decodeVars => DecodeInv'
    <2> SUFFICES ASSUME DecodeInv, [DecodeNext]_decodeVars PROVE DecodeInv'
      OBVIOUS
    <2>1. PICK fr \in Frames : fr = frame
      BY DEF DecodeInv
    <2>2. fr \in Seq(Decoder)
      BY FramesAssumption
    <2>3. PICK h : h = Whole(fr) /\ h = Chain(fr, NewPacket(1))
      BY DEF Whole
    <2>4. PICK k \in 0..(Len(fr) + 1) : lazy = h[k]
      BY <2>1, <2>3 DEF DecodeInv, OnChain
    <2>5. \A j \in k..(Len(fr) + 1) : j \in 0..(Len(fr) + 1)
      BY <2>2, <2>4
    <2>6. SUFFICES frame' = fr /\ \E j \in 0..(Len(fr) + 1) : lazy' = h[j]
      BY <2>1, <2>3, Zenon DEF DecodeInv, OnChain
    <2>7. CASE \E r \in Roles : RoleLayer(r)
      <3>1. PICK r \in Roles : RoleLayer(r)
        BY <2>7
      <3>2. frame' = fr /\ lazy' = AfterRole(fr, h[k], r)
        BY <2>1, <2>4, <3>1 DEF RoleLayer
      <3>3. \E j \in k..(Len(fr) + 1) : AfterRole(fr, h[k], r) = h[j]
        <4>1. \E j \in k..(Len(fr) + 1) :
                  /\ AfterRole(fr, Whole(fr)[k], r) = Whole(fr)[j]
                  /\ Whole(fr)[j].roles[r] # None \/ Whole(fr)[j].next = None
          BY <2>2, <2>4, <3>1, RoleStops
        <4> QED BY <2>3, <4>1, Zenon
      <3> QED BY <2>5, <3>2, <3>3
    <2>8. CASE \E class \in Classes : LayerClass(class)
      <3>1. PICK class \in Classes : LayerClass(class)
        BY <2>8
      <3>2. frame' = fr /\ lazy' = AfterLayerClass(fr, h[k], class)
        BY <2>1, <2>4, <3>1 DEF LayerClass
      <3>3. \E j \in k..(Len(fr) + 1) : AfterLayerClass(fr, h[k], class) = h[j]
        <4>1. \E j \in k..(Len(fr) + 1) :
                  /\ AfterLayerClass(fr, Whole(fr)[k], class) = Whole(fr)[j]
                  /\ Find(Whole(fr)[j], class) # None \/ Whole(fr)[j].next = None
          BY <2>2, <2>4, <3>1, ClassStops
        <4> QED BY <2>3, <4>1, Zenon
      <3> QED BY <2>5, <3>2, <3>3
    <2>9. CASE ErrorLayer
      <3>1. frame' = fr /\ lazy' = AfterErrorLayer(fr, h[k])
        BY <2>1, <2>4, <2>9 DEF ErrorLayer
      <3>2. \E j \in k..(Len(fr) + 1) : AfterErrorLayer(fr, h[k]) = h[j]
        <4>1. \E j \in k..(Len(fr) + 1) :
                  /\ AfterErrorLayer(fr, Whole(fr)[k]) = Whole(fr)[j]
                  /\ Whole(fr)[j].failure # None \/ Whole(fr)[j].next = None
          BY <2>2, <2>4, ErrorStops
        <4> QED BY <2>3, <4>1, Zenon
      <3> QED BY <2>5, <3>1, <3>2
    <2>10. CASE Layers
      <3>1. frame' = fr /\ lazy' = AfterLayers(fr, h[k])
        BY <2>1, <2>4, <2>10 DEF Layers
      <3>2. \E j \in k..(Len(fr) + 1) : AfterLayers(fr, h[k]) = h[j]
        <4>1. \E j \in k..(Len(fr) + 1) :
                  /\ AfterLayers(fr, Whole(fr)[k]) = Whole(fr)[j]
                  /\ Whole(fr)[j].next = None
          BY <2>2, <2>4, LayersStop
        <4> QED BY <2>3, <4>1, Zenon
      <3> QED BY <2>5, <3>1, <3>2
    <2>11. CASE UNCHANGED decodeVars
      BY <2>1, <2>4, <2>11 DEF decodeVars
    <2> QED BY <2>7, <2>8, <2>9, <2>10, <2>11 DEF DecodeNext
  <1>3. DecodeInv => LazyAsEager
    BY OnChainIsEager, Zenon DEF DecodeInv, LazyAsEager, LazyIsPrefix
  <1> QED BY <1>1, <1>2, <1>3, PTL DEF DecodeSpec

-----------------------------------------------------------------------------
\* The container of the parser.  Names of DecodingLayers:
Puttable == DOMAIN Decoders \union {NoDecoder}

\* Every entry of the array is the one the map has, and no type is missing.
ArrayAgrees(a, dm) ==
    /\ a \in Seq([typ : Types, dec : DOMAIN Decoders])
    /\ \A i \in DOMAIN a : a[i].dec = dm[a[i].typ]
    /\ \A t \in Types : dm[t] # NoDecoder => \E i \in DOMAIN a : a[i].typ = t

SparseAgrees(s, dm) ==
    /\ s \in Seq(Puttable)
    /\ \A t \in Types : DecoderSparse(s, t) = dm[t]

\* The inductive invariant of the containers.
ContainerInv ==
    map \in [Types -> Puttable] /\ ArrayAgrees(array, map) /\ SparseAgrees(sparse, map)

LEMMA BoundedMax ==
    ASSUME NEW S \in SUBSET Nat, S # {}, NEW b \in Nat, \A x \in S : x <= b
    PROVE  Max(S) \in S /\ \A x \in S : x <= Max(S)
  <1> DEFINE U == {u \in Nat : \A x \in S : x <= u}
  <1>1. U \in SUBSET Nat /\ U # {}
    OBVIOUS
  <1>2. PICK m : m = Min(U)
    OBVIOUS
  <1>3. m \in U /\ \A u \in U : m <= u
    BY <1>1, <1>2, LeastNumber
  <1>4. m \in S
    <2> SUFFICES ASSUME m \notin S PROVE FALSE
      OBVIOUS
    <2>1. \A x \in S : x <= m - 1
      BY <1>3
    <2>2. m - 1 \in Nat
      <3>1. PICK x \in S : x \in Nat /\ x <= m - 1
        BY <2>1
      <3> QED BY <1>3, <3>1
    <2>3. m - 1 \in U
      BY <2>1, <2>2
    <2> QED BY <1>3, <2>3
  <1>5. \A x \in S : m >= x
    BY <1>3
  <1>6. Max(S) \in S /\ \A x \in S : Max(S) >= x
    BY <1>4, <1>5 DEF Max
  <1> QED BY <1>6

LEMMA NumbersBounded ==
    ASSUME NEW D \in SUBSET Types, IsFiniteSet(D)
    PROVE  \E b \in Nat : \A t \in D : Number[t] <= b
  <1>1. PICK n \in Nat : n = Cardinality(D) /\ ExistsBijection(1..n, D)
    BY FS_CardinalityType
  <1>2. PICK f \in [1..n -> D] : \A t \in D : \E i \in 1..n : f[i] = t
    BY <1>1 DEF ExistsBijection, Bijection, Surjection, Injection
  <1> DEFINE Upto(m) == \E b \in Nat : \A i \in 1..m : Number[f[i]] <= b
  <1> DEFINE Bad == {m \in 0..n : ~Upto(m)}
  <1>3. Upto(0)
    OBVIOUS
  <1>4. ASSUME NEW m \in 0..(n - 1), Upto(m) PROVE Upto(m + 1)
    <2>1. PICK b \in Nat : \A i \in 1..m : Number[f[i]] <= b
      BY <1>4
    <2>2. PICK x \in Nat : x = Number[f[m + 1]]
      BY ParserAssumption
    <2>3. PICK y \in Nat : y >= b /\ y >= x
      OBVIOUS
    <2>4. ASSUME NEW i \in 1..(m + 1) PROVE Number[f[i]] <= y
      <3>1. CASE i = m + 1
        BY <2>2, <2>3, <3>1
      <3>2. CASE i \in 1..m
        <4>1. i \in 1..n
          BY <3>2
        <4>2. Number[f[i]] \in Nat
          BY <4>1, ParserAssumption
        <4> QED BY <2>1, <2>3, <3>2, <4>2
      <3> QED BY <3>1, <3>2
    <2> QED BY <2>4
  <1>5. Bad = {}
    <2> SUFFICES ASSUME Bad # {} PROVE FALSE
      OBVIOUS
    <2>1. PICK b \in Bad : \A j \in Bad : b <= j
      <3>1. Bad \in SUBSET Nat
        OBVIOUS
      <3> QED BY <3>1, LeastNumber
    <2>2. b \in 0..n /\ ~Upto(b)
      BY <2>1
    <2> HIDE DEF Upto
    <2>3. b # 0
      BY <1>3, <2>2
    <2>4. PICK m \in 0..(n - 1) : m + 1 = b /\ ~(b <= m)
      BY <2>2, <2>3
    <2>5. m \notin Bad /\ m \in 0..n
      BY <2>1, <2>4
    <2>6. Upto(m)
      BY <2>5
    <2> QED BY <1>4, <2>2, <2>4, <2>6
  <1>6. Upto(n)
    <2>1. n \in 0..n
      OBVIOUS
    <2> QED BY <1>5, <2>1
  <1> QED BY <1>2, <1>6

LEMMA SetToSeqIs ==
    ASSUME NEW S, IsFiniteSet(S)
    PROVE  \E n \in Nat : /\ SetToSeq(S) \in [1..n -> S]
                          /\ \A x \in S : \E i \in 1..n : SetToSeq(S)[i] = x
  <1>1. PICK n \in Nat : n = Cardinality(S) /\ ExistsBijection(1..n, S)
    BY FS_CardinalityType
  <1>2. \E f \in [1..n -> S] : IsInjective(f)
    BY <1>1 DEF ExistsBijection, Bijection, Injection
  <1>3. PICK g : g = SetToSeq(S)
    OBVIOUS
  <1>4. g \in [1..n -> S] /\ IsInjective(g)
    BY <1>1, <1>2, <1>3, Zenon DEF SetToSeq
  <1>5. g \in Injection(1..n, S)
    BY <1>4 DEF Injection
  <1>6. Cardinality(1..n) = n
    BY FS_Interval
  <1>7. g \in Surjection(1..n, S)
    BY <1>1, <1>5, <1>6, FS_Injection
  <1> QED BY <1>3, <1>4, <1>7 DEF Surjection

LEMMA PutMapIs ==
    ASSUME NEW dm \in [Types -> Puttable], NEW d \in DOMAIN Decoders
    PROVE  /\ PutMap(dm, d) \in [Types -> Puttable]
           /\ \A t \in Types : PutMap(dm, d)[t] = IF t \in Decoders[d] THEN d ELSE dm[t]
  BY DEF PutMap, Puttable

\* PutSparse makes room for every number, and writes no place but those of d.
LEMMA PutSparseAgrees ==
    ASSUME NEW dm \in [Types -> Puttable], NEW d \in DOMAIN Decoders, NEW s,
           SparseAgrees(s, dm)
    PROVE  /\ SparseAgrees(PutSparse(s, d), PutMap(dm, d))
           /\ PutMap(dm, d) = dm => PutSparse(s, d) = s
  <1>1. PICK D : D = Decoders[d]
    OBVIOUS
  <1>2. D \in SUBSET Types /\ IsFiniteSet(D) /\ d # NoDecoder
    BY <1>1, ParserAssumption
  <1>3. /\ \A t \in Types : Number[t] \in Nat
        /\ \A t, u \in Types : Number[t] = Number[u] => t = u
    BY ParserAssumption
  <1>4. s \in Seq(Puttable) /\ Len(s) \in Nat /\ DOMAIN s = 1..Len(s)
    BY DEF SparseAgrees
  <1>5. PICK S : S = {Len(s)} \union {Number[t] + 1 : t \in D}
    OBVIOUS
  <1>6. PICK m \in Nat : m = Max(S) /\ m >= Len(s) /\ \A t \in D : Number[t] + 1 <= m
    <2>1. PICK b \in Nat : \A t \in D : Number[t] <= b
      BY <1>2, NumbersBounded
    <2>2. PICK e \in Nat : e = Len(s) + b + 1
      BY <1>4
    <2>3. S \in SUBSET Nat /\ S # {}
      BY <1>2, <1>3, <1>4, <1>5
    <2>4. \A x \in S : x <= e
      BY <1>2, <1>3, <1>4, <1>5, <2>1, <2>2
    <2>5. Max(S) \in S /\ \A x \in S : x <= Max(S)
      BY <2>3, <2>4, BoundedMax
    <2>6. Len(s) \in S /\ \A t \in D : Number[t] + 1 \in S
      BY <1>5
    <2> QED BY <2>3, <2>5, <2>6
  <1> DEFINE At(i) == IF \E t \in D : Number[t] = i - 1 THEN d
                      ELSE IF i \in DOMAIN s THEN s[i] ELSE NoDecoder
  <1>7. PICK p : p = PutSparse(s, d)
    OBVIOUS
  <1>8. p = [i \in 1..m |-> At(i)]
    BY <1>1, <1>5, <1>6, <1>7, Zenon DEF PutSparse
  <1>9. p \in Seq(Puttable) /\ Len(p) = m
    <2>1. \A i \in 1..m : At(i) \in Puttable
      BY <1>4 DEF Puttable
    <2> QED BY <1>8, <2>1
  <1>10. \A t \in Types : DecoderSparse(s, t) = dm[t]
    BY DEF SparseAgrees
  <1>11. ASSUME NEW t \in Types
         PROVE  DecoderSparse(p, t) = IF t \in D THEN d ELSE dm[t]
    <2>1. PICK k \in Nat : k = Number[t] /\ k + 1 # 0 /\ (k + 1) - 1 = k
      BY <1>3
    <2>2. (\E u \in D : Number[u] = (k + 1) - 1) <=> t \in D
      BY <1>2, <1>3, <2>1
    <2>3. CASE t \in D
      <3>1. k < m /\ k + 1 \in 1..m
        BY <1>6, <2>1, <2>3
      <3>2. p[k + 1] = d
        BY <1>8, <2>2, <2>3, <3>1
      <3> QED BY <1>9, <2>1, <2>3, <3>1, <3>2 DEF DecoderSparse
    <2>4. CASE t \notin D /\ k < Len(s)
      <3>1. k < m /\ k + 1 \in 1..m /\ k + 1 \in DOMAIN s
        BY <1>4, <1>6, <2>4
      <3>2. p[k + 1] = s[k + 1]
        BY <1>8, <2>2, <2>4, <3>1
      <3>3. DecoderSparse(s, t) = s[k + 1]
        BY <2>1, <2>4 DEF DecoderSparse
      <3>4. DecoderSparse(p, t) = p[k + 1]
        BY <1>9, <2>1, <3>1 DEF DecoderSparse
      <3> QED BY <1>10, <2>4, <3>2, <3>3, <3>4
    <2>5. CASE t \notin D /\ ~(k < Len(s))
      <3>1. DecoderSparse(s, t) = NoDecoder
        BY <2>1, <2>5 DEF DecoderSparse
      <3>2. k + 1 \notin DOMAIN s
        BY <1>4, <2>5
      <3>3. k + 1 \in 1..m => p[k + 1] = NoDecoder
        BY <1>8, <2>2, <2>5, <3>2
      <3>4. k < m => k + 1 \in 1..m
        OBVIOUS
      <3>5. DecoderSparse(p, t) = NoDecoder
        BY <1>9, <2>1, <3>3, <3>4 DEF DecoderSparse
      <3> QED BY <1>10, <2>5, <3>1, <3>5
    <2> QED BY <2>3, <2>4, <2>5
  <1>12. SparseAgrees(p, PutMap(dm, d))
    BY <1>1, <1>9, <1>11, PutMapIs DEF SparseAgrees
  <1>13. ASSUME PutMap(dm, d) = dm PROVE p = s
    <2>1. \A t \in D : dm[t] = d
      BY <1>1, <1>2, <1>13, PutMapIs
    <2>2. ASSUME NEW t \in D PROVE Number[t] + 1 \in 1..Len(s) /\ s[Number[t] + 1] = d
      <3>1. DecoderSparse(s, t) = d /\ Number[t] \in Nat
        BY <1>2, <1>3, <1>10, <2>1
      <3> QED BY <1>2, <1>4, <3>1 DEF DecoderSparse
    <2>3. m = Len(s)
      <3>1. \A x \in S : x <= Len(s)
        BY <1>2, <1>3, <1>4, <1>5, <2>2
      <3>2. S \in SUBSET Nat /\ S # {}
        BY <1>2, <1>3, <1>4, <1>5
      <3>3. Max(S) \in S
        BY <1>4, <3>1, <3>2, BoundedMax
      <3> QED BY <1>4, <1>6, <3>1, <3>3
    <2>4. ASSUME NEW i \in 1..m PROVE At(i) = s[i]
      <3>1. CASE \E t \in D : Number[t] = i - 1
        <4>1. PICK t \in D : Number[t] = i - 1
          BY <3>1
        <4>2. s[i] = d
          BY <1>2, <1>3, <2>2, <4>1
        <4> QED BY <3>1, <4>2
      <3>2. CASE ~\E t \in D : Number[t] = i - 1
        BY <1>4, <2>3, <3>2
      <3> QED BY <3>1, <3>2
    <2>5. s = [i \in 1..m |-> s[i]]
      BY <1>4, <2>3
    <2> HIDE DEF At
    <2> QED BY <1>8, <2>4, <2>5
  <1> QED BY <1>7, <1>12, <1>13

LEMMA ConcatIs ==
    ASSUME NEW S, NEW s \in Seq(S), NEW t \in Seq(S)
    PROVE  /\ s \o t \in Seq(S) /\ Len(s \o t) = Len(s) + Len(t)
           /\ \A i \in 1..Len(t) : (s \o t)[Len(s) + i] = t[i]
  OBVIOUS

\* PutArray replaces d's entries, and appends one for each other type of d.
LEMMA PutArrayAgrees ==
    ASSUME NEW dm \in [Types -> Puttable], NEW d \in DOMAIN Decoders, NEW a,
           ArrayAgrees(a, dm)
    PROVE  /\ ArrayAgrees(PutArray(a, d), PutMap(dm, d))
           /\ PutMap(dm, d) = dm => PutArray(a, d) = a
  <1> DEFINE Entry == [typ : Types, dec : DOMAIN Decoders]
  <1>1. PICK D : D = Decoders[d] /\ D \in SUBSET Types /\ IsFiniteSet(D) /\ d # NoDecoder
    BY ParserAssumption
  <1>2. PICK mm : mm = PutMap(dm, d)
    OBVIOUS
  <1>3. \A t \in Types : mm[t] = IF t \in D THEN d ELSE dm[t]
    BY <1>1, <1>2, PutMapIs
  <1>4. /\ a \in Seq(Entry) /\ Len(a) \in Nat /\ DOMAIN a = 1..Len(a)
        /\ \A i \in DOMAIN a : a[i] \in Entry /\ a[i].dec = dm[a[i].typ]
        /\ \A t \in Types : dm[t] # NoDecoder => \E i \in DOMAIN a : a[i].typ = t
    <2>1. /\ a \in Seq(Entry)
          /\ \A i \in DOMAIN a : a[i].dec = dm[a[i].typ]
          /\ \A t \in Types : dm[t] # NoDecoder => \E i \in DOMAIN a : a[i].typ = t
      BY Zenon DEF ArrayAgrees
    <2> HIDE DEF Entry
    <2>2. /\ Len(a) \in Nat /\ DOMAIN a = 1..Len(a)
          /\ \A i \in DOMAIN a : a[i] \in Entry
      BY <2>1
    <2> QED BY <2>1, <2>2, Zenon
  <1>5. PICK known : known = {a[i].typ : i \in DOMAIN a}
    OBVIOUS
  <1>6. PICK more : more = SetToSeq(D \ known)
    OBVIOUS
  <1>7. PICK n \in Nat : /\ more \in [1..n -> D \ known]
                         /\ \A x \in D \ known : \E i \in 1..n : more[i] = x
    <2>1. IsFiniteSet(D \ known)
      BY <1>1, FS_Difference
    <2>2. PICK R : R = D \ known
      OBVIOUS
    <2>3. \E k \in Nat : /\ SetToSeq(R) \in [1..k -> R]
                         /\ \A x \in R : \E i \in 1..k : SetToSeq(R)[i] = x
      <3>1. IsFiniteSet(R)
        BY <2>1, <2>2
      <3> QED BY <3>1, SetToSeqIs
    <2> QED BY <1>6, <2>2, <2>3, Zenon
  <1> DEFINE New(i) == IF a[i].typ \in D THEN [typ |-> a[i].typ, dec |-> d] ELSE a[i]
  <1>8. PICK kept : kept = [i \in DOMAIN a |-> New(i)]
    OBVIOUS
  <1>9. PICK tail : tail = [i \in DOMAIN more |-> [typ |-> more[i], dec |-> d]]
    OBVIOUS
  <1>10. PutArray(a, d) = kept \o tail
    BY <1>1, <1>5, <1>6, <1>8, <1>9, Zenon DEF PutArray
  <1>11. ASSUME NEW i \in 1..Len(a)
         PROVE  kept[i] \in Entry /\ kept[i].typ = a[i].typ /\ kept[i].dec = mm[a[i].typ]
    <2>1. a[i] \in Entry /\ a[i].dec = dm[a[i].typ] /\ a[i].typ \in Types
      BY <1>4
    <2>2. kept[i] = New(i)
      BY <1>4, <1>8
    <2>3. CASE a[i].typ \in D
      BY <1>3, <2>1, <2>2, <2>3
    <2>4. CASE a[i].typ \notin D
      BY <1>3, <2>1, <2>2, <2>4
    <2> QED BY <2>3, <2>4
  <1>12. kept \in Seq(Entry) /\ Len(kept) = Len(a)
    BY <1>4, <1>8, <1>11
  <1>13. ASSUME NEW i \in 1..n
         PROVE  tail[i] \in Entry /\ tail[i].typ = more[i] /\ tail[i].dec = mm[more[i]]
    <2>1. more[i] \in D /\ more[i] \in Types /\ DOMAIN more = 1..n
      BY <1>1, <1>7
    <2>2. tail[i] = [typ |-> more[i], dec |-> d]
      BY <1>9, <2>1
    <2> QED BY <1>3, <2>1, <2>2
  <1>14. tail \in Seq(Entry) /\ Len(tail) = n
    BY <1>7, <1>9, <1>13
  <1>15. PICK p : p = kept \o tail
    OBVIOUS
  <1>16. /\ p \in Seq(Entry) /\ Len(p) = Len(a) + n /\ DOMAIN p = 1..(Len(a) + n)
         /\ \A i \in 1..Len(a) : p[i] = kept[i]
         /\ \A i \in 1..n : p[Len(a) + i] = tail[i]
    <2> HIDE DEF Entry, New
    <2>1. p \in Seq(Entry) /\ Len(p) = Len(a) + n
      <3>1. kept \in Seq(Entry) /\ tail \in Seq(Entry)
        BY <1>12, <1>14
      <3>2. kept \o tail \in Seq(Entry) /\ Len(kept \o tail) = Len(kept) + Len(tail)
        BY <3>1, ConcatIs, Zenon
      <3> QED BY <1>12, <1>14, <1>15, <3>2, Zenon
    <2>2. DOMAIN p = 1..(Len(a) + n)
      BY <1>4, <2>1
    <2>3. \A i \in 1..Len(a) : p[i] = kept[i]
      BY <1>4, <1>12, <1>14, <1>15
    <2>4. \A i \in 1..n : p[Len(a) + i] = tail[i]
      BY <1>4, <1>12, <1>14, <1>15, ConcatIs
    <2> QED BY <2>1, <2>2, <2>3, <2>4
  <1> HIDE DEF Entry, New
  <1>17. ASSUME NEW i \in DOMAIN p PROVE p[i].dec = mm[p[i].typ]
    <2>1. CASE i \in 1..Len(a)
      BY <1>11, <1>16, <2>1
    <2>2. CASE i \notin 1..Len(a)
      <3>1. i \in 1..(Len(a) + n) /\ Len(a) \in Nat
        BY <1>4, <1>16
      <3>2. PICK j \in 1..n : i = Len(a) + j
        BY <2>2, <3>1
      <3>3. p[i] = tail[j]
        BY <1>16, <3>2
      <3> QED BY <1>13, <3>2, <3>3
    <2> QED BY <2>1, <2>2
  <1>18. ASSUME NEW t \in Types, mm[t] # NoDecoder PROVE \E i \in DOMAIN p : p[i].typ = t
    <2>1. CASE t \in D \ known
      <3>1. PICK j \in 1..n : more[j] = t
        BY <1>7, <2>1
      <3>2. Len(a) + j \in DOMAIN p /\ p[Len(a) + j].typ = t
        BY <1>4, <1>13, <1>16, <3>1
      <3> QED BY <3>2
    <2>2. CASE t \notin D \ known
      <3>1. PICK i \in DOMAIN a : a[i].typ = t
        <4>1. CASE t \in known
          BY <1>5, <4>1
        <4>2. CASE t \notin D
          <5>1. dm[t] # NoDecoder
            BY <1>3, <1>18, <4>2
          <5> QED BY <1>4, <5>1
        <4> QED BY <2>2, <4>1, <4>2
      <3>2. i \in DOMAIN p /\ p[i].typ = t
        BY <1>4, <1>11, <1>16, <3>1
      <3> QED BY <3>2
    <2> QED BY <2>1, <2>2
  <1>19. ArrayAgrees(p, mm)
    BY <1>16, <1>17, <1>18 DEF ArrayAgrees, Entry
  <1>20. ASSUME mm = dm PROVE p = a
    <2>1. D \ known = {}
      <3> SUFFICES ASSUME NEW t \in D PROVE t \in known
        OBVIOUS
      <3>1. dm[t] = d /\ t \in Types
        BY <1>1, <1>3, <1>20
      <3> QED BY <1>1, <1>4, <1>5, <3>1
    <2>2. n = 0
      BY <1>7, <2>1
    <2>3. ASSUME NEW i \in 1..Len(a) PROVE kept[i] = a[i]
      <3>1. kept[i] \in Entry /\ a[i] \in Entry
        BY <1>4, <1>11
      <3>2. kept[i].typ = a[i].typ /\ kept[i].dec = a[i].dec
        BY <1>4, <1>11, <1>20
      <3> QED BY <3>1, <3>2 DEF Entry
    <2>4. \A i \in 1..Len(a) : p[i] = a[i]
      BY <1>16, <2>3
    <2>5. Len(p) = Len(a)
      BY <1>4, <1>16, <2>2
    <2> QED BY <1>4, <1>16, <2>4, <2>5
  <1> QED BY <1>2, <1>10, <1>15, <1>19, <1>20

LEMMA AgreeFinds ==
    ASSUME ContainerInv PROVE ContainersAgree
  <1> SUFFICES ASSUME NEW t \in Types PROVE DecoderArray(array, t) = map[t]
    BY DEF ContainerInv, SparseAgrees, ContainersAgree, DecoderMap
  <1>1. PICK at : at = {i \in DOMAIN array : array[i].typ = t}
    OBVIOUS
  <1>2. DecoderArray(array, t) = IF at = {} THEN NoDecoder ELSE array[Min(at)].dec
    BY <1>1, Zenon DEF DecoderArray
  <1>3. CASE at = {}
    BY <1>1, <1>2, <1>3 DEF ContainerInv, ArrayAgrees
  <1>4. CASE at # {}
    <2>1. at \in SUBSET Nat
      BY <1>1 DEF ContainerInv, ArrayAgrees
    <2>2. PICK i \in at : i = Min(at)
      BY <1>4, <2>1, LeastNumber
    <2>3. array[i].dec = map[t]
      BY <1>1, <2>2 DEF ContainerInv, ArrayAgrees
    <2> QED BY <1>2, <1>4, <2>2, <2>3
  <1> QED BY <1>3, <1>4

LEMMA ContainersInit == ParserInit => ContainerInv
  <1> SUFFICES ASSUME ParserInit PROVE ContainerInv
    OBVIOUS
  <1>1. sparse = <<>> /\ array = <<>> /\ map = [t \in Types |-> NoDecoder]
    BY DEF ParserInit
  <1>2. map \in [Types -> Puttable] /\ \A t \in Types : map[t] = NoDecoder
    BY <1>1 DEF Puttable
  <1>3. ArrayAgrees(array, map)
    BY <1>1, <1>2 DEF ArrayAgrees
  <1>4. SparseAgrees(sparse, map)
    <2>1. \A t \in Types : Number[t] \in Nat
      BY ParserAssumption
    <2>2. <<>> \in Seq(Puttable) /\ Len(<<>>) = 0
      OBVIOUS
    <2> QED BY <1>1, <1>2, <2>1, <2>2 DEF SparseAgrees, DecoderSparse
  <1> QED BY <1>2, <1>3, <1>4 DEF ContainerInv

LEMMA ContainersKeep ==
    ASSUME ContainerInv, NEW d \in DOMAIN Decoders, AddDecodingLayer(d)
    PROVE  /\ ContainerInv'
           /\ map' = map => UNCHANGED parserVars
  <1>1. PICK s, a, dm : s = sparse /\ a = array /\ dm = map
    OBVIOUS
  <1>2. dm \in [Types -> Puttable] /\ ArrayAgrees(a, dm) /\ SparseAgrees(s, dm)
    BY <1>1 DEF ContainerInv
  <1>3. PICK u : u = PutMap(dm, d)
    OBVIOUS
  <1>4. /\ sparse' = PutSparse(s, d) /\ array' = PutArray(a, d) /\ map' = u
        /\ UNCHANGED <<data, decoded, err, Truncated>>
    BY <1>1, <1>3 DEF AddDecodingLayer
  <1>5. u \in [Types -> Puttable]
    BY <1>2, <1>3, PutMapIs
  <1>6. ArrayAgrees(PutArray(a, d), u) /\ (u = dm => PutArray(a, d) = a)
    BY <1>2, <1>3, PutArrayAgrees
  <1>7. SparseAgrees(PutSparse(s, d), u) /\ (u = dm => PutSparse(s, d) = s)
    BY <1>2, <1>3, PutSparseAgrees
  <1>8. ContainerInv'
    BY <1>4, <1>5, <1>6, <1>7 DEF ContainerInv
  <1>9. map' = map => UNCHANGED parserVars
    BY <1>1, <1>4, <1>6, <1>7 DEF parserVars
  <1> QED BY <1>8, <1>9

-----------------------------------------------------------------------------
\* The parser after each of its decoders.
ParserStart == [decoded |-> <<>>, trunc |-> FALSE, end |-> FALSE, err |-> "nil"]
ParserLoop(fr, h) == [n \in 0..Len(fr) |->
                         IF n = 0 THEN ParserStart ELSE decodeStep(fr, h[n - 1], fr[n])]
ParserChain(fr) == CHOOSE h : h = ParserLoop(fr, h)

LEMMA ParserExists ==
    ASSUME NEW fr, Len(fr) \in Nat
    PROVE  ParserChain(fr) = ParserLoop(fr, ParserChain(fr))
  <1> DEFINE Good(m, g) ==
          g = [n \in 0..m |-> IF n = 0 THEN ParserStart ELSE decodeStep(fr, g[n - 1], fr[n])]
  <1> DEFINE Bad == {m \in Nat : \A g : ~Good(m, g)}
  <1>1. 0 \notin Bad
    <2>1. PICK g : g = [n \in 0..0 |-> ParserStart]
      OBVIOUS
    <2>2. Good(0, g)
      BY <2>1
    <2> QED BY <2>2
  <1>2. ASSUME NEW m \in Nat, m \notin Bad
        PROVE  m + 1 \notin Bad
    <2>1. PICK g : Good(m, g)
      BY <1>2
    <2>2. PICK w : w = decodeStep(fr, g[m], fr[m + 1])
      OBVIOUS
    <2>3. PICK f : f = [n \in 0..(m + 1) |-> IF n = m + 1 THEN w ELSE g[n]]
      OBVIOUS
    <2>4. ASSUME NEW n \in 0..(m + 1)
          PROVE  f[n] = IF n = 0 THEN ParserStart ELSE decodeStep(fr, f[n - 1], fr[n])
      <3>1. CASE n = m + 1
        <4>1. f[n - 1] = g[m] /\ f[n] = w /\ n # 0
          BY <2>3, <3>1
        <4> QED BY <2>2, <3>1, <4>1, Zenon
      <3>2. CASE n \in 0..m
        <4>1. f[n] = g[n] /\ (n # 0 => f[n - 1] = g[n - 1])
          BY <2>3, <3>2
        <4>2. g[n] = IF n = 0 THEN ParserStart ELSE decodeStep(fr, g[n - 1], fr[n])
          BY <2>1, <3>2, Zenon
        <4> QED BY <4>1, <4>2, Zenon
      <3> QED BY <3>1, <3>2
    <2>5. f = [n \in 0..(m + 1) |-> f[n]]
      BY <2>3
    <2>6. Good(m + 1, f)
      BY <2>4, <2>5, Zenon
    <2>7. m + 1 \in Nat
      OBVIOUS
    <2> QED BY <2>6, <2>7, Zenon
  <1>3. Bad = {}
    <2> SUFFICES ASSUME Bad # {} PROVE FALSE
      OBVIOUS
    <2>1. PICK b \in Bad : \A j \in Bad : b <= j
      <3>1. Bad \in SUBSET Nat
        OBVIOUS
      <3> QED BY <3>1, LeastNumber
    <2>2. b \in Nat /\ b # 0
      BY <1>1, <2>1
    <2>3. b - 1 \in Nat /\ (b - 1) + 1 = b /\ ~(b <= b - 1)
      BY <2>2
    <2>4. b - 1 \notin Bad
      BY <2>1, <2>3, Zenon
    <2> HIDE DEF Bad
    <2> QED BY <1>2, <2>1, <2>3, <2>4
  <1>4. PICK N \in Nat : N = Len(fr)
    OBVIOUS
  <1>5. \E g : Good(N, g)
    BY <1>3, <1>4
  <1>6. \E g : g = ParserLoop(fr, g)
    BY <1>4, <1>5, Zenon DEF ParserLoop
  <1> QED BY <1>6, Zenon DEF ParserChain

LEMMA ParserIs ==
    ASSUME NEW fr, Len(fr) \in Nat
    PROVE  \E h : /\ h[0] = ParserStart
                  /\ \A n \in 0..(Len(fr) - 1) : h[n + 1] = decodeStep(fr, h[n], fr[n + 1])
                  /\ decodeAll(fr, FALSE) = h[Len(fr)]
  <1>1. PICK h : h = ParserChain(fr)
    OBVIOUS
  <1>2. h = ParserLoop(fr, h)
    BY <1>1, ParserExists, Zenon
  <1>3. \A n \in 0..Len(fr) :
            h[n] = IF n = 0 THEN ParserStart ELSE decodeStep(fr, h[n - 1], fr[n])
    BY <1>2, Zenon DEF ParserLoop
  <1>4. h[0] = ParserStart
    BY <1>3
  <1>5. ASSUME NEW n \in 0..(Len(fr) - 1) PROVE h[n + 1] = decodeStep(fr, h[n], fr[n + 1])
    <2>1. n + 1 \in 0..Len(fr) /\ n + 1 # 0 /\ (n + 1) - 1 = n
      OBVIOUS
    <2> QED BY <1>3, <2>1
  <1>6. decodeAll(fr, FALSE) = h[Len(fr)]
    BY <1>1, Zenon DEF decodeAll, ParserChain, ParserLoop, ParserStart
  <1> QED BY <1>4, <1>5, <1>6

Failing == {"error", "panic", "late"}

\* What DecodeLayers has returned, by the eager packet e of the same frame.
Outcome(fr, p, e) ==
    /\ IsPrefix(p.decoded, e.layers)
    /\ p.trunc => e.truncated
    /\ p.err = "nil" => e.failure = None /\ p.decoded = e.layers /\ p.trunc = e.truncated
    /\ Len(p.decoded) < Len(e.layers) =>
         \/ fr[Len(p.decoded) + 1].end \in Failing
         \/ DecoderMap(map, e.layers[Len(p.decoded) + 1]) = NoDecoder

ParserState == [decoded : Seq(Names), trunc : BOOLEAN, end : BOOLEAN,
                err : {"nil", "error", "unsupported"}]

\* The parser p after n decoders, by the lazy packet q after as many.
Parses(fr, n, p, q, e) ==
    /\ p \in ParserState
    /\ ~p.end => /\ p.err = "nil" /\ n < Len(fr) /\ Going(n, q)
                 /\ p.decoded = q.layers /\ p.trunc = q.truncated
    /\ p.end => Outcome(fr, p, e)

LEMMA ParserStep ==
    ASSUME NEW fr \in ParserFrames, NEW n \in 0..(Len(fr) - 1), NEW q, Sound(n, q),
           NEW e \in PacketState, Ext(q, e), NEW a, a = decodeNextLayer(fr, q), Ext(a, e),
           n + 1 = Len(fr) /\ Going(n + 1, a) => e = [a EXCEPT !.next = None],
           NEW p, Parses(fr, n, p, q, e)
    PROVE  Parses(fr, n + 1, decodeStep(fr, p, fr[n + 1]), a, e)
  <1>1. /\ fr \in Seq(Decoder) /\ fr[1].type = first
        /\ \A i \in DOMAIN fr : fr[i].end # "nil"
    BY FramesAssumption DEF ParserFrames
  <1>2. CASE p.end
    <2>1. decodeStep(fr, p, fr[n + 1]) = p
      BY <1>2, Zenon DEF decodeStep
    <2> QED BY <1>2, <2>1, Zenon DEF Parses
  <1>3. CASE ~p.end
    <2>1. /\ p.err = "nil" /\ Going(n, q) /\ p.decoded = q.layers /\ p.trunc = q.truncated
      BY <1>3 DEF Parses
    <2>2. q \in PacketState
      BY DEF Sound
    <2>3. PICK b \in PacketState, d \in Decoder :
            /\ d = fr[n + 1] /\ b = Build([q EXCEPT !.next = None], d)
            /\ b.next = None /\ b.failure = None
            /\ b.truncated <=> (q.truncated \/ d.trunc)
            /\ b.layers = IF d.end \in {"error", "panic"} THEN q.layers
                          ELSE Append(q.layers, d.type)
            /\ \A y \in Nat : Ext(q, [b EXCEPT !.next = y])
            /\ decodeNextLayer(fr, q) =
                 IF Failed(d) THEN addFinalDecodeError(b)
                 ELSE IF d.end = "next" THEN [b EXCEPT !.next = n + 2] ELSE b
      BY <1>1, <2>1, <2>2, StepIs
    <2>4. PICK typ : typ = IF Len(p.decoded) + 1 = 1 THEN first ELSE d.type
      OBVIOUS
    <2>5. PICK l \in Seq(Names) : l = q.layers /\ Len(l) = n /\ p.decoded = l
      BY <2>1, <2>2, PacketParts DEF Going
    <2>6. typ = d.type
      BY <1>1, <2>3, <2>4, <2>5
    <2>7. d.end # "nil" /\ d.trunc \in BOOLEAN /\ d.type \in Names /\ q.truncated \in BOOLEAN
      BY <1>1, <2>2, <2>3, PacketParts DEF Decoder, Names
    <2>8. IsPrefix(l, e.layers) /\ (q.truncated => e.truncated)
      BY <2>2, <2>5, ExtPrefix DEF Ext
    <2>9. PICK k : k = decodeStep(fr, p, d)
      OBVIOUS
    <2>10. ~Failed(d) => a.layers = Append(l, d.type)
      <3>1. ASSUME ~Failed(d) PROVE a.layers = b.layers /\ b.layers = Append(l, d.type)
        <4>1. b.layers = Append(l, d.type)
          BY <2>3, <2>5, <3>1 DEF Failed
        <4>2. [b EXCEPT !.next = n + 2].layers = b.layers
          BY DEF PacketState
        <4> QED BY <2>3, <3>1, <4>1, <4>2
      <3> QED BY <3>1
    <2>11. p = [decoded |-> l, trunc |-> q.truncated, end |-> FALSE, err |-> "nil"]
      BY <1>3, <2>1, <2>5 DEF Parses, ParserState
    <2>12. CASE DecoderMap(map, typ) = NoDecoder
      <3>1. k = [p EXCEPT !.end = TRUE, !.err = "unsupported"]
        BY <1>3, <2>4, <2>9, <2>12, Zenon DEF decodeStep
      <3>2. /\ k \in ParserState /\ k.decoded = l /\ k.trunc = q.truncated /\ k.end
            /\ k.err # "nil"
        BY <2>5, <2>7, <2>11, <3>1 DEF ParserState
      <3>3. ASSUME n < Len(e.layers), d.end \notin Failing
            PROVE  DecoderMap(map, e.layers[n + 1]) = NoDecoder
        <4>1. a.layers = Append(l, d.type)
          BY <2>7, <2>10, <3>3 DEF Failed, Failing
        <4>2. n + 1 \in 1..Len(a.layers) /\ a.layers[n + 1] = d.type
          BY <2>5, <2>7, <4>1
        <4>3. e.layers[n + 1] = d.type
          BY <4>2 DEF Ext
        <4> QED BY <2>6, <2>12, <4>3
      <3>4. Outcome(fr, k, e)
        BY <2>3, <2>5, <2>8, <3>2, <3>3 DEF Outcome
      <3> QED BY <2>3, <2>9, <3>2, <3>4 DEF Parses
    <2>13. CASE DecoderMap(map, typ) # NoDecoder /\ d.end \in Failing
      <3>1. k = [p EXCEPT !.end = TRUE, !.err = "error", !.trunc = @ \/ d.trunc]
        BY <1>3, <2>4, <2>9, <2>13, Zenon DEF decodeStep, Failing
      <3>2. /\ k \in ParserState /\ k.decoded = l /\ k.end /\ k.err # "nil"
            /\ k.trunc <=> (q.truncated \/ d.trunc)
        BY <2>5, <2>7, <2>11, <3>1 DEF ParserState
      <3>3. Failed(d)
        BY <2>13 DEF Failed, Failing
      <3>4. a.truncated = b.truncated
        <4>1. None \in Nat /\ 1 \in Nat /\ n + 1 # None
          BY DEF None
        <4>2. q.next # None /\ Ext(q, [b EXCEPT !.next = 1])
          BY <2>1, <2>3, <4>1 DEF Going
        <4> QED BY <2>2, <2>3, <3>3, <4>2, FailureIs
      <3>5. k.trunc => e.truncated
        BY <2>3, <3>2, <3>4 DEF Ext
      <3>6. Outcome(fr, k, e)
        BY <2>3, <2>5, <2>8, <2>13, <3>2, <3>5 DEF Outcome
      <3> QED BY <2>3, <2>9, <3>2, <3>6 DEF Parses
    <2>14. CASE DecoderMap(map, typ) # NoDecoder /\ d.end \notin Failing
      <3>1. k = [decoded |-> Append(p.decoded, typ), trunc |-> p.trunc \/ d.trunc,
                 end |-> Len(p.decoded) + 1 = Len(fr) \/ d.end # "next", err |-> "nil"]
        BY <1>3, <2>4, <2>9, <2>14, Zenon DEF decodeStep, Failing
      <3>2. PICK m \in Seq(Names) : m = Append(l, d.type)
        BY <2>7, AppendProperties
      <3>3. /\ k \in ParserState /\ k.decoded = m /\ k.err = "nil"
            /\ k.trunc <=> (q.truncated \/ d.trunc)
            /\ k.end <=> (n + 1 = Len(fr) \/ d.end # "next")
        <4>1. PICK t \in BOOLEAN, u \in BOOLEAN :
                  /\ t = (p.trunc \/ d.trunc)
                  /\ u = (Len(p.decoded) + 1 = Len(fr) \/ d.end # "next")
          OBVIOUS
        <4>2. k = [decoded |-> m, trunc |-> t, end |-> u, err |-> "nil"]
          BY <2>5, <2>6, <3>1, <3>2, <4>1
        <4>3. k \in ParserState /\ k.decoded = m /\ k.err = "nil" /\ k.trunc = t /\ k.end = u
          BY <4>2 DEF ParserState
        <4> QED BY <2>1, <2>5, <4>1, <4>3
      <3>4. ~Failed(d) /\ b.layers = m
        BY <2>3, <2>5, <2>7, <2>14, <3>2 DEF Failed, Failing
      <3>5. b.truncated = k.trunc
        BY <2>3, <3>3 DEF PacketState, ParserState
      <3>6. a = IF d.end = "next" THEN [b EXCEPT !.next = n + 2] ELSE b
        BY <2>3, <3>4
      <3>7. ASSUME e = b PROVE Outcome(fr, k, e)
        <4>1. IsPrefix(e.layers, e.layers)
          BY ExtSame, ExtPrefix
        <4>2. k.decoded = e.layers /\ k.trunc = e.truncated /\ e.failure = None
          BY <2>3, <3>3, <3>4, <3>5, <3>7
        <4>3. ~(Len(e.layers) < Len(e.layers))
          BY PacketParts
        <4> QED BY <4>1, <4>2, <4>3 DEF Outcome
      <3>8. CASE d.end # "next"
        <4>1. a = b /\ e = b
          BY <2>3, <3>6, <3>8 DEF Ext
        <4>2. Outcome(fr, k, e)
          BY <3>7, <4>1
        <4> QED BY <2>3, <2>9, <3>3, <3>8, <4>2 DEF Parses
      <3>9. CASE d.end = "next"
        <4>1. /\ a.layers = m /\ a.truncated = k.trunc /\ a.next = n + 2 /\ a.failure = None
              /\ [a EXCEPT !.next = None] = b /\ a \in PacketState
          <5>1. n + 2 \in Nat /\ None \in Nat
            BY DEF None
          <5>2. a = [b EXCEPT !.next = n + 2]
            BY <3>6, <3>9
          <5>3. /\ a.layers = b.layers /\ a.truncated = b.truncated /\ a.next = n + 2
                /\ a.failure = b.failure /\ a \in PacketState
            BY <5>1, <5>2 DEF PacketState
          <5>4. [a EXCEPT !.next = None] = [b EXCEPT !.next = None]
            BY <5>2 DEF PacketState
          <5>5. [b EXCEPT !.next = None] = b
            BY <2>3 DEF PacketState
          <5> QED BY <2>3, <3>4, <3>5, <5>3, <5>4, <5>5
        <4>2. Going(n + 1, a)
          BY <2>5, <3>2, <4>1 DEF Going
        <4>3. CASE n + 1 = Len(fr)
          <5>1. e = b
            BY <4>1, <4>2, <4>3
          <5>2. Outcome(fr, k, e)
            BY <3>7, <5>1
          <5> QED BY <2>3, <2>9, <3>3, <4>3, <5>2 DEF Parses
        <4>4. CASE n + 1 # Len(fr)
          <5>1. n + 1 < Len(fr) /\ ~k.end
            BY <1>1, <3>3, <3>9, <4>4
          <5>2. Parses(fr, n + 1, k, a, e)
            BY <3>3, <4>1, <4>2, <5>1 DEF Parses
          <5> QED BY <2>3, <2>9, <5>2
        <4> QED BY <4>3, <4>4
      <3> QED BY <3>8, <3>9
    <2> QED BY <2>12, <2>13, <2>14
  <1> QED BY <1>2, <1>3

LEMMA ParserEnds ==
    ASSUME NEW fr \in ParserFrames
    PROVE  Outcome(fr, decodeAll(fr, FALSE), initialDecode(fr))
  <1>1. fr \in Seq(Decoder) /\ fr # <<>> /\ Len(fr) \in Nat /\ Len(fr) # 0
    BY FramesAssumption DEF ParserFrames
  <1>2. PICK h : h = Chain(fr, NewPacket(1))
    OBVIOUS
  <1>3. /\ h[0] = NewPacket(1)
        /\ \A i \in 0..Len(fr) : h[i + 1] = decodeNextLayer(fr, h[i])
    BY <1>1, <1>2, ChainIs
  <1>4. PICK e : e = initialDecode(fr) /\ e = h[Len(fr) + 1]
    BY <1>1, <1>2, EagerIsLast
  <1>5. \A n \in 0..(Len(fr) + 1) : Sound(n, h[n]) /\ Ext(h[n], e)
    <2>1. \A n \in 0..(Len(fr) + 1) : Sound(n, h[n]) /\ \A k \in 0..n : Ext(h[k], h[n])
      BY <1>1, <1>2, StartSound, ChainSound
    <2>2. Len(fr) + 1 \in 0..(Len(fr) + 1)
      BY <1>1
    <2> QED BY <1>4, <2>1, <2>2
  <1>6. e \in PacketState
    BY <1>1, <1>4, <1>5 DEF Sound
  <1>7. Going(Len(fr), h[Len(fr)]) => e = [h[Len(fr)] EXCEPT !.next = None]
    <2> SUFFICES ASSUME Going(Len(fr), h[Len(fr)]) PROVE e = [h[Len(fr)] EXCEPT !.next = None]
      OBVIOUS
    <2>1. PICK q : q = h[Len(fr)]
      OBVIOUS
    <2>2. NoPayload(fr, q) /\ q.next # None
      BY <1>1, <2>1 DEF NoPayload, Going, Decoded, None
    <2>3. e = decodeNextLayer(fr, q)
      BY <1>1, <1>3, <1>4, <2>1
    <2> QED BY <2>1, <2>2, <2>3, Zenon DEF decodeNextLayer
  <1>8. PICK g : /\ g[0] = ParserStart
                 /\ \A n \in 0..(Len(fr) - 1) : g[n + 1] = decodeStep(fr, g[n], fr[n + 1])
                 /\ decodeAll(fr, FALSE) = g[Len(fr)]
    BY <1>1, ParserIs
  <1> DEFINE Good(m) == Parses(fr, m, g[m], h[m], e)
  <1> DEFINE Bad == {m \in 0..Len(fr) : ~Good(m)}
  <1>9. Good(0)
    <2>1. ParserStart \in ParserState /\ ~ParserStart.end /\ ParserStart.err = "nil"
      BY DEF ParserStart, ParserState
    <2>2. ParserStart.decoded = <<>> /\ ParserStart.trunc = FALSE
      BY DEF ParserStart
    <2>3. NewPacket(1).layers = <<>> /\ NewPacket(1).truncated = FALSE
      BY DEF NewPacket
    <2>4. PICK q, p : q = NewPacket(1) /\ p = ParserStart
      OBVIOUS
    <2>5. /\ p \in ParserState /\ ~p.end /\ p.err = "nil" /\ p.decoded = q.layers
          /\ p.trunc = q.truncated /\ Going(0, q) /\ 0 < Len(fr)
      <3>1. 0 < Len(fr)
        BY <1>1
      <3> QED BY <2>1, <2>2, <2>3, <2>4, <3>1, StartSound, Zenon
    <2>6. Parses(fr, 0, p, q, e)
      BY <2>5, Zenon DEF Parses
    <2> QED BY <1>3, <1>8, <2>4, <2>6, Zenon
  <1>10. ASSUME NEW m \in 0..(Len(fr) - 1), Good(m) PROVE Good(m + 1)
    <2>1. PICK q, a, p : q = h[m] /\ a = h[m + 1] /\ p = g[m]
      OBVIOUS
    <2>2. m \in 0..(Len(fr) + 1) /\ m + 1 \in 0..(Len(fr) + 1) /\ m \in 0..Len(fr)
      BY <1>1
    <2>3. Sound(m, q) /\ Ext(q, e) /\ Ext(a, e) /\ a = decodeNextLayer(fr, q)
      BY <1>3, <1>5, <2>1, <2>2
    <2>4. m + 1 = Len(fr) /\ Going(m + 1, a) => e = [a EXCEPT !.next = None]
      BY <1>7, <2>1
    <2>5. Parses(fr, m, p, q, e)
      BY <1>10, <2>1
    <2>6. Parses(fr, m + 1, decodeStep(fr, p, fr[m + 1]), a, e)
      BY <1>6, <2>3, <2>4, <2>5, ParserStep
    <2> QED BY <1>8, <2>1, <2>6
  <1>11. Bad = {}
    <2> SUFFICES ASSUME Bad # {} PROVE FALSE
      OBVIOUS
    <2>1. PICK b \in Bad : \A j \in Bad : b <= j
      <3>1. Bad \in SUBSET Nat
        BY <1>1
      <3> QED BY <3>1, LeastNumber
    <2>2. b \in 0..Len(fr) /\ ~Good(b)
      BY <2>1
    <2> HIDE DEF Good
    <2>3. b # 0
      BY <1>9, <2>2
    <2>4. PICK m \in 0..(Len(fr) - 1) : m + 1 = b /\ ~(b <= m)
      BY <1>1, <2>2, <2>3
    <2>5. m \notin Bad /\ m \in 0..Len(fr)
      BY <1>1, <2>1, <2>4
    <2>6. Good(m)
      BY <2>5
    <2> QED BY <1>10, <2>2, <2>4, <2>6
  <1>12. Good(Len(fr))
    BY <1>1, <1>11
  <1>13. Outcome(fr, g[Len(fr)], e)
    BY <1>1, <1>12 DEF Parses
  <1> QED BY <1>4, <1>8, <1>13

\* A DecodingLayerParser, in whatever order it is given its DecodingLayers and
\* packets, leaves what an eager packet of the same bytes holds, as far as it
\* has decoders, and its three containers agree (DecodeLayers, LayersDecoder).
THEOREM ParserImplements == ParserSpec => ParserAsPacket
  <1>1. ParserInit => ContainerInv
    BY ContainersInit
  <1>2. ASSUME ContainerInv, [ParserNext /\ UNCHANGED decodeVars]_<<decodeVars, parserVars>>
        PROVE  /\ ContainerInv'
               /\ \/ UNCHANGED <<decodeVars, parserVars>>
                  \/ map' # map
                  \/ \E fr \in ParserFrames : DecodeLayers(fr)
    <2>1. CASE \E d \in DOMAIN Decoders : AddDecodingLayer(d) /\ UNCHANGED decodeVars
      <3>1. PICK d \in DOMAIN Decoders : AddDecodingLayer(d) /\ UNCHANGED decodeVars
        BY <2>1
      <3>2. ContainerInv' /\ (map' = map => UNCHANGED parserVars)
        BY <1>2, <3>1, ContainersKeep
      <3> QED BY <3>1, <3>2
    <2>2. CASE \E fr \in ParserFrames : DecodeLayers(fr)
      <3>1. PICK fr \in ParserFrames : DecodeLayers(fr)
        BY <2>2
      <3>2. sparse' = sparse /\ array' = array /\ map' = map
        BY <3>1, Zenon DEF DecodeLayers
      <3> QED BY <1>2, <2>2, <3>2 DEF ContainerInv
    <2>3. CASE UNCHANGED <<decodeVars, parserVars>>
      BY <1>2, <2>3 DEF parserVars, ContainerInv
    <2> QED BY <1>2, <2>1, <2>2, <2>3 DEF ParserNext
  <1>3. ASSUME NEW fr \in ParserFrames, DecodeLayers(fr), DecoderMap(map, first) # NoDecoder
        PROVE  LET e == initialDecode(data')
                   n == Len(decoded')
               IN  /\ IsPrefix(decoded', e.layers)
                   /\ Truncated' => e.truncated
                   /\ err' = "nil" /\ ~IgnoreUnsupported =>
                        e.failure = None /\ decoded' = e.layers /\ Truncated' = e.truncated
                   /\ n < Len(e.layers) =>
                        \/ data'[n + 1].end \in {"error", "panic", "late"}
                        \/ DecoderMap(map, e.layers[n + 1]) = NoDecoder
    <2>1. PICK p : p = decodeAll(fr, FALSE)
      OBVIOUS
    <2>2. PICK e : e = initialDecode(fr)
      OBVIOUS
    <2>3. /\ data' = fr /\ decoded' = p.decoded /\ Truncated' = p.trunc
          /\ err' = Reported(p.err)
      BY <1>3, <2>1, Zenon DEF DecodeLayers
    <2>4. Outcome(fr, p, e)
      BY <2>1, <2>2, ParserEnds
    <2>5. err' = "nil" /\ ~IgnoreUnsupported => p.err = "nil"
      BY <2>3 DEF Reported
    <2>6. initialDecode(data') = e
      BY <2>2, <2>3, Zenon
    <2> QED BY <2>3, <2>4, <2>5, <2>6, Zenon DEF Outcome, Failing
  <1>4. ContainerInv /\ ContainerInv'
          /\ [ParserNext /\ UNCHANGED decodeVars]_<<decodeVars, parserVars>>
        => [/\ ContainersAgree'
            /\ data' # <<>> /\ UNCHANGED map /\ DecoderMap(map, first) # NoDecoder =>
             LET e == initialDecode(data')
                 n == Len(decoded')
             IN  /\ IsPrefix(decoded', e.layers)
                 /\ Truncated' => e.truncated
                 /\ err' = "nil" /\ ~IgnoreUnsupported =>
                      e.failure = None /\ decoded' = e.layers /\ Truncated' = e.truncated
                 /\ n < Len(e.layers) =>
                      \/ data'[n + 1].end \in {"error", "panic", "late"}
                      \/ DecoderMap(map, e.layers[n + 1]) = NoDecoder]_<<decodeVars, parserVars>>
    <2>1. ContainerInv' => ContainersAgree'
      BY AgreeFinds, PTL
    <2> QED BY <1>2, <1>3, <2>1, Zenon
  <1>5. ContainerInv /\ [ParserNext /\ UNCHANGED decodeVars]_<<decodeVars, parserVars>>
          => ContainerInv'
    BY <1>2
  <1> QED BY <1>1, <1>4, <1>5, PTL DEF ParserSpec, ParserAsPacket
=============================================================================
