--------------------------- MODULE StreamPoolProofs ---------------------------
(***************************************************************************)
(* What holds of a StreamPool for every number of Assemblers, flows and    *)
(* connection objects.  The proof is by inductive invariants that rest on  *)
(* each other: PoolInv says who has locked, closed, filed or freed which   *)
(* object, StreamInv which stream an object is for and whether it ended,   *)
(* and FlowInv, where packets and flushes are divided among the            *)
(* Assemblers, that it is the stream of the right flow.                    *)
(***************************************************************************)
EXTENDS StreamPool, SequenceTheorems, TLAPS

\* A goroutine past conn.mu.Lock has the mutex of the object it works on.
Locked == \A a \in Assemblers : pc[a] \in HasLock => mu[conn[a]] = a

\* The object is open while bytes or the end are delivered, checked since
\* the lock; between its close and its removal it is closed and not free yet.
Closing ==
    \A a \in Assemblers :
        /\ pc[a] \in {"deliver", "complete"} => ~closed[conn[a]]
        /\ pc[a] = "remove" => /\ closed[conn[a]]
                               /\ \A i \in DOMAIN free : free[i] # conn[a]

\* p.conns leads to objects in use, under the flow each is for.
MapSound == \A k \in Keys : conns[k] # None =>
                conns[k] \notin fresh /\ key[conns[k]] = k

\* p.free has closed objects, none of them twice or in p.conns.
FreeSound ==
    /\ \A i, j \in DOMAIN free : i # j => free[i] # free[j]
    /\ \A i \in DOMAIN free : /\ closed[free[i]] /\ free[i] \notin fresh
                              /\ \A k \in Keys : conns[k] # free[i]

\* The inductive invariant of the pool and its goroutines.
PoolInv == TypeOK /\ Locked /\ Closing /\ MapSound /\ FreeSound

\* p.free[:index]: what is left of a stack without its top.
LEMMA PopProperties ==
    ASSUME NEW S, NEW s \in Seq(S), s # <<>>
    PROVE  LET r == SubSeq(s, 1, Len(s) - 1)
           IN  /\ r \in Seq(S) /\ Len(r) = Len(s) - 1
               /\ Len(s) \in DOMAIN s
               /\ \A i \in DOMAIN r : i \in DOMAIN s /\ i # Len(s) /\ r[i] = s[i]
<1> DEFINE r == SubSeq(s, 1, Len(s) - 1)
<1>1. Len(s) \in Nat \ {0} /\ DOMAIN s = 1 .. Len(s)
    OBVIOUS
<1>2. \A i \in 1 .. Len(s) - 1 : s[i] \in S
    BY <1>1
<1>3. /\ r \in Seq(S) /\ Len(r) = Len(s) - 1
      /\ \A i \in 1 .. Len(s) - 1 : r[i] = s[i]
    BY <1>1, <1>2, SubSeqProperties
<1>4. DOMAIN r = 1 .. Len(s) - 1
    BY <1>3
<1> QED
    BY <1>1, <1>3, <1>4

\* append(p.free, conn).
LEMMA PushProperties ==
    ASSUME NEW S, NEW s \in Seq(S), NEW e \in S
    PROVE  /\ Append(s, e) \in Seq(S)
           /\ \A i \in DOMAIN Append(s, e) :
                 IF i \in DOMAIN s THEN Append(s, e)[i] = s[i]
                                   ELSE i = Len(s) + 1 /\ Append(s, e)[i] = e
    OBVIOUS

\* NewStreamPool and NewAssembler establish the invariant.
LEMMA InitPool == Init => PoolInv
<1> SUFFICES ASSUME Init PROVE PoolInv
    OBVIOUS
<1> USE DEF Init
<1>1. PoolType
    BY PoolAssumption DEF PoolType, HasConn
<1>2. HandlerType
    BY PoolAssumption DEF HandlerType, HasConn, HasLock, Labels, Flush, Ids, NoPacket, NoFlush
<1>3. StreamType
    BY PoolAssumption DEF StreamType, HasConn
<1>4. Pointers
    BY PoolAssumption DEF Pointers, HasConn, HasLock, Labels, Flush, Ids, NoPacket, NoFlush
<1>5. Locked
    BY PoolAssumption DEF Locked, HasConn, HasLock, Labels, Flush, Ids, NoPacket, NoFlush
<1>6. Closing
    BY PoolAssumption DEF Closing, HasConn
<1>7. MapSound
    BY PoolAssumption DEF MapSound, HasConn
<1>8. FreeSound
    BY PoolAssumption DEF FreeSound, HasConn
<1> QED
    BY <1>1, <1>2, <1>3, <1>4, <1>5, <1>6, <1>7, <1>8 DEF PoolInv, TypeOK

\* Every step of AssembleWithTimestamp, closeConnection and the flushes keeps
\* it.
LEMMA StepPool == PoolInv /\ [Next]_vars => PoolInv'
<1> SUFFICES ASSUME PoolInv, [Next]_vars PROVE PoolInv'
    OBVIOUS
<1> USE PoolAssumption DEF PoolInv, TypeOK, HasConn, HasLock, Labels, Goto, pool, objs,
    procs, hist, count
<1>1. ASSUME NEW a \in Assemblers, NEW p \in Packet, Assemble(a, p)
      PROVE  PoolInv'
  <2>1. PoolType'
    BY <1>1 DEF Assemble, PoolType
  <2>2. HandlerType'
    BY <1>1 DEF Assemble, HandlerType
  <2>3. StreamType'
    BY <1>1 DEF Assemble, StreamType
  <2>4. Pointers'
    BY <1>1 DEF Assemble, Pointers, HandlerType
  <2>5. Locked'
    BY <1>1 DEF Assemble, Locked
  <2>6. Closing'
    BY <1>1 DEF Assemble, Closing
  <2>7. MapSound'
    BY <1>1 DEF Assemble, MapSound
  <2>8. FreeSound'
    BY <1>1 DEF Assemble, FreeSound
  <2> QED
    BY <2>1, <2>2, <2>3, <2>4, <2>5, <2>6, <2>7, <2>8
<1>2. ASSUME NEW a \in Assemblers, Lookup(a)
      PROVE  PoolInv'
  <2>1. PoolType'
    BY <1>2 DEF Lookup, PoolType
  <2>2. HandlerType'
    BY <1>2 DEF Lookup, HandlerType, PoolType, Pointers
  <2>3. StreamType'
    BY <1>2 DEF Lookup, StreamType
  <2>4. Pointers'
    BY <1>2 DEF Lookup, Pointers, PoolType, HandlerType, MapSound
  <2>5. Locked'
    BY <1>2 DEF Lookup, Locked
  <2>6. Closing'
    BY <1>2 DEF Lookup, Closing
  <2>7. MapSound'
    BY <1>2 DEF Lookup, MapSound
  <2>8. FreeSound'
    BY <1>2 DEF Lookup, FreeSound
  <2> QED
    BY <2>1, <2>2, <2>3, <2>4, <2>5, <2>6, <2>7, <2>8
<1>3. ASSUME NEW a \in Assemblers, New(a)
      PROVE  PoolInv'
  <2>1. PoolType'
    BY <1>3 DEF New, PoolType
  <2>2. HandlerType'
    BY <1>3 DEF New, HandlerType, Ids, PoolType, StreamType, Pointers
  <2>3. StreamType'
    <3>1. streams + 1 \in Ids
      BY <1>3 DEF New, StreamType, Ids
    <3>2. packet[a].k \in Keys
      BY <1>3 DEF New, Pointers
    <3> QED
      BY <1>3, <3>1, <3>2 DEF New, StreamType
  <2>4. Pointers'
    BY <1>3 DEF New, Pointers
  <2>5. Locked'
    BY <1>3 DEF New, Locked
  <2>6. Closing'
    BY <1>3 DEF New, Closing
  <2>7. MapSound'
    BY <1>3 DEF New, MapSound
  <2>8. FreeSound'
    BY <1>3 DEF New, FreeSound
  <2> QED
    BY <2>1, <2>2, <2>3, <2>4, <2>5, <2>6, <2>7, <2>8
<1>4. ASSUME NEW a \in Assemblers, NEW c \in Conns, Insert(a, c)
      PROVE  PoolInv'
  <2>k. packet[a].k \in Keys /\ made[a] \in Ids \cup {0} /\ pc[a] = "insert"
    BY <1>4 DEF Insert, Pointers, HandlerType
  <2>f. /\ free' \in Seq(Conns) /\ fresh' \subseteq fresh /\ c \notin fresh'
        /\ \A i \in DOMAIN free' : i \in DOMAIN free /\ free'[i] = free[i] /\ free'[i] # c
        /\ \A j \in Keys : conns[j] # c
        /\ \A d \in Conns : d \notin fresh => d \notin fresh'
        /\ \A b \in Assemblers : pc[b] = "remove" => conn[b] # c
    <3>1. CASE free = <<>>
      BY <1>4, <3>1 DEF Insert, Takes, PoolType, MapSound, Pointers
    <3>2. CASE free # <<>>
      <4>1. /\ c = free[Len(free)] /\ free' = SubSeq(free, 1, Len(free) - 1) /\ fresh' = fresh
        BY <1>4, <3>2 DEF Insert, Takes
      <4>2. /\ free' \in Seq(Conns) /\ Len(free) \in DOMAIN free
            /\ \A i \in DOMAIN free' : i \in DOMAIN free /\ i # Len(free) /\ free'[i] = free[i]
        BY <3>2, <4>1, PopProperties DEF PoolType
      <4> QED
        BY <4>1, <4>2 DEF FreeSound, Closing
    <3> QED
      BY <3>1, <3>2
  <2>n. /\ conns' \in [Keys -> Conns \cup {None}]
        /\ conn' \in [Assemblers -> Conns \cup {None}] /\ conn'[a] \in Conns
        /\ \A j \in Keys : conns'[j] = conns[j] \/ (conns'[j] = c /\ j = packet[a].k)
        /\ conn'[a] \in Conns \ fresh'
    <3>1. CASE conns[packet[a].k] # None
      <4>1. /\ conns' = conns /\ conn' = [conn EXCEPT ![a] = conns[packet[a].k]]
        BY <1>4, <3>1 DEF Insert
      <4>2. conns[packet[a].k] \in Conns \ fresh'
        BY <2>k, <2>f, <3>1 DEF PoolType, MapSound
      <4> QED
        BY <4>1, <4>2 DEF PoolType, HandlerType
    <3>2. CASE conns[packet[a].k] = None
      <4>1. /\ conns' = [conns EXCEPT ![packet[a].k] = c]
            /\ conn' = [conn EXCEPT ![a] = c]
        BY <1>4, <3>2 DEF Insert
      <4> QED
        BY <4>1, <2>k, <2>f DEF PoolType, HandlerType
    <3> QED
      BY <3>1, <3>2
  <2>1. PoolType'
    BY <1>4, <2>k, <2>f, <2>n DEF Insert, PoolType
  <2>2. HandlerType'
    BY <1>4, <2>n DEF Insert, HandlerType
  <2>3. StreamType'
    BY <1>4 DEF Insert, StreamType
  <2>4. Pointers'
    BY <1>4, <2>k, <2>f, <2>n DEF Insert, HandlerType, Pointers
  <2>5. Locked'
    BY <1>4 DEF Insert, Locked, HandlerType
  <2>6. Closing'
    BY <1>4, <2>f, <2>n DEF Insert, HandlerType, PoolType, Closing
  <2>7. MapSound'
    BY <1>4, <2>k, <2>f, <2>n DEF Insert, PoolType, MapSound
  <2>8. FreeSound'
    BY <1>4, <2>f, <2>n DEF Insert, PoolType, FreeSound
  <2> QED
    BY <2>1, <2>2, <2>3, <2>4, <2>5, <2>6, <2>7, <2>8
<1>5. ASSUME NEW a \in Assemblers, LockConn(a)
      PROVE  PoolInv'
  <2>1. PoolType'
    <3>1. mu' \in [Conns -> Assemblers \cup {None}]
      <4>1. mu' = mu \/ mu' = [mu EXCEPT ![conn[a]] = a]
        BY <1>5 DEF LockConn
      <4> QED
        BY <4>1 DEF PoolType
    <3> QED
      BY <1>5, <3>1 DEF LockConn, PoolType
  <2>2. HandlerType'
    <3>1. pc' \in [Assemblers -> Labels]
      BY <1>5 DEF LockConn, HandlerType
    <3> QED
      BY <1>5, <3>1 DEF LockConn, HandlerType
  <2>3. StreamType'
    BY <1>5 DEF LockConn, StreamType
  <2>4. Pointers'
    BY <1>5 DEF LockConn, Pointers, HandlerType
  <2>5. Locked'
    BY <1>5 DEF LockConn, Locked, PoolType, HandlerType, Pointers
  <2>6. Closing'
    BY <1>5 DEF LockConn, Closing, HandlerType
  <2>7. MapSound'
    BY <1>5 DEF LockConn, MapSound
  <2>8. FreeSound'
    BY <1>5 DEF LockConn, FreeSound
  <2> QED
    BY <2>1, <2>2, <2>3, <2>4, <2>5, <2>6, <2>7, <2>8
<1>6. ASSUME NEW a \in Assemblers, Buffer(a)
      PROVE  PoolInv'
  <2>1. PoolType'
    BY <1>6 DEF Buffer, PoolType, HandlerType, Pointers
  <2>2. HandlerType'
    BY <1>6 DEF Buffer, HandlerType
  <2>3. StreamType'
    BY <1>6 DEF Buffer, StreamType
  <2>4. Pointers'
    BY <1>6 DEF Buffer, Pointers
  <2>5. Locked'
    BY <1>6 DEF Buffer, Locked, HandlerType
  <2>6. Closing'
    BY <1>6 DEF Buffer, Closing
  <2>7. MapSound'
    BY <1>6 DEF Buffer, MapSound
  <2>8. FreeSound'
    BY <1>6 DEF Buffer, FreeSound
  <2> QED
    BY <2>1, <2>2, <2>3, <2>4, <2>5, <2>6, <2>7, <2>8
<1>7. ASSUME NEW a \in Assemblers, NEW b \in 0 .. 1, NEW n \in 0 .. MaxPages + 1,
       NEW end \in BOOLEAN, Send(a, b, n, end)
      PROVE  PoolInv'
  <2>1. PoolType'
    <3>1. pages' \in [Conns -> Int]
      <4>1. conn[a] \in Conns
        BY <1>7 DEF Send, Pointers
      <4> QED
        BY <1>7, <4>1 DEF Send, Reassembled, PoolType
    <3>2. mu' \in [Conns -> Assemblers \cup {None}]
      BY <1>7 DEF Send, PoolType
    <3> QED
      BY <1>7, <3>1, <3>2 DEF Send, PoolType
  <2>2. HandlerType'
    <3>1. pc' \in [Assemblers -> Labels]
      BY <1>7 DEF Send, HandlerType
    <3>2. used' \in [Assemblers -> Int]
      BY <1>7 DEF Send, Reassembled, HandlerType
    <3> QED
      BY <1>7, <3>1, <3>2 DEF Send, HandlerType
  <2>3. StreamType'
    BY <1>7 DEF Send, StreamType, Reassembled, Ids, HandlerType
  <2>4. Pointers'
    BY <1>7 DEF Send, Pointers, HandlerType
  <2>5. Locked'
    BY <1>7 DEF Send, Locked, PoolType, HandlerType, Pointers
  <2>6. Closing'
    BY <1>7 DEF Send, Closing, HandlerType
  <2>7. MapSound'
    BY <1>7 DEF Send, MapSound
  <2>8. FreeSound'
    BY <1>7 DEF Send, FreeSound
  <2> QED
    BY <2>1, <2>2, <2>3, <2>4, <2>5, <2>6, <2>7, <2>8
<1>8. ASSUME NEW a \in Assemblers, Complete(a)
      PROVE  PoolInv'
  <2>1. PoolType'
    BY <1>8 DEF Complete, PoolType
  <2>2. HandlerType'
    BY <1>8 DEF Complete, HandlerType
  <2>3. StreamType'
    <3>1. completes' \in [Ids -> Nat]
      <4> DEFINE s == stream[conn[a]]
      <4>1. completes' = [completes EXCEPT ![s] = completes[s] + 1]
        BY <1>8 DEF Complete
      <4> HIDE DEF s
      <4>2. ASSUME NEW i \in Ids PROVE completes'[i] \in Nat
        BY <4>1 DEF StreamType
      <4> QED
        BY <4>1, <4>2 DEF StreamType
    <3> QED
      BY <1>8, <3>1 DEF Complete, StreamType
  <2>4. Pointers'
    BY <1>8 DEF Complete, Pointers
  <2>5. Locked'
    BY <1>8 DEF Complete, Locked
  <2>6. Closing'
    BY <1>8 DEF Complete, Closing, PoolType, HandlerType, Locked, FreeSound, MapSound, Pointers
  <2>7. MapSound'
    BY <1>8 DEF Complete, MapSound
  <2>8. FreeSound'
    BY <1>8 DEF Complete, FreeSound
  <2> QED
    BY <2>1, <2>2, <2>3, <2>4, <2>5, <2>6, <2>7, <2>8
<1>9. ASSUME NEW a \in Assemblers, Remove(a)
      PROVE  PoolInv'
  <2>c. conn[a] \in Conns
    BY <1>9 DEF Remove, Pointers
  <2>f. /\ free \in Seq(Conns) /\ free' = Append(free, conn[a])
    BY <1>9 DEF Remove, PoolType
  <2>g. /\ free' \in Seq(Conns)
        /\ \A i \in DOMAIN free' :
              IF i \in DOMAIN free THEN free'[i] = free[i]
                                   ELSE i = Len(free) + 1 /\ free'[i] = conn[a]
    BY <2>c, <2>f, PushProperties
  <2>1. PoolType'
    BY <1>9, <2>c, <2>g DEF Remove, PoolType
  <2>2. HandlerType'
    BY <1>9 DEF Remove, HandlerType
  <2>3. StreamType'
    BY <1>9 DEF Remove, StreamType
  <2>4. Pointers'
    BY <1>9 DEF Remove, Pointers
  <2>5. Locked'
    BY <1>9 DEF Remove, Locked
  <2>6. Closing'
    BY <1>9, <2>c, <2>g DEF Remove, PoolType, HandlerType, Pointers, Locked, Closing
  <2>7. MapSound'
    BY <1>9 DEF Remove, MapSound
  <2>8. FreeSound'
    <3>1. closed' = closed /\ fresh' = fresh /\ closed[conn[a]] /\ conn[a] \notin fresh
      BY <1>9 DEF Remove, Closing, Pointers
    <3>2. \A i \in DOMAIN free : free[i] # conn[a]
      BY <1>9 DEF Remove, Closing
    <3>3. \A k \in Keys : (conns'[k] = conns[k] \/ conns'[k] = None) /\ conns'[k] # conn[a]
      BY <1>9, <2>c DEF Remove, PoolType, MapSound
    <3>4. \A i, j \in DOMAIN free' : i # j => free'[i] # free'[j]
      BY <2>g, <3>2 DEF FreeSound
    <3>5. ASSUME NEW i \in DOMAIN free'
          PROVE  /\ closed'[free'[i]] /\ free'[i] \notin fresh'
                 /\ \A k \in Keys : conns'[k] # free'[i]
      <4>1. CASE i \in DOMAIN free
        <5>1. free'[i] = free[i] /\ free[i] \in Conns
          BY <4>1, <2>g DEF PoolType
        <5> QED
          BY <5>1, <4>1, <3>1, <3>3 DEF FreeSound
      <4>2. CASE i \notin DOMAIN free
        BY <4>2, <2>g, <3>1, <3>3
      <4> QED
        BY <4>1, <4>2
    <3> QED
      BY <3>4, <3>5 DEF FreeSound
  <2> QED
    BY <2>1, <2>2, <2>3, <2>4, <2>5, <2>6, <2>7, <2>8
<1>10. ASSUME NEW a \in Assemblers, Release(a)
      PROVE  PoolInv'
  <2>1. PoolType'
    BY <1>10 DEF Release, PoolType
  <2>2. HandlerType'
    <3>1. pc' \in [Assemblers -> Labels]
      BY <1>10 DEF Release, HandlerType
    <3>2. used' \in [Assemblers -> Int]
      <4>1. pages[conn[a]] \in Int
        BY <1>10 DEF Release, PoolType, Pointers
      <4> QED
        BY <1>10, <4>1 DEF Release, HandlerType
    <3> QED
      BY <1>10, <3>1, <3>2 DEF Release, HandlerType
  <2>3. StreamType'
    BY <1>10 DEF Release, StreamType
  <2>4. Pointers'
    BY <1>10 DEF Release, Pointers, HandlerType
  <2>5. Locked'
    BY <1>10 DEF Release, Locked, PoolType, HandlerType, Pointers
  <2>6. Closing'
    BY <1>10 DEF Release, Closing, HandlerType
  <2>7. MapSound'
    BY <1>10 DEF Release, MapSound
  <2>8. FreeSound'
    BY <1>10 DEF Release, FreeSound
  <2> QED
    BY <2>1, <2>2, <2>3, <2>4, <2>5, <2>6, <2>7, <2>8
<1>11. ASSUME NEW a \in Assemblers, NEW all \in BOOLEAN, FlushStart(a, all)
      PROVE  PoolInv'
  <2>1. PoolType'
    BY <1>11 DEF FlushStart, PoolType
  <2>2. HandlerType'
    <3>l. Live \in SUBSET Conns
      BY DEF Live, PoolType
    <3>1. [NoFlush EXCEPT !.on = TRUE, !.all = all, !.todo = Live] \in Flush
      BY <3>l DEF NoFlush, Flush
    <3>2. flush' \in [Assemblers -> Flush]
      BY <1>11, <3>1 DEF FlushStart, HandlerType
    <3> QED
      BY <1>11, <3>2 DEF FlushStart, HandlerType
  <2>3. StreamType'
    BY <1>11 DEF FlushStart, StreamType
  <2>4. Pointers'
    BY <1>11 DEF FlushStart, Pointers, PoolType, HandlerType, NoFlush, NoPacket, Packet, Live, MapSound
  <2>5. Locked'
    BY <1>11 DEF FlushStart, Locked
  <2>6. Closing'
    BY <1>11 DEF FlushStart, Closing
  <2>7. MapSound'
    BY <1>11 DEF FlushStart, MapSound
  <2>8. FreeSound'
    BY <1>11 DEF FlushStart, FreeSound
  <2> QED
    BY <2>1, <2>2, <2>3, <2>4, <2>5, <2>6, <2>7, <2>8
<1>12. ASSUME NEW a \in Assemblers, NEW c \in Conns, FlushNext(a, c)
      PROVE  PoolInv'
  <2>1. PoolType'
    BY <1>12 DEF FlushNext, PoolType
  <2>2. HandlerType'
    <3>f. flush[a] \in Flush /\ flush[a].todo \ {c} \in SUBSET Conns
      BY DEF HandlerType, Flush
    <3>1. [flush[a] EXCEPT !.todo = flush[a].todo \ {c}, !.last = FALSE] \in Flush
      BY <3>f DEF Flush
    <3>2. flush' \in [Assemblers -> Flush]
      BY <1>12, <3>1 DEF FlushNext, HandlerType
    <3> QED
      BY <1>12, <3>2 DEF FlushNext, HandlerType
  <2>3. StreamType'
    BY <1>12 DEF FlushNext, StreamType
  <2>4. Pointers'
    BY <1>12 DEF FlushNext, Pointers, HandlerType
  <2>5. Locked'
    BY <1>12 DEF FlushNext, Locked
  <2>6. Closing'
    BY <1>12 DEF FlushNext, Closing
  <2>7. MapSound'
    BY <1>12 DEF FlushNext, MapSound
  <2>8. FreeSound'
    BY <1>12 DEF FlushNext, FreeSound
  <2> QED
    BY <2>1, <2>2, <2>3, <2>4, <2>5, <2>6, <2>7, <2>8
<1>13. ASSUME NEW a \in Assemblers, FlushReturn(a)
      PROVE  PoolInv'
  <2>1. PoolType'
    BY <1>13 DEF FlushReturn, PoolType
  <2>2. HandlerType'
    <3>1. NoFlush \in Flush
      BY DEF NoFlush, Flush
    <3> QED
      BY <1>13, <3>1 DEF FlushReturn, HandlerType
  <2>3. StreamType'
    BY <1>13 DEF FlushReturn, StreamType
  <2>4. Pointers'
    BY <1>13 DEF FlushReturn, Pointers, PoolType, HandlerType, NoFlush, NoPacket, Packet, Live, MapSound
  <2>5. Locked'
    BY <1>13 DEF FlushReturn, Locked
  <2>6. Closing'
    BY <1>13 DEF FlushReturn, Closing
  <2>7. MapSound'
    BY <1>13 DEF FlushReturn, MapSound
  <2>8. FreeSound'
    BY <1>13 DEF FlushReturn, FreeSound
  <2> QED
    BY <2>1, <2>2, <2>3, <2>4, <2>5, <2>6, <2>7, <2>8
<1>14. ASSUME NEW a \in Assemblers, FlushLock(a)
      PROVE  PoolInv'
  <2>1. PoolType'
    BY <1>14 DEF FlushLock, PoolType
  <2>2. HandlerType'
    BY <1>14 DEF FlushLock, HandlerType
  <2>3. StreamType'
    BY <1>14 DEF FlushLock, StreamType
  <2>4. Pointers'
    BY <1>14 DEF FlushLock, Pointers
  <2>5. Locked'
    BY <1>14 DEF FlushLock, Locked, PoolType, HandlerType, Pointers
  <2>6. Closing'
    BY <1>14 DEF FlushLock, Closing
  <2>7. MapSound'
    BY <1>14 DEF FlushLock, MapSound
  <2>8. FreeSound'
    BY <1>14 DEF FlushLock, FreeSound
  <2> QED
    BY <2>1, <2>2, <2>3, <2>4, <2>5, <2>6, <2>7, <2>8
<1>15. ASSUME NEW a \in Assemblers, NEW n \in 0 .. MaxPages, NEW end \in BOOLEAN,
       FlushSkip(a, n, end)
      PROVE  PoolInv'
  <2>1. PoolType'
    BY <1>15 DEF FlushSkip, PoolType, Reassembled, Ids, HandlerType, Pointers
  <2>2. HandlerType'
    BY <1>15 DEF FlushSkip, HandlerType, Reassembled, Ids, PoolType, StreamType, Pointers
  <2>3. StreamType'
    BY <1>15 DEF FlushSkip, StreamType, Reassembled, Ids, HandlerType
  <2>4. Pointers'
    BY <1>15 DEF FlushSkip, Pointers
  <2>5. Locked'
    BY <1>15 DEF FlushSkip, Locked
  <2>6. Closing'
    BY <1>15 DEF FlushSkip, Closing
  <2>7. MapSound'
    BY <1>15 DEF FlushSkip, MapSound
  <2>8. FreeSound'
    BY <1>15 DEF FlushSkip, FreeSound
  <2> QED
    BY <2>1, <2>2, <2>3, <2>4, <2>5, <2>6, <2>7, <2>8
<1>16. ASSUME NEW a \in Assemblers, FlushClose(a)
      PROVE  PoolInv'
  <2>1. PoolType'
    BY <1>16 DEF FlushClose, PoolType
  <2>2. HandlerType'
    <3>1. [flush[a] EXCEPT !.last = ~flush[a].all] \in Flush
      BY DEF HandlerType, Flush
    <3>2. flush' \in [Assemblers -> Flush]
      BY <1>16, <3>1 DEF FlushClose, HandlerType
    <3> QED
      BY <1>16, <3>2 DEF FlushClose, HandlerType
  <2>3. StreamType'
    BY <1>16 DEF FlushClose, StreamType
  <2>4. Pointers'
    BY <1>16 DEF FlushClose, Pointers
  <2>5. Locked'
    BY <1>16 DEF FlushClose, Locked
  <2>6. Closing'
    BY <1>16 DEF FlushClose, Closing
  <2>7. MapSound'
    BY <1>16 DEF FlushClose, MapSound
  <2>8. FreeSound'
    BY <1>16 DEF FlushClose, FreeSound
  <2> QED
    BY <2>1, <2>2, <2>3, <2>4, <2>5, <2>6, <2>7, <2>8
<1>17. ASSUME NEW a \in Assemblers, FlushLeave(a)
      PROVE  PoolInv'
  <2>1. PoolType'
    BY <1>17 DEF FlushLeave, PoolType
  <2>2. HandlerType'
    BY <1>17 DEF FlushLeave, HandlerType
  <2>3. StreamType'
    BY <1>17 DEF FlushLeave, StreamType
  <2>4. Pointers'
    BY <1>17 DEF FlushLeave, Pointers
  <2>5. Locked'
    BY <1>17 DEF FlushLeave, Locked, HandlerType
  <2>6. Closing'
    BY <1>17 DEF FlushLeave, Closing
  <2>7. MapSound'
    BY <1>17 DEF FlushLeave, MapSound
  <2>8. FreeSound'
    BY <1>17 DEF FlushLeave, FreeSound
  <2> QED
    BY <2>1, <2>2, <2>3, <2>4, <2>5, <2>6, <2>7, <2>8
<1>18. CASE UNCHANGED vars
  <2>1. PoolType'
    BY <1>18 DEF vars, PoolType
  <2>2. HandlerType'
    BY <1>18 DEF vars, HandlerType
  <2>3. StreamType'
    BY <1>18 DEF vars, StreamType
  <2>4. Pointers'
    BY <1>18 DEF vars, Pointers
  <2>5. Locked'
    BY <1>18 DEF vars, Locked
  <2>6. Closing'
    BY <1>18 DEF vars, Closing
  <2>7. MapSound'
    BY <1>18 DEF vars, MapSound
  <2>8. FreeSound'
    BY <1>18 DEF vars, FreeSound, Live
  <2> QED
    BY <2>1, <2>2, <2>3, <2>4, <2>5, <2>6, <2>7, <2>8
<1> QED
    BY <1>1, <1>2, <1>3, <1>4, <1>5, <1>6, <1>7, <1>8, <1>9, <1>10, <1>11, <1>12, <1>13, <1>14, <1>15, <1>16, <1>17, <1>18 DEF Next, Step

-----------------------------------------------------------------------------
\* The objects in use have streams of their own.
Distinct ==
    \A c, d \in Conns \ fresh :
        stream[c] \in 1 .. streams /\ (c # d => stream[c] # stream[d])

\* A stream that waits to be put into an object is in no object yet.
Pending ==
    \A a \in Assemblers : pc[a] = "insert" =>
        /\ made[a] \in 1 .. streams
        /\ \A c \in Conns \ fresh : stream[c] # made[a]
        /\ \A b \in Assemblers : b # a /\ pc[b] = "insert" => made[b] # made[a]

\* A stream was told of its completion when its object is closed, and not
\* otherwise.
Completion ==
    /\ \A c \in Conns \ fresh : completes[stream[c]] = IF closed[c] THEN 1 ELSE 0
    /\ \A a \in Assemblers : pc[a] = "insert" => completes[made[a]] = 0
    /\ \A s \in Ids : s > streams => completes[s] = 0

\* The inductive invariant of the streams.
StreamInv == Distinct /\ Pending /\ Completion /\ CompletedOnce /\ NothingLate

\* The steps that leave the streams and who has them alone.
Frame ==
    /\ UNCHANGED <<fresh, stream, closed, completes, streams, made, late>>
    /\ \A b \in Assemblers : pc'[b] = "insert" => pc[b] = "insert"

\* Such a step keeps the invariant of the streams.
LEMMA FrameStep == ASSUME StreamInv, Frame PROVE StreamInv'
BY DEF Frame, StreamInv, Distinct, Pending, Completion, CompletedOnce, NothingLate

\* A new pool has no streams.
LEMMA InitStream == Init => StreamInv
BY PoolAssumption DEF Init, StreamInv, Distinct, Pending, Completion, CompletedOnce, NothingLate, Ids

\* Creating, feeding and ending a stream keep the invariant, as do the steps
\* that only move connection objects about.
LEMMA StepStream == PoolInv /\ StreamInv /\ [Next]_vars => StreamInv'
<1> SUFFICES ASSUME PoolInv, StreamInv, [Next]_vars PROVE StreamInv'
    OBVIOUS
<1>t. PoolType /\ HandlerType /\ StreamType /\ Pointers
    BY DEF PoolInv, TypeOK
<1> USE DEF Goto, pool, objs, procs, hist, count
<1>1. ASSUME NEW a \in Assemblers, Lookup(a) PROVE StreamInv'
    BY <1>1, <1>t, FrameStep DEF Lookup, Frame
<1>2. ASSUME NEW a \in Assemblers, LockConn(a) PROVE StreamInv'
    BY <1>2, <1>t, FrameStep DEF LockConn, Frame, HandlerType
<1>3. ASSUME NEW a \in Assemblers, Buffer(a) PROVE StreamInv'
    BY <1>3, <1>t, FrameStep DEF Buffer, Frame
<1>4. ASSUME NEW a \in Assemblers, Remove(a) PROVE StreamInv'
    BY <1>4, <1>t, FrameStep DEF Remove, Frame
<1>5. ASSUME NEW a \in Assemblers, Release(a) PROVE StreamInv'
    BY <1>5, <1>t, FrameStep DEF Release, Frame, HandlerType
<1>6. ASSUME NEW a \in Assemblers, FlushReturn(a) PROVE StreamInv'
    BY <1>6, <1>t, FrameStep DEF FlushReturn, Frame
<1>7. ASSUME NEW a \in Assemblers, FlushLock(a) PROVE StreamInv'
    BY <1>7, <1>t, FrameStep DEF FlushLock, Frame
<1>8. ASSUME NEW a \in Assemblers, FlushClose(a) PROVE StreamInv'
    BY <1>8, <1>t, FrameStep DEF FlushClose, Frame
<1>9. ASSUME NEW a \in Assemblers, FlushLeave(a) PROVE StreamInv'
    BY <1>9, <1>t, FrameStep DEF FlushLeave, Frame
<1>10. ASSUME NEW a \in Assemblers, NEW p \in Packet, Assemble(a, p) PROVE StreamInv'
    BY <1>10, <1>t, FrameStep DEF Assemble, Frame
<1>11. ASSUME NEW a \in Assemblers, NEW all \in BOOLEAN, FlushStart(a, all) PROVE StreamInv'
    BY <1>11, <1>t, FrameStep DEF FlushStart, Frame
<1>12. ASSUME NEW a \in Assemblers, NEW c \in Conns, FlushNext(a, c) PROVE StreamInv'
    BY <1>12, <1>t, FrameStep DEF FlushNext, Frame
<1>13. ASSUME NEW a \in Assemblers, NEW b \in 0 .. 1, NEW n \in 0 .. MaxPages + 1,
       NEW end \in BOOLEAN, Send(a, b, n, end)
      PROVE  StreamInv'
  <2>1. conn[a] \in Conns \ fresh /\ ~closed[conn[a]]
    BY <1>13, <1>t DEF Send, Pointers, PoolInv, Closing, HasConn, HasLock
  <2>2. completes[stream[conn[a]]] = 0
    BY <2>1 DEF StreamInv, Completion
  <2>3. late' = late
    <3>1. late' = (late \/ completes[stream[conn[a]]] > 0)
      BY <1>13 DEF Send, Reassembled
    <3>2. ~(completes[stream[conn[a]]] > 0)
      BY <2>2
    <3>3. ~late /\ late \in BOOLEAN
      BY <1>t DEF StreamType, StreamInv, NothingLate
    <3> QED
      BY <3>1, <3>2, <3>3, Zenon
  <2> QED
    BY <1>13, <1>t, <2>3, FrameStep DEF Send, Frame, HandlerType
<1>14. ASSUME NEW a \in Assemblers, NEW n \in 0 .. MaxPages, NEW end \in BOOLEAN,
       FlushSkip(a, n, end)
      PROVE  StreamInv'
  <2>1. conn[a] \in Conns \ fresh /\ ~closed[conn[a]]
    BY <1>14, <1>t DEF FlushSkip, Pointers, HasConn, HasLock
  <2>2. completes[stream[conn[a]]] = 0
    BY <2>1 DEF StreamInv, Completion
  <2>3. late' = late
    <3>1. late' = (late \/ completes[stream[conn[a]]] > 0)
      BY <1>14 DEF FlushSkip, Reassembled
    <3>2. ~(completes[stream[conn[a]]] > 0)
      BY <2>2
    <3>3. ~late /\ late \in BOOLEAN
      BY <1>t DEF StreamType, StreamInv, NothingLate
    <3> QED
      BY <3>1, <3>2, <3>3, Zenon
  <2> QED
    BY <1>14, <1>t, <2>3, FrameStep DEF FlushSkip, Frame, HandlerType
<1>15. ASSUME NEW a \in Assemblers, New(a) PROVE StreamInv'
  <2>1. /\ streams \in Nat /\ streams' = streams + 1 /\ made'[a] = streams + 1
        /\ streams + 1 \in Ids /\ pc' = [pc EXCEPT ![a] = "insert"]
        /\ \A b \in Assemblers : b # a => made'[b] = made[b] /\ pc'[b] = pc[b]
        /\ UNCHANGED <<fresh, stream, closed, completes, late>>
    BY <1>15, <1>t, PoolAssumption DEF New, StreamType, HandlerType, Ids
  <2>2. Distinct'
    BY <2>1 DEF StreamInv, Distinct
  <2>3. Pending'
    BY <2>1 DEF StreamInv, Distinct, Pending
  <2>4. Completion'
    BY <2>1 DEF StreamInv, Completion, Ids
  <2> QED
    BY <2>1, <2>2, <2>3, <2>4 DEF StreamInv, CompletedOnce, NothingLate
<1>16. ASSUME NEW a \in Assemblers, NEW c \in Conns, Insert(a, c) PROVE StreamInv'
  <2>1. /\ stream' = [stream EXCEPT ![c] = made[a]]
        /\ closed' = [closed EXCEPT ![c] = FALSE]
        /\ pc[a] = "insert" /\ pc' = [pc EXCEPT ![a] = "lock"]
        /\ fresh' = fresh \ {c} \/ fresh' = fresh
        /\ UNCHANGED <<completes, streams, made, late>>
    BY <1>16 DEF Insert
  <2>2. \A d \in Conns : d \notin fresh' => d = c \/ d \notin fresh
    BY <2>1
  <2>3. Distinct'
    BY <2>1, <2>2, <1>t DEF StreamInv, Distinct, Pending, PoolType
  <2>4. Pending'
    BY <2>1, <2>2, <1>t DEF StreamInv, Pending, PoolType, HandlerType
  <2>5. Completion'
    BY <2>1, <2>2, <1>t DEF StreamInv, Completion, PoolType, HandlerType
  <2> QED
    BY <2>1, <2>3, <2>4, <2>5 DEF StreamInv, CompletedOnce, NothingLate
<1>17. ASSUME NEW a \in Assemblers, Complete(a) PROVE StreamInv'
  <2> DEFINE s == stream[conn[a]]
  <2>1. conn[a] \in Conns \ fresh /\ ~closed[conn[a]]
    BY <1>17, <1>t DEF Complete, Pointers, PoolInv, Closing, HasConn, HasLock
  <2>2. /\ s \in 1 .. streams /\ completes[s] = 0
        /\ \A c \in Conns \ fresh : c # conn[a] => stream[c] # s
        /\ \A b \in Assemblers : pc[b] = "insert" => made[b] # s
    BY <2>1 DEF StreamInv, Distinct, Pending, Completion
  <2>3. /\ completes' = [completes EXCEPT ![s] = completes[s] + 1]
        /\ closed' = [closed EXCEPT ![conn[a]] = TRUE]
        /\ UNCHANGED <<fresh, stream, streams, made, late>>
        /\ \A b \in Assemblers : pc'[b] = "insert" => pc[b] = "insert"
    BY <1>17, <1>t DEF Complete, HandlerType
  <2>4. streams \in Nat /\ s \in Ids
    BY <2>2, <1>t, PoolAssumption DEF StreamType, Ids
  <2>5. Distinct' /\ Pending'
    BY <2>3 DEF StreamInv, Distinct, Pending
  <2>6. /\ stream[conn[a]] = s
        /\ completes \in [Ids -> Nat] /\ closed \in [Conns -> BOOLEAN]
        /\ Distinct /\ Pending /\ Completion /\ CompletedOnce /\ NothingLate
    BY <1>t DEF PoolType, StreamType, StreamInv
  <2> HIDE DEF s
  <2>7. Completion'
    BY <2>1, <2>2, <2>3, <2>4, <2>6 DEF Completion, Distinct
  <2>8. CompletedOnce' /\ NothingLate'
    BY <2>2, <2>3, <2>6 DEF CompletedOnce, NothingLate
  <2> QED
    BY <2>5, <2>7, <2>8 DEF StreamInv
<1>18. CASE UNCHANGED vars
    BY <1>18, FrameStep DEF vars, Frame
<1> QED
    BY <1>1, <1>2, <1>3, <1>4, <1>5, <1>6, <1>7, <1>8, <1>9, <1>10, <1>11, <1>12, <1>13, <1>14, <1>15, <1>16, <1>17, <1>18 DEF Next, Step

-----------------------------------------------------------------------------
\* The invariant of the pool and its streams holds always.
THEOREM Inductive == Spec => [](PoolInv /\ StreamInv)
<1>1. Init => PoolInv /\ StreamInv
    BY InitPool, InitStream
<1>2. PoolInv /\ StreamInv /\ [Next]_vars => (PoolInv /\ StreamInv)'
    BY StepPool, StepStream
<1> QED
    BY <1>1, <1>2, PTL DEF Spec

\* Types, and that no goroutine works on an object that was never in use.
THEOREM TypeCorrect == Spec => []TypeOK
<1>1. PoolInv => TypeOK
    BY DEF PoolInv
<1> QED
    BY <1>1, Inductive, PTL

\* However connection objects are reused under goroutines that still point
\* to them, closeConnection tells a stream of its end at most once and nothing
\* is passed to it afterwards: the closed check that follows every lock is
\* enough.
THEOREM CompletesLast == Spec => []CompleteIsLast
<1>1. StreamInv => CompleteIsLast
    BY DEF StreamInv, CompleteIsLast
<1> QED
    BY <1>1, Inductive, PTL

\* "A single stream receives its data serially", with any number of
\* Assemblers.
THEOREM SeriallyFed == Spec => []Serial
<1>1. PoolInv /\ StreamInv => Serial
    BY PoolAssumption DEF PoolInv, TypeOK, Pointers, Locked, StreamInv, Distinct, Serial, HasConn
<1> QED
    BY <1>1, Inductive, PTL

\* The free list and the map of the pool never share an object, and no
\* object is in the free list twice or under another flow's key.
THEOREM FreeListIsSound == Spec => []FreeListSound
<1>1. PoolInv => FreeListSound
    BY DEF PoolInv, FreeSound, MapSound, FreeListSound, Live
<1> QED
    BY <1>1, Inductive, PTL

-----------------------------------------------------------------------------
(***************************************************************************)
(* Which flow an object is for.  Between getConnection and conn.mu.Lock an *)
(* object may be closed, freed and given to another flow, so what follows  *)
(* is true of Assemblers that share a pool only if no two are passed       *)
(* packets of one flow and, where one of them flushes, a single one is     *)
(* passed packets at all.                                                  *)
(***************************************************************************)

\* How packets and flushes are divided among the Assemblers.
Divided ==
    /\ \A a, b \in Assemblers, k \in Keys : <<a, k>> \in Feeds /\ <<b, k>> \in Feeds => a = b
    /\ Flushers = {} \/ \E a \in Assemblers : Feeds \subseteq {a} \X Keys

Fetching == {"lookup", "new", "insert", "lock", "deliver"}

\* A goroutine with a packet is the one for its flow.  No connection of the
\* flow turns up while it makes one, and the object it found stays one of the
\* flow; without flushes, it stays the connection of the flow until removed.
Owned ==
    \A a \in Assemblers :
        /\ pc[a] \in Fetching => <<a, packet[a].k>> \in Feeds
        /\ pc[a] \in {"new", "insert"} => conns[packet[a].k] = None
        /\ pc[a] \in {"lock", "deliver"} => key[conn[a]] = packet[a].k
        /\ Flushers = {} =>
              /\ pc[a] \notin {"next", "flock", "check"} /\ ~flush[a].on
              /\ pc[a] \in {"lock", "deliver", "complete", "remove"} =>
                    <<a, packet[a].k>> \in Feeds /\ conns[packet[a].k] = conn[a]

\* p.conns leads to every open object, and to a closed one until it is removed.
Filed ==
    /\ \A c \in Conns \ fresh : ~closed[c] => key[c] \in Keys /\ conns[key[c]] = c
    /\ \A a \in Assemblers : pc[a] = "remove" =>
          key[conn[a]] \in Keys /\ conns[key[conn[a]]] = conn[a]

\* The stream of an object was made for the object's flow.
MadeFor ==
    /\ \A c \in Conns \ fresh : skey[stream[c]] = key[c]
    /\ \A a \in Assemblers : pc[a] = "insert" => skey[made[a]] = packet[a].k

\* A stream is completed, waits for its object, or has an open one.
Accounted ==
    \A s \in 1 .. streams :
        \/ completes[s] = 1
        \/ \E a \in Assemblers : pc[a] = "insert" /\ made[a] = s
        \/ \E c \in Conns \ fresh : stream[c] = s /\ ~closed[c]

\* The inductive invariant of the flows, above PoolInv and StreamInv.
FlowInv == Owned /\ Filed /\ MadeFor /\ Accounted /\ RightStream

\* A new pool has no connections.
LEMMA InitFlow == Init => FlowInv
BY PoolAssumption DEF Init, FlowInv, Owned, Filed, MadeFor, Accounted, RightStream, Fetching,
   NoFlush, NoPacket

\* The object getConnection takes is neither the connection of a flow nor one
\* that is to be removed.
LEMMA TakesIdle ==
    ASSUME PoolInv, NEW c \in Conns, Takes(c)
    PROVE  /\ \A k \in Keys : conns[k] # c
           /\ \A a \in Assemblers : pc[a] = "remove" => conn[a] # c
           /\ c \in fresh \/ closed[c]
<1>1. CASE free = <<>>
    BY <1>1, PoolAssumption DEF PoolInv, TypeOK, Pointers, MapSound, Takes, HasConn, HasLock
<1>2. CASE free # <<>>
  <2>1. Len(free) \in DOMAIN free
    BY <1>2 DEF PoolInv, TypeOK, PoolType
  <2> QED
    BY <1>2, <2>1 DEF PoolInv, FreeSound, Closing, Takes
<1> QED
    BY <1>1, <1>2

\* Every step keeps it, where packets and flushes are divided.
LEMMA StepFlow ==
    ASSUME Divided, PoolInv, StreamInv, FlowInv, [Next]_vars
    PROVE  FlowInv'
<1>t. PoolType /\ HandlerType /\ StreamType /\ Pointers
    BY DEF PoolInv, TypeOK
<1>f. Owned /\ Filed /\ MadeFor /\ Accounted /\ RightStream
    BY DEF FlowInv
<1> USE PoolAssumption DEF Goto, pool, objs, procs, hist, count, Fetching, HasConn, HasLock
<1>1. ASSUME NEW a \in Assemblers, NEW p \in Packet, Assemble(a, p) PROVE FlowInv'
  <2>a. /\ <<a, p.k>> \in Feeds /\ packet'[a] = p /\ pc'[a] = "lookup" /\ pc[a] = "idle"
        /\ \A b \in Assemblers : b # a => packet'[b] = packet[b] /\ pc'[b] = pc[b]
        /\ UNCHANGED <<conns, key, flush, conn>>
    BY <1>1, <1>t DEF Assemble, HandlerType
  <2>1. Owned'
    BY <2>a, <1>f DEF Owned
  <2>2. Filed'
    BY <1>1, <1>t, <1>f DEF Assemble, Filed, HandlerType
  <2>3. MadeFor' /\ Accounted' /\ RightStream'
    BY <1>1, <1>t, <1>f DEF Assemble, MadeFor, Accounted, RightStream, HandlerType
  <2> QED
    BY <2>1, <2>2, <2>3 DEF FlowInv
<1>2. ASSUME NEW a \in Assemblers, Lookup(a) PROVE FlowInv'
  <2>1. Owned'
    BY <1>2, <1>t, <1>f DEF Lookup, Owned, HandlerType, PoolType, PoolInv, MapSound
  <2>2. Filed'
    BY <1>2, <1>t, <1>f DEF Lookup, Filed, HandlerType
  <2>3. MadeFor' /\ Accounted' /\ RightStream'
    BY <1>2, <1>t, <1>f DEF Lookup, MadeFor, Accounted, RightStream, HandlerType
  <2> QED
    BY <2>1, <2>2, <2>3 DEF FlowInv
<1>3. ASSUME NEW a \in Assemblers, LockConn(a) PROVE FlowInv'
  <2>1. Owned'
    BY <1>3, <1>t, <1>f DEF LockConn, Owned, HandlerType
  <2>2. Filed'
    BY <1>3, <1>t, <1>f DEF LockConn, Filed, HandlerType
  <2>3. MadeFor' /\ Accounted' /\ RightStream'
    BY <1>3, <1>t, <1>f DEF LockConn, MadeFor, Accounted, RightStream, HandlerType
  <2> QED
    BY <2>1, <2>2, <2>3 DEF FlowInv
<1>4. ASSUME NEW a \in Assemblers, Buffer(a) PROVE FlowInv'
  <2>1. Owned'
    BY <1>4, <1>t, <1>f DEF Buffer, Owned, HandlerType
  <2>2. Filed'
    BY <1>4, <1>t, <1>f DEF Buffer, Filed, HandlerType
  <2>3. MadeFor' /\ Accounted' /\ RightStream'
    BY <1>4, <1>t, <1>f DEF Buffer, MadeFor, Accounted, RightStream, HandlerType
  <2> QED
    BY <2>1, <2>2, <2>3 DEF FlowInv
<1>5. ASSUME NEW a \in Assemblers, Release(a) PROVE FlowInv'
  <2>1. Owned'
    BY <1>5, <1>t, <1>f DEF Release, Owned, HandlerType
  <2>2. Filed'
    BY <1>5, <1>t, <1>f DEF Release, Filed, HandlerType
  <2>3. MadeFor' /\ Accounted' /\ RightStream'
    BY <1>5, <1>t, <1>f DEF Release, MadeFor, Accounted, RightStream, HandlerType
  <2> QED
    BY <2>1, <2>2, <2>3 DEF FlowInv
<1>6. ASSUME NEW a \in Assemblers, NEW all \in BOOLEAN, FlushStart(a, all) PROVE FlowInv'
  <2>1. Owned'
    BY <1>6, <1>t, <1>f DEF FlushStart, Owned, HandlerType
  <2>2. Filed'
    BY <1>6, <1>t, <1>f DEF FlushStart, Filed, HandlerType
  <2>3. MadeFor' /\ Accounted' /\ RightStream'
    BY <1>6, <1>t, <1>f DEF FlushStart, MadeFor, Accounted, RightStream, HandlerType
  <2> QED
    BY <2>1, <2>2, <2>3 DEF FlowInv
<1>7. ASSUME NEW a \in Assemblers, NEW c \in Conns, FlushNext(a, c) PROVE FlowInv'
  <2>1. Owned'
    BY <1>7, <1>t, <1>f DEF FlushNext, Owned, HandlerType
  <2>2. Filed'
    BY <1>7, <1>t, <1>f DEF FlushNext, Filed, HandlerType
  <2>3. MadeFor' /\ Accounted' /\ RightStream'
    BY <1>7, <1>t, <1>f DEF FlushNext, MadeFor, Accounted, RightStream, HandlerType
  <2> QED
    BY <2>1, <2>2, <2>3 DEF FlowInv
<1>8. ASSUME NEW a \in Assemblers, FlushReturn(a) PROVE FlowInv'
  <2>1. Owned'
    BY <1>8, <1>t, <1>f DEF FlushReturn, Owned, HandlerType, NoFlush
  <2>2. Filed'
    BY <1>8, <1>t, <1>f DEF FlushReturn, Filed, HandlerType
  <2>3. MadeFor' /\ Accounted' /\ RightStream'
    BY <1>8, <1>t, <1>f DEF FlushReturn, MadeFor, Accounted, RightStream, HandlerType
  <2> QED
    BY <2>1, <2>2, <2>3 DEF FlowInv
<1>9. ASSUME NEW a \in Assemblers, FlushLock(a) PROVE FlowInv'
  <2>1. Owned'
    BY <1>9, <1>t, <1>f DEF FlushLock, Owned, HandlerType
  <2>2. Filed'
    BY <1>9, <1>t, <1>f DEF FlushLock, Filed, HandlerType
  <2>3. MadeFor' /\ Accounted' /\ RightStream'
    BY <1>9, <1>t, <1>f DEF FlushLock, MadeFor, Accounted, RightStream, HandlerType
  <2> QED
    BY <2>1, <2>2, <2>3 DEF FlowInv
<1>10. ASSUME NEW a \in Assemblers, FlushClose(a) PROVE FlowInv'
  <2>1. Owned'
    BY <1>10, <1>t, <1>f DEF FlushClose, Owned, HandlerType
  <2>2. Filed'
    BY <1>10, <1>t, <1>f DEF FlushClose, Filed, HandlerType
  <2>3. MadeFor' /\ Accounted' /\ RightStream'
    BY <1>10, <1>t, <1>f DEF FlushClose, MadeFor, Accounted, RightStream, HandlerType
  <2> QED
    BY <2>1, <2>2, <2>3 DEF FlowInv
<1>11. ASSUME NEW a \in Assemblers, FlushLeave(a) PROVE FlowInv'
  <2>1. Owned'
    BY <1>11, <1>t, <1>f DEF FlushLeave, Owned, HandlerType
  <2>2. Filed'
    BY <1>11, <1>t, <1>f DEF FlushLeave, Filed, HandlerType
  <2>3. MadeFor' /\ Accounted' /\ RightStream'
    BY <1>11, <1>t, <1>f DEF FlushLeave, MadeFor, Accounted, RightStream, HandlerType
  <2> QED
    BY <2>1, <2>2, <2>3 DEF FlowInv
<1>12. ASSUME NEW a \in Assemblers, NEW b \in 0 .. 1, NEW n \in 0 .. MaxPages + 1,
       NEW end \in BOOLEAN, Send(a, b, n, end)
      PROVE  FlowInv'
  <2>1. conn[a] \in Conns \ fresh /\ key[conn[a]] = packet[a].k
    BY <1>12, <1>t, <1>f DEF Send, Pointers, Owned
  <2>2. RightStream'
    <3>1. stray' = (stray \/ skey[stream[conn[a]]] # packet[a].k)
      BY <1>12 DEF Send, Reassembled
    <3>2. skey[stream[conn[a]]] = packet[a].k
      BY <2>1, <1>f DEF MadeFor
    <3> QED
      BY <3>1, <3>2, <1>f, Zenon DEF RightStream
  <2>3. Owned'
    BY <1>12, <1>t, <1>f DEF Send, Owned, HandlerType
  <2>4. Filed'
    BY <1>12, <1>t, <1>f DEF Send, Filed, HandlerType
  <2>5. MadeFor' /\ Accounted'
    BY <1>12, <1>t, <1>f DEF Send, MadeFor, Accounted, HandlerType
  <2> QED
    BY <2>2, <2>3, <2>4, <2>5 DEF FlowInv
<1>13. ASSUME NEW a \in Assemblers, NEW n \in 0 .. MaxPages, NEW end \in BOOLEAN,
       FlushSkip(a, n, end)
      PROVE  FlowInv'
  <2>1. conn[a] \in Conns \ fresh
    BY <1>13, <1>t DEF FlushSkip, Pointers
  <2>2. RightStream'
    <3>1. stray' = (stray \/ skey[stream[conn[a]]] # key[conn[a]])
      BY <1>13 DEF FlushSkip, Reassembled
    <3>2. skey[stream[conn[a]]] = key[conn[a]]
      BY <2>1, <1>f DEF MadeFor
    <3> QED
      BY <3>1, <3>2, <1>f, Zenon DEF RightStream
  <2>3. Owned'
    BY <1>13, <1>t, <1>f DEF FlushSkip, Owned, HandlerType
  <2>4. Filed'
    BY <1>13, <1>t, <1>f DEF FlushSkip, Filed, HandlerType
  <2>5. MadeFor' /\ Accounted'
    BY <1>13, <1>t, <1>f DEF FlushSkip, MadeFor, Accounted, HandlerType
  <2> QED
    BY <2>2, <2>3, <2>4, <2>5 DEF FlowInv
<1>14. ASSUME NEW a \in Assemblers, New(a) PROVE FlowInv'
  <2>1. /\ streams \in Nat /\ streams' = streams + 1 /\ streams + 1 \in Ids
        /\ made' = [made EXCEPT ![a] = streams + 1]
        /\ skey' = [skey EXCEPT ![streams + 1] = packet[a].k]
        /\ pc[a] = "new" /\ pc' = [pc EXCEPT ![a] = "insert"]
        /\ UNCHANGED <<conns, fresh, key, stream, closed, packet, flush, conn, completes, stray>>
    BY <1>14, <1>t DEF New, StreamType, Ids
  <2>2. Owned'
    BY <2>1, <1>t, <1>f DEF Owned, HandlerType
  <2>3. Filed'
    BY <2>1, <1>t, <1>f DEF Filed, HandlerType
  <2>4. MadeFor'
    BY <2>1, <1>t, <1>f DEF MadeFor, HandlerType, StreamType, StreamInv, Distinct, Pending
  <2>5. Accounted'
    <3> SUFFICES ASSUME NEW s \in 1 .. streams + 1
                 PROVE  \/ completes[s] = 1
                        \/ \E b \in Assemblers : pc'[b] = "insert" /\ made'[b] = s
                        \/ \E c \in Conns \ fresh : stream[c] = s /\ ~closed[c]
      BY <2>1 DEF Accounted
    <3>1. CASE s = streams + 1
      BY <3>1, <2>1, <1>t DEF HandlerType
    <3>2. CASE s \in 1 .. streams
      BY <3>2, <2>1, <1>t, <1>f DEF Accounted, HandlerType
    <3> QED
      BY <2>1, <3>1, <3>2
  <2>6. RightStream'
    BY <2>1, <1>f DEF RightStream
  <2> QED
    BY <2>2, <2>3, <2>4, <2>5, <2>6 DEF FlowInv
<1>15. ASSUME NEW a \in Assemblers, NEW c \in Conns, Insert(a, c) PROVE FlowInv'
  <2> DEFINE k == packet[a].k
  <2>1. /\ pc[a] = "insert" /\ k \in Keys /\ <<a, k>> \in Feeds /\ conns[k] = None
        /\ Takes(c)
    BY <1>15, <1>t, <1>f DEF Insert, Owned, Pointers
  <2>2. /\ key' = [key EXCEPT ![c] = k] /\ stream' = [stream EXCEPT ![c] = made[a]]
        /\ closed' = [closed EXCEPT ![c] = FALSE] /\ conn' = [conn EXCEPT ![a] = c]
        /\ conns' = [conns EXCEPT ![k] = c] /\ pc' = [pc EXCEPT ![a] = "lock"]
        /\ UNCHANGED <<packet, flush, made, streams, skey, completes, stray>>
    BY <1>15, <2>1 DEF Insert
  <2>3. \A d \in Conns : d \notin fresh' <=> d = c \/ d \notin fresh
    <3>1. CASE free = <<>>
      BY <1>15, <3>1 DEF Insert
    <3>2. CASE free # <<>>
      <4>1. Len(free) \in DOMAIN free /\ fresh' = fresh /\ c = free[Len(free)]
        BY <1>15, <3>2, <1>t DEF Insert, Takes, PoolType
      <4> QED
        BY <4>1 DEF PoolInv, FreeSound
    <3> QED
      BY <3>1, <3>2
  <2>4. /\ \A l \in Keys : conns[l] # c
        /\ \A b \in Assemblers : pc[b] = "remove" => conn[b] # c
        /\ c \in fresh \/ closed[c]
    BY <2>1, TakesIdle
  <2>5. \A b \in Assemblers : b # a /\ pc[b] \in Fetching => packet[b].k \in Keys /\ packet[b].k # k
    BY <2>1, <1>t, <1>f DEF Divided, Owned, Pointers
  <2> HIDE DEF k
  <2>6. Owned'
    <3> SUFFICES ASSUME NEW b \in Assemblers
                 PROVE  /\ pc'[b] \in Fetching => <<b, packet[b].k>> \in Feeds
                        /\ pc'[b] \in {"new", "insert"} => conns'[packet[b].k] = None
                        /\ pc'[b] \in {"lock", "deliver"} => key'[conn'[b]] = packet[b].k
                        /\ Flushers = {} =>
                              /\ pc'[b] \notin {"next", "flock", "check"} /\ ~flush[b].on
                              /\ pc'[b] \in {"lock", "deliver", "complete", "remove"} =>
                                    <<b, packet[b].k>> \in Feeds /\ conns'[packet[b].k] = conn'[b]
      BY <2>2 DEF Owned
    <3>1. CASE b = a
      BY <3>1, <2>1, <2>2, <1>t, <1>f DEF Owned, HandlerType, PoolType, k
    <3>2. CASE b # a
      <4>1. pc'[b] = pc[b] /\ conn'[b] = conn[b]
        BY <3>2, <2>2, <1>t DEF HandlerType
      <4>2. pc[b] \in {"new", "insert"} => conns'[packet[b].k] = None
        BY <3>2, <2>2, <2>5, <1>t, <1>f DEF Owned, PoolType
      <4>3. ASSUME pc[b] \in {"lock", "deliver"} PROVE key'[conn[b]] = packet[b].k
        <5>1. CASE Flushers = {}
          <6>1. conns[packet[b].k] = conn[b] /\ packet[b].k \in Keys /\ conn[b] \in Conns
            BY <4>3, <5>1, <1>t, <1>f DEF Owned, Pointers
          <6> QED
            BY <4>3, <6>1, <2>2, <2>4, <1>t, <1>f DEF Owned, PoolType
        <5>2. CASE Flushers # {}
          <6>1. PICK x \in Assemblers : Feeds \subseteq {x} \X Keys
            BY <5>2 DEF Divided
          <6>2. <<a, k>> \in {x} \X Keys /\ <<b, packet[b].k>> \in {x} \X Keys
            BY <4>3, <6>1, <2>1, <1>f DEF Owned
          <6> QED
            BY <3>2, <6>2
        <5> QED
          BY <5>1, <5>2
      <4>4. ASSUME Flushers = {}, pc[b] \in {"lock", "deliver", "complete", "remove"}
            PROVE  <<b, packet[b].k>> \in Feeds /\ conns'[packet[b].k] = conn[b]
        <5>1. /\ <<b, packet[b].k>> \in Feeds /\ conns[packet[b].k] = conn[b]
              /\ packet[b].k \in Keys
          BY <4>4, <1>f DEF Owned
        <5>2. packet[b].k # k
          BY <3>2, <5>1, <2>1 DEF Divided
        <5> QED
          BY <5>1, <5>2, <2>2, <1>t DEF PoolType
      <4> QED
        BY <4>1, <4>2, <4>3, <4>4, <1>f DEF Owned
    <3> QED
      BY <3>1, <3>2
  <2>7. Filed'
    <3>1. ASSUME NEW d \in Conns, d \notin fresh', ~closed'[d]
          PROVE  key'[d] \in Keys /\ conns'[key'[d]] = d
      <4>1. CASE d = c
        BY <4>1, <2>1, <2>2, <1>t DEF PoolType
      <4>2. CASE d # c
        <5>1. /\ d \notin fresh /\ ~closed[d] /\ key'[d] = key[d]
              /\ key[d] \in Keys /\ conns[key[d]] = d
          BY <4>2, <3>1, <2>2, <2>3, <1>t, <1>f DEF Filed, PoolType
        <5>2. key[d] # k
          BY <5>1, <2>1
        <5> QED
          BY <5>1, <5>2, <2>2, <1>t DEF PoolType
      <4> QED
        BY <4>1, <4>2
    <3>2. ASSUME NEW b \in Assemblers, pc'[b] = "remove"
          PROVE  key'[conn'[b]] \in Keys /\ conns'[key'[conn'[b]]] = conn'[b]
      <4>1. b # a /\ pc[b] = "remove" /\ conn'[b] = conn[b] /\ conn[b] # c /\ conn[b] \in Conns
        BY <3>2, <2>2, <2>4, <1>t DEF HandlerType, Pointers
      <4>2. key[conn[b]] \in Keys /\ conns[key[conn[b]]] = conn[b] /\ key'[conn[b]] = key[conn[b]]
        BY <4>1, <2>2, <1>t, <1>f DEF Filed, PoolType
      <4>3. key[conn[b]] # k
        BY <4>1, <4>2, <2>1
      <4> QED
        BY <4>1, <4>2, <4>3, <2>2, <1>t DEF PoolType
    <3> QED
      BY <3>1, <3>2 DEF Filed
  <2>8. MadeFor'
    BY <2>1, <2>2, <2>3, <1>t, <1>f DEF MadeFor, PoolType, HandlerType, k
  <2>9. Accounted'
    <3> SUFFICES ASSUME NEW s \in 1 .. streams
                 PROVE  \/ completes[s] = 1
                        \/ \E b \in Assemblers : pc'[b] = "insert" /\ made[b] = s
                        \/ \E d \in Conns : d \notin fresh' /\ stream'[d] = s /\ ~closed'[d]
      BY <2>2 DEF Accounted
    <3>1. CASE made[a] = s
      BY <3>1, <2>2, <2>3, <1>t DEF PoolType
    <3>2. ASSUME NEW b \in Assemblers, b # a, pc[b] = "insert", made[b] = s
          PROVE  pc'[b] = "insert"
      BY <3>2, <2>2, <1>t DEF HandlerType
    <3>3. ASSUME NEW d \in Conns \ fresh, stream[d] = s, ~closed[d]
          PROVE  d \notin fresh' /\ stream'[d] = s /\ ~closed'[d]
      BY <3>3, <2>2, <2>3, <2>4, <1>t DEF PoolType
    <3> QED
      BY <3>1, <3>2, <3>3, <1>f DEF Accounted
  <2> QED
    BY <2>2, <2>6, <2>7, <2>8, <2>9, <1>f DEF FlowInv, RightStream
<1>16. ASSUME NEW a \in Assemblers, Complete(a) PROVE FlowInv'
  <2> DEFINE t == stream[conn[a]]
  <2>1. /\ pc[a] = "complete" /\ conn[a] \in Conns \ fresh /\ ~closed[conn[a]]
        /\ t \in 1 .. streams /\ completes[t] = 0
        /\ \A c \in Conns \ fresh : c # conn[a] => stream[c] # t
    BY <1>16, <1>t DEF Complete, Pointers, PoolInv, Closing, StreamInv, Distinct, Completion
  <2>2. /\ completes' = [completes EXCEPT ![t] = completes[t] + 1]
        /\ closed' = [closed EXCEPT ![conn[a]] = TRUE] /\ pc' = [pc EXCEPT ![a] = "remove"]
        /\ UNCHANGED <<conns, fresh, key, stream, packet, flush, conn, made, streams, skey, stray>>
    BY <1>16 DEF Complete
  <2>3. Owned'
    BY <2>1, <2>2, <1>t, <1>f DEF Owned, HandlerType
  <2>4. Filed'
    BY <2>1, <2>2, <1>t, <1>f DEF Filed, HandlerType, PoolType
  <2>5. MadeFor' /\ RightStream'
    BY <2>1, <2>2, <1>t, <1>f DEF MadeFor, RightStream, HandlerType
  <2>6. Accounted'
    <3> SUFFICES ASSUME NEW s \in 1 .. streams
                 PROVE  \/ completes'[s] = 1
                        \/ \E b \in Assemblers : pc'[b] = "insert" /\ made[b] = s
                        \/ \E c \in Conns \ fresh : stream[c] = s /\ ~closed'[c]
      BY <2>2 DEF Accounted
    <3>1. streams \in Nat /\ 1 .. streams \subseteq Ids
      BY <1>t DEF StreamType, Ids
    <3>2. CASE s = t
      BY <3>1, <3>2, <2>1, <2>2, <1>t DEF StreamType
    <3>3. CASE s # t
      <4>1. completes'[s] = completes[s]
        BY <3>1, <3>3, <2>2, <1>t DEF StreamType
      <4>2. ASSUME NEW b \in Assemblers, pc[b] = "insert" PROVE pc'[b] = "insert"
        BY <4>2, <2>1, <2>2, <1>t DEF HandlerType
      <4>3. ASSUME NEW c \in Conns \ fresh, stream[c] = s, ~closed[c] PROVE ~closed'[c]
        BY <4>3, <3>3, <2>1, <2>2, <1>t DEF PoolType
      <4> QED
        BY <4>1, <4>2, <4>3, <1>f DEF Accounted
    <3> QED
      BY <3>2, <3>3
  <2> QED
    BY <2>3, <2>4, <2>5, <2>6 DEF FlowInv
<1>17. ASSUME NEW a \in Assemblers, Remove(a) PROVE FlowInv'
  <2> DEFINE k == key[conn[a]]
  <2>1. /\ pc[a] = "remove" /\ conn[a] \in Conns \ fresh /\ k \in Keys /\ conns[k] = conn[a]
        /\ closed[conn[a]] /\ mu[conn[a]] = a
    BY <1>17, <1>t, <1>f DEF Remove, Pointers, Filed, PoolInv, Closing, Locked
  <2>2. /\ conns' = [conns EXCEPT ![k] = None] /\ pc' = [pc EXCEPT ![a] = "release"]
        /\ UNCHANGED <<fresh, key, stream, closed, packet, flush, conn, made, streams, skey,
                       completes, stray>>
    BY <1>17 DEF Remove
  <2> HIDE DEF k
  <2>3. Owned'
    <3>1. ASSUME NEW b \in Assemblers, b # a, Flushers = {},
                 pc[b] \in {"lock", "deliver", "complete", "remove"}
          PROVE  conns'[packet[b].k] = conn[b]
      <4>1. /\ <<b, packet[b].k>> \in Feeds /\ conns[packet[b].k] = conn[b]
            /\ <<a, packet[a].k>> \in Feeds /\ conns[packet[a].k] = conn[a]
        BY <3>1, <2>1, <1>f DEF Owned
      <4>2. packet[a].k # packet[b].k
        BY <3>1, <4>1 DEF Divided
      <4>3. key[conn[a]] = packet[a].k
        BY <4>1, <2>1 DEF PoolInv, MapSound
      <4> QED
        BY <4>1, <4>2, <4>3, <2>2, <1>t DEF PoolType, k
    <3> QED
      BY <3>1, <2>1, <2>2, <1>t, <1>f DEF Owned, HandlerType, PoolType, Pointers
  <2>4. Filed'
    <3>1. ASSUME NEW d \in Conns \ fresh, ~closed[d] PROVE conns'[key[d]] = d
      BY <3>1, <2>1, <2>2, <1>t, <1>f DEF Filed, PoolType
    <3>2. ASSUME NEW b \in Assemblers, b # a, pc[b] = "remove"
          PROVE  conns'[key[conn[b]]] = conn[b]
      <4>1. mu[conn[b]] = b /\ key[conn[b]] \in Keys /\ conns[key[conn[b]]] = conn[b]
        BY <3>2, <1>f DEF PoolInv, Locked, Filed
      <4>2. key[conn[b]] # k
        BY <3>2, <4>1, <2>1
      <4> QED
        BY <4>1, <4>2, <2>2, <1>t DEF PoolType
    <3> QED
      BY <3>1, <3>2, <2>1, <2>2, <1>t, <1>f DEF Filed, HandlerType
  <2>5. MadeFor' /\ Accounted' /\ RightStream'
    BY <2>1, <2>2, <1>t, <1>f DEF MadeFor, Accounted, RightStream, HandlerType
  <2> QED
    BY <2>3, <2>4, <2>5 DEF FlowInv
<1>18. CASE UNCHANGED vars
    BY <1>18, <1>f DEF vars, FlowInv, Owned, Filed, MadeFor, Accounted, RightStream
<1> QED
    BY <1>1, <1>2, <1>3, <1>4, <1>5, <1>6, <1>7, <1>8, <1>9, <1>10, <1>11, <1>12, <1>13, <1>14, <1>15, <1>16, <1>17, <1>18 DEF Next, Step

\* With packets and flushes divided as Divided says, a stream is only passed
\* bytes of the flow it was made for, although getConnection returns an object
\* that it has not locked.
THEOREM FedItsOwnFlow == ASSUME Divided PROVE Spec => []RightStream
<1>1. Init => FlowInv
    BY InitFlow
<1>2. PoolInv /\ StreamInv /\ FlowInv /\ [Next]_vars => FlowInv'
    BY StepFlow
<1>3. FlowInv => RightStream
    BY DEF FlowInv
<1> QED
    BY <1>1, <1>2, <1>3, Inductive, PTL DEF Spec

\* And no stream is lost: once the Assemblers are at rest and the pool has no
\* connection, each stream was told of its completion once.
THEOREM EveryStreamCompleted == ASSUME Divided PROVE Spec => []AllCompleted
<1>1. Init => FlowInv
    BY InitFlow
<1>2. PoolInv /\ StreamInv /\ FlowInv /\ [Next]_vars => FlowInv'
    BY StepFlow
<1>3. FlowInv => AllCompleted
  <2> SUFFICES ASSUME FlowInv, \A a \in Assemblers : pc[a] = "idle", Live = {},
                      NEW s \in 1 .. streams
               PROVE  completes[s] = 1
    BY DEF AllCompleted
  <2>1. ASSUME NEW c \in Conns \ fresh, ~closed[c] PROVE FALSE
    <3>1. key[c] \in Keys /\ conns[key[c]] = c
      BY <2>1 DEF FlowInv, Filed
    <3> QED
      BY <3>1, PoolAssumption DEF Live
  <2> QED
    BY <2>1 DEF FlowInv, Accounted
<1> QED
    BY <1>1, <1>2, <1>3, Inductive, PTL DEF Spec
=============================================================================
