---------------------------- MODULE DefragProofs ----------------------------
(***************************************************************************)
(* Proofs that both defragmenters implement Datagram: the LCMDefragmenter  *)
(* for any messages and any timeout, the IPv4Defragmenter for any flows,   *)
(* any datagrams cut up in any way, any goroutines and any limits.         *)
(***************************************************************************)
EXTENDS IPv4Defrag, LcmDefrag, FiniteSetTheorems, SequenceTheorems, WellFoundedInduction,
        TLAPS

-----------------------------------------------------------------------------
(* The LCMDefragmenter.                                                    *)

\* The fragment numbers of message s, and an lcmPacket of it.
Parts(s) == 0..(Total[s] - 1)
LcmPacket(s) == [recFrags : Nat, frags : SUBSET Parts(s), done : BOOLEAN, age : Nat]

\* recFrags counts the fragments that are there, and those that came again.
Counts(s, lp) == lp \in LcmPacket(s) /\ lp.recFrags >= Cardinality(lp.frags)

\* A map from messages to their packets.
Sound(ps) ==
    /\ DOMAIN ps = Messages
    /\ ps = [s \in Messages |-> ps[s]]
    /\ \A s \in Messages : ps[s] = NoPacket \/ Counts(s, ps[s])

\* The inductive invariant of LcmDefrag.
LcmInv == fed \subseteq Messages /\ Sound(packets)

\* What is left to be put together, the messages of which a fragment came twice,
\* and those that timed out.
Got(ps) == [s \in Messages |-> IF s \notin Known(ps) \/ ps[s].done THEN {} ELSE ps[s].frags]
Twice(ps) == {s \in Known(ps) : ~ps[s].done /\ ps[s].recFrags > Cardinality(ps[s].frags)}
Old(ps) == {s \in Known(ps) : ps[s].age > Timeout}

\* No lcmPacket is the absent one.
LEMMA PacketIsThere ==
    ASSUME NEW s, NEW lp \in LcmPacket(s)
    PROVE  lp # NoPacket
  <1>1. "frags" \in DOMAIN lp
    BY DEF LcmPacket
  <1>2. "frags" \notin DOMAIN NoPacket
    BY DEF NoPacket
  <1> QED BY <1>1, <1>2

\* Fragment numbers are finitely many.
LEMMA PartsFinite ==
    ASSUME NEW s \in Messages
    PROVE  /\ IsFiniteSet(Parts(s)) /\ Cardinality(Parts(s)) = Total[s]
           /\ \A F \in SUBSET Parts(s) : IsFiniteSet(F)
  <1>1. Total[s] \in Nat
    BY LcmAssumption
  <1>2. IsFiniteSet(Parts(s)) /\ Cardinality(Parts(s)) = Total[s]
    <2>1. PICK n \in Nat : n = Total[s]
      BY <1>1
    <2>2. 0 \in Int /\ n - 1 \in Int /\ (0 > n - 1 => n = 0) /\ (n - 1) - 0 + 1 = n
      OBVIOUS
    <2>3. IsFiniteSet(0..(n - 1)) /\ Cardinality(0..(n - 1)) = n
      BY <2>2, FS_Interval
    <2> QED BY <2>1, <2>3 DEF Parts
  <1> QED BY <1>2, FS_Subset

\* cleanUp drops what was returned or timed out, and nothing else.
LEMMA CleanUp ==
    ASSUME NEW ps, Sound(ps), NEW qs, qs = cleanUp(ps)
    PROVE  /\ Sound(qs)
           /\ Got(qs) = [s \in Messages |-> IF s \in Old(ps) THEN {} ELSE Got(ps)[s]]
           /\ Twice(qs) = Twice(ps) \ Old(ps)
           /\ \A s \in Known(qs) : Counts(s, qs[s]) /\ ~qs[s].done
           /\ Known(qs) \subseteq Messages
  <1>1. \A s \in Messages : qs[s] = IF s \in Known(ps) /\ (ps[s].done \/ ps[s].age > Timeout)
                                     THEN NoPacket ELSE ps[s]
    BY DEF cleanUp
  <1>2. Sound(qs)
    BY <1>1 DEF Sound, cleanUp
  <1>3. \A s \in Known(qs) : Counts(s, qs[s]) /\ ~qs[s].done
    BY <1>1, <1>2 DEF Sound, Known
  <1>4. ASSUME NEW s \in Messages
        PROVE  (IF s \notin Known(qs) \/ qs[s].done THEN {} ELSE qs[s].frags)
                  = IF s \in Old(ps) THEN {} ELSE Got(ps)[s]
    BY <1>1 DEF Known, Old, Got
  <1>5. Got(qs) = [s \in Messages |-> IF s \in Old(ps) THEN {} ELSE Got(ps)[s]]
    BY <1>4 DEF Got
  <1>6. Twice(qs) = Twice(ps) \ Old(ps)
    BY <1>1 DEF Twice, Old, Known
  <1> QED BY <1>2, <1>3, <1>5, <1>6 DEF Known

\* append counts every fragment: recFrags gets ahead with one that is there.
LEMMA AppendCounts ==
    ASSUME NEW s \in Messages, NEW old, Counts(s, old) \/ old = newLCMPacket,
           NEW n \in Parts(s), NEW lp, lp = append(old, n), NEW d \in BOOLEAN
    PROVE  /\ lp.frags = old.frags \cup {n}
           /\ Counts(s, old) /\ Counts(s, lp) /\ Counts(s, [lp EXCEPT !.done = d])
           /\ lp.recFrags > Cardinality(lp.frags)
                <=> n \in old.frags \/ old.recFrags > Cardinality(old.frags)
  <1>1. Counts(s, old)
    <2>1. newLCMPacket \in LcmPacket(s)
      BY DEF newLCMPacket, LcmPacket
    <2>2. newLCMPacket.recFrags = 0 /\ newLCMPacket.frags = {}
      BY DEF newLCMPacket
    <2> QED BY <2>1, <2>2, FS_EmptySet DEF Counts
  <1>a. PICK r \in Nat, F \in SUBSET Parts(s), e \in BOOLEAN, t \in Nat :
            old = [recFrags |-> r, frags |-> F, done |-> e, age |-> t]
    BY <1>1 DEF Counts, LcmPacket
  <1>b. PICK G \in SUBSET Parts(s) : G = F \cup {n}
    OBVIOUS
  <1>c. lp = [recFrags |-> r + 1, frags |-> G, done |-> e, age |-> 0]
    BY <1>a, <1>b DEF append
  <1>d. [lp EXCEPT !.done = d] = [recFrags |-> r + 1, frags |-> G, done |-> d, age |-> 0]
    BY <1>c
  <1>2. /\ lp \in LcmPacket(s) /\ [lp EXCEPT !.done = d] \in LcmPacket(s)
        /\ lp.frags = old.frags \cup {n} /\ lp.recFrags = old.recFrags + 1
        /\ [lp EXCEPT !.done = d].frags = lp.frags
        /\ [lp EXCEPT !.done = d].recFrags = lp.recFrags
    BY <1>a, <1>b, <1>c, <1>d DEF LcmPacket
  <1>3. /\ lp.recFrags >= Cardinality(lp.frags)
        /\ lp.recFrags > Cardinality(lp.frags)
             <=> n \in old.frags \/ old.recFrags > Cardinality(old.frags)
    <2>1. IsFiniteSet(old.frags) /\ Cardinality(old.frags) \in Nat
      BY <1>1, PartsFinite, FS_CardinalityType DEF Counts, LcmPacket
    <2>2. n \notin old.frags => Cardinality(old.frags \cup {n}) = Cardinality(old.frags) + 1
      BY <2>1, FS_AddElement
    <2>3. n \in old.frags => old.frags \cup {n} = old.frags
      OBVIOUS
    <2>4. old.recFrags \in Nat /\ old.recFrags >= Cardinality(old.frags)
      BY <1>1 DEF Counts, LcmPacket
    <2>5. CASE n \in old.frags
      <3>1. Cardinality(lp.frags) = Cardinality(old.frags)
        BY <1>2, <2>3, <2>5
      <3> QED BY <1>2, <2>1, <2>4, <2>5, <3>1
    <2>6. CASE n \notin old.frags
      <3>1. Cardinality(lp.frags) = Cardinality(old.frags) + 1
        BY <1>2, <2>2, <2>6
      <3> QED BY <1>2, <2>1, <2>4, <2>6, <3>1
    <2> QED BY <2>5, <2>6
  <1> QED BY <1>1, <1>2, <1>3 DEF Counts

\* A new defragmenter keeps nothing.
LEMMA LcmInitInv == LcmInit => LcmInv
  BY DEF LcmInit, LcmInv, Sound

\* Defrag of a fragment keeps the invariant and is a Receive: the call that
\* brings the last missing fragment returns the message, and no other, if no
\* fragment came twice.
LEMMA DefragReceives ==
    ASSUME LcmInv, NEW s \in fed, NEW n \in 0..(Total[s] - 1), Defrag(s, n),
           NEW S, S = Old(packets)
    PROVE  LcmInv' /\ Message!Receive(s, n, S)
  <1> DEFINE clean == cleanUp(packets)
             old == IF s \in Known(clean) THEN clean[s] ELSE newLCMPacket
             lp == append(old, n)
             new == [lp EXCEPT !.done = Assembles(s, lp)]
             kept == [x \in Messages |-> IF x \in Old(packets) THEN {} ELSE Got(packets)[x]]
  <1>1. s \in Messages /\ n \in Parts(s) /\ Assembles(s, lp) \in BOOLEAN
    BY DEF LcmInv, Parts, Assembles
  <1>2. /\ packets' = [clean EXCEPT ![s] = new]
        /\ out' = [out EXCEPT ![s] = IF Assembles(s, lp) THEN Numbers(s) ELSE <<>>]
        /\ fed' = fed
    BY DEF Defrag
  <1>3. /\ Sound(clean) /\ Got(clean) = kept /\ Twice(clean) = Twice(packets) \ Old(packets)
        /\ \A x \in Known(clean) : Counts(x, clean[x]) /\ ~clean[x].done
    BY CleanUp DEF LcmInv
  <1>4. newLCMPacket.frags = {} /\ newLCMPacket.done = FALSE
    BY DEF newLCMPacket
  <1>5. Counts(s, old) \/ old = newLCMPacket
    BY <1>3
  <1> HIDE DEF clean, old, kept
  <1>6. /\ lp.frags = old.frags \cup {n} /\ Counts(s, lp) /\ Counts(s, new)
        /\ new.frags = lp.frags /\ new.done = Assembles(s, lp)
        /\ new.recFrags = lp.recFrags
        /\ lp.recFrags > Cardinality(lp.frags)
             <=> n \in old.frags \/ old.recFrags > Cardinality(old.frags)
    <2>1. /\ Counts(s, lp) /\ Counts(s, new) /\ lp.frags = old.frags \cup {n}
          /\ lp.recFrags > Cardinality(lp.frags)
               <=> n \in old.frags \/ old.recFrags > Cardinality(old.frags)
      BY <1>1, <1>5, AppendCounts
    <2>2. /\ new.frags = lp.frags /\ new.done = Assembles(s, lp)
          /\ new.recFrags = lp.recFrags
      BY <2>1 DEF Counts, LcmPacket
    <2> QED BY <2>1, <2>2
  <1> HIDE DEF lp, new
  <1>7. /\ packets'[s] = new /\ \A x \in Messages : x # s => packets'[x] = clean[x]
        /\ DOMAIN packets' = Messages /\ packets' = [x \in Messages |-> packets'[x]]
    BY <1>1, <1>2, <1>3 DEF Sound
  <1>8. LcmInv'
    BY <1>2, <1>3, <1>6, <1>7 DEF LcmInv, Sound
  <1>9. new # NoPacket
    BY <1>6, PacketIsThere DEF Counts
  <1>10. kept[s] = old.frags
    BY <1>1, <1>3, <1>4 DEF Got, Known, old
  <1>11. Got(packets') = [kept EXCEPT ![s] = IF Assembles(s, lp) THEN {} ELSE lp.frags]
    <2>1. ASSUME NEW x \in Messages
          PROVE  (IF x \notin Known(packets') \/ packets'[x].done THEN {} ELSE packets'[x].frags)
                    = IF x = s THEN (IF Assembles(s, lp) THEN {} ELSE lp.frags) ELSE kept[x]
      <3>1. CASE x = s
        BY <3>1, <1>1, <1>6, <1>7, <1>9 DEF Known
      <3>2. CASE x # s
        BY <3>2, <1>3, <1>7 DEF Known, Got
      <3> QED BY <3>1, <3>2
    <2> QED BY <2>1 DEF Got, kept
  <1>12. PICK A : A = (Twice(packets) \ S) \cup (IF n \in kept[s] THEN {s} \cap Messages ELSE {})
    OBVIOUS
  <1>13. s \in A <=> lp.recFrags > Cardinality(lp.frags)
    <2>1. s \in Twice(clean) <=> s \in Known(clean) /\ old.recFrags > Cardinality(old.frags)
      BY <1>3 DEF Twice, old
    <2>2. s \notin Known(clean) => ~(old.recFrags > Cardinality(old.frags))
      <3>1. newLCMPacket.recFrags = 0
        BY DEF newLCMPacket
      <3>2. Cardinality(newLCMPacket.frags) = 0
        BY <1>4, FS_EmptySet
      <3>3. s \notin Known(clean) => old = newLCMPacket
        BY DEF old
      <3> QED BY <3>1, <3>2, <3>3
    <2> QED BY <1>1, <1>3, <1>6, <1>10, <1>12, <2>1, <2>2
  <1>14. Assembles(s, lp) <=> kept[s] \cup {n} = Parts(s) /\ s \notin A
    <2>1. lp.recFrags \in Nat /\ lp.recFrags >= Cardinality(lp.frags)
      BY <1>6 DEF Counts, LcmPacket
    <2>2. Cardinality(Parts(s)) = Total[s] /\ Total[s] \in Nat
      BY <1>1, PartsFinite, LcmAssumption
    <2>3. Assembles(s, lp) <=> lp.recFrags = Total[s] /\ lp.frags = Parts(s)
      BY DEF Assembles, Complete, Parts
    <2>4. lp.frags = kept[s] \cup {n}
      BY <1>6, <1>10
    <2>5. s \notin A <=> ~(lp.recFrags > Cardinality(lp.frags))
      BY <1>13
    <2>6. lp.frags = Parts(s) => (lp.recFrags = Total[s] <=> ~(lp.recFrags > Cardinality(lp.frags)))
      BY <2>1, <2>2
    <2> QED BY <2>3, <2>4, <2>5, <2>6
  <1>15. Twice(packets') = A
    <2>1. Twice(packets') \subseteq Messages /\ A \subseteq Messages
      BY <1>12 DEF Twice, Known
    <2>2. ASSUME NEW x \in Messages PROVE x \in Twice(packets') <=> x \in A
      <3>1. CASE x = s
        BY <1>1, <1>6, <1>7, <1>9, <1>13, <1>14, <3>1 DEF Twice, Known
      <3>2. CASE x # s
        <4>1. x \in Twice(packets') <=> x \in Twice(clean)
          BY <1>7, <3>2 DEF Twice, Known
        <4> QED BY <1>3, <1>12, <3>2, <4>1
      <3> QED BY <3>1, <3>2
    <2> QED BY <2>1, <2>2
  <1>16. /\ out' = [out EXCEPT ![s] = IF Assembles(s, lp) THEN Numbers(s) ELSE <<>>]
         /\ lp.frags = kept[s] \cup {n}
    BY <1>2, <1>6, <1>10 DEF lp, old, clean
  <1> QED BY <1>1, <1>8, <1>11, <1>12, <1>14, <1>15, <1>16
          DEF Message!Receive, Message!Without, Got, Twice, Old, Known, Parts, kept

\* Defrag of nil forgets what has timed out.
LEMMA NilForgets ==
    ASSUME LcmInv, DefragNil, NEW S, S = Old(packets)
    PROVE  LcmInv' /\ Message!Forget(S)
  <1>1. packets' = cleanUp(packets) /\ fed' = fed /\ out' = out
    BY DEF DefragNil
  <1>2. /\ Sound(packets')
        /\ Got(packets') = [x \in Messages |-> IF x \in Old(packets) THEN {} ELSE Got(packets)[x]]
        /\ Twice(packets') = Twice(packets) \ Old(packets)
    BY <1>1, CleanUp DEF LcmInv
  <1> QED BY <1>1, <1>2 DEF LcmInv, Message!Forget, Message!Without, Got, Twice, Old, Known

\* Time only makes messages old.
LEMMA TickAges ==
    ASSUME LcmInv, Tick
    PROVE  LcmInv' /\ Message!Age
  <1>1. /\ DOMAIN packets' = Messages /\ packets' = [s \in Messages |-> packets'[s]]
        /\ fed' = fed /\ out' = out
    BY DEF Tick
  <1>2. ASSUME NEW s \in Messages
        PROVE  /\ packets'[s] = NoPacket \/ Counts(s, packets'[s])
               /\ packets[s] = NoPacket <=> packets'[s] = NoPacket
               /\ packets[s] # NoPacket => /\ packets'[s].done = packets[s].done
                                           /\ packets'[s].frags = packets[s].frags
                                           /\ packets'[s].recFrags = packets[s].recFrags
    <2>1. CASE packets[s] = NoPacket
      BY <2>1 DEF Tick, Known
    <2>2. CASE packets[s] # NoPacket
      <3>1. Counts(s, packets[s])
        BY <2>2 DEF LcmInv, Sound
      <3>2. PICK r \in Nat, F \in SUBSET Parts(s), e \in BOOLEAN, t \in Nat :
                packets[s] = [recFrags |-> r, frags |-> F, done |-> e, age |-> t]
        BY <3>1 DEF Counts, LcmPacket
      <3>3. PICK u \in Nat :
                packets'[s] = [recFrags |-> r, frags |-> F, done |-> e, age |-> u]
        BY <3>2 DEF Tick
      <3>4. packets'[s] \in LcmPacket(s)
        BY <3>3 DEF LcmPacket
      <3>5. packets'[s] # NoPacket
        BY <3>4, PacketIsThere
      <3> QED BY <2>2, <3>1, <3>2, <3>3, <3>4, <3>5 DEF Counts
    <2> QED BY <2>1, <2>2
  <1>3. Got(packets') = Got(packets)
    BY <1>2 DEF Got, Known
  <1>4. Twice(packets') = Twice(packets)
    BY <1>2 DEF Twice, Known
  <1> QED BY <1>1, <1>2, <1>3, <1>4 DEF LcmInv, Sound, Message!Age, Got, Twice, Known

\* The LCMDefragmenter implements Datagram: a message is returned, whole and
\* in order, by the call of Defrag that brings its last missing fragment, and
\* by no other, unless a fragment of it came twice since it was begun: it is
\* counted twice (append), and the message is not returned before a timeout.
THEOREM LcmImplements == LcmSpec => LcmRefines
  <1>1. LcmInit => LcmInv /\ Message!Init
    <2> SUFFICES ASSUME LcmInit PROVE Message!Init
      BY LcmInitInv
    <2>1. Known(packets) = {}
      BY DEF LcmInit, Known
    <2> QED BY <2>1 DEF LcmInit, Message!Init
  <1>2. LcmInv /\ [LcmNext]_lcmVars => LcmInv' /\ [Message!Next]_Message!vars
    <2> SUFFICES ASSUME LcmInv, [LcmNext]_lcmVars
                 PROVE  LcmInv' /\ [Message!Next]_Message!vars
      OBVIOUS
    <2>1. ASSUME NEW s \in fed, NEW n \in 0..(Total[s] - 1), Defrag(s, n)
          PROVE  LcmInv' /\ Message!Next
      <3>1. PICK S \in SUBSET Messages : S = Old(packets)
        BY DEF Old, Known
      <3>2. LcmInv' /\ Message!Receive(s, n, S)
        BY <2>1, <3>1, DefragReceives
      <3>3. s \in Messages /\ n \in [m \in Messages |-> 0..(Total[m] - 1)][s]
        BY <2>1 DEF LcmInv
      <3> QED BY <3>2, <3>3 DEF Message!Next
    <2>2. CASE DefragNil
      <3>1. PICK S \in SUBSET Messages : S = Old(packets)
        BY DEF Old, Known
      <3>2. LcmInv' /\ Message!Forget(S)
        BY <2>2, <3>1, NilForgets
      <3> QED BY <3>2 DEF Message!Next
    <2>3. CASE Tick
      BY <2>3, TickAges DEF Message!Next
    <2>4. CASE UNCHANGED lcmVars
      BY <2>4 DEF lcmVars, LcmInv, Sound, Message!vars, Known
    <2> QED BY <2>1, <2>2, <2>3, <2>4 DEF LcmNext
  <1> QED BY <1>1, <1>2, PTL DEF LcmSpec, LcmRefines, Message!Spec

-----------------------------------------------------------------------------
(* The IPv4Defragmenter.                                                   *)

\* Where the payload of a packet starts.
Off(p) == p.FragOffset * Unit

\* The bytes of the packets S.
Cover(S) == UNION {Span(p) : p \in S}

\* The packets of flow f that get into a list, and a fragmentList of them.
Listed(f) == {p \in Fragments[f] : ~dontDefrag(p) /\ securityChecks(p)}
FragmentList(f) ==
    [List : Seq(Listed(f)), Highest : Nat, Current : Nat, FinalReceived : BOOLEAN,
     LastSeen : 0..MaxTime]

\* The packets of l are in the order of their offsets.
Sorted(l) == \A i, j \in DOMAIN l : i < j => l[i].FragOffset < l[j].FragOffset

\* A list is in the order of the offsets, Current counts the bytes that are
\* there, Highest is where the last of them ends.
Tallies(f, fl) ==
    LET S == ToSet(fl.List) IN
    /\ fl \in FragmentList(f)
    /\ Sorted(fl.List)
    /\ fl.Current = Cardinality(Cover(S))
    /\ \A q \in S : End(q) <= fl.Highest
    /\ fl.Highest = 0 \/ \E q \in S : fl.Highest = End(q)
    /\ fl.FinalReceived <=> \E q \in S : ~q.MF

\* Every packet of the datagram is in the list.
All(f) == ToSet(lists[f].List) = Fragments[f]

\* c is in a call for a flow that it is fed.
Call(c) == \E f \in feeds[c] : \E p \in Listed(f), t \in Times, pc \in {"insert", "flush"} :
    calls[c] = [pc |-> pc, f |-> f, p |-> p, t |-> t]

\* A list on its way out is complete and its datagram was returned, or it is
\* full; any other list lacks a fragment, and the last call for it returned
\* nothing; a list that nobody holds is in the map or new.
Outcome(f) ==
    IF Done(f)
    THEN /\ All(f) \/ Full(lists[f])
         /\ returned[f] = IF All(f) THEN WholeDatagram(f) ELSE <<>>
    ELSE /\ ~All(f) /\ Len(lists[f].List) < IPv4MaximumFragmentListLen
         /\ lists[f].List # <<>> => returned[f] = <<>>

\* The inductive invariant of IPv4Defrag.
DefragInv ==
    /\ feeds \in Feedings /\ ipFlows \subseteq Flows
    /\ lists = [f \in Flows |-> lists[f]] /\ returned = [f \in Flows |-> returned[f]]
    /\ calls = [c \in Callers |-> calls[c]]
    /\ \A c \in Callers : calls[c] = Idle \/ Call(c)
    /\ \A f \in Flows :
        /\ Tallies(f, lists[f]) /\ Len(lists[f].List) <= IPv4MaximumFragmentListLen
        /\ Outcome(f)
        /\ f \in Held \/ (IF f \in ipFlows THEN lists[f].List # <<>> ELSE lists[f] = NewList)

-----------------------------------------------------------------------------
(* Packets of one datagram.                                                *)

\* The product with Unit keeps the order.
LEMMA Units ==
    ASSUME NEW a \in Nat, NEW b \in Nat, NEW u \in Nat \ {0}
    PROVE  a * u \in Nat /\ (a < b <=> a * u < b * u) /\ (a = b <=> a * u = b * u)
  <1>1. a * u \in Nat /\ b * u \in Nat
    OBVIOUS
  <1>2. ASSUME NEW x \in Nat, NEW y \in Nat, x < y PROVE x * u < y * u
    <2>1. PICK d \in Nat : y = x + d /\ d >= 1
      BY <1>2
    <2>2. y * u = x * u + d * u
      BY <2>1
    <2>3. d * u >= u
      BY <2>1
    <2> QED BY <2>2, <2>3
  <1> QED BY <1>1, <1>2

\* What the assumption says of a single packet: the offset and the length that
\* the code computes in 16 bits are those of the payload.
LEMMA PacketFacts ==
    ASSUME NEW f \in Flows, NEW p \in Fragments[f]
    PROVE  /\ p.FragOffset \in Nat /\ Off(p) \in Nat /\ End(p) \in Nat
           /\ Off(p) < End(p) /\ End(p) < W
           /\ p.MF \in BOOLEAN /\ p.DF \in BOOLEAN
           /\ fragOffset(p) = Off(p) /\ fragLength(p) = End(p) - Off(p)
           /\ (fragOffset(p) + fragLength(p)) % W = End(p)
           /\ Span(p) = Off(p)..(End(p) - 1)
           /\ Payload(p) = [i \in 1..(End(p) - Off(p)) |-> Off(p) + i - 1]
  <1>1. /\ p \in Packet /\ p.IHL4 = HeaderLen /\ p.Length > HeaderLen
        /\ p.FragOffset * Unit + p.Length < W
    BY DefragAssumption DEF CutUp
  <1>2. /\ p.FragOffset \in Nat /\ p.Length \in Nat /\ p.IHL4 \in Nat
        /\ p.MF \in BOOLEAN /\ p.DF \in BOOLEAN
    BY <1>1, DefragAssumption DEF Packet
  <1>3. PICK o \in Nat : o = p.FragOffset * Unit
    BY <1>2, DefragAssumption, Units
  <1>4. /\ Off(p) = o /\ End(p) = o + p.Length - HeaderLen /\ HeaderLen \in Nat \ {0}
        /\ W \in Nat \ {0}
    BY <1>1, <1>3, DefragAssumption DEF Off, End
  <1>a. ASSUME NEW x \in Nat, x < W PROVE x % W = x
    BY <1>a, <1>4
  <1>b. p.Length - HeaderLen \in Nat /\ p.Length - HeaderLen < W /\ o < W
    BY <1>1, <1>2, <1>3, <1>4
  <1>5. fragOffset(p) = o /\ fragLength(p) = p.Length - HeaderLen
    BY <1>3, <1>a, <1>b DEF fragOffset, fragLength
  <1>6. (o + (p.Length - HeaderLen)) % W = o + (p.Length - HeaderLen)
    BY <1>1, <1>2, <1>3, <1>4
  <1>7. Payload(p) = [i \in 1..(p.Length - HeaderLen) |-> o + i - 1]
    BY <1>1, <1>3 DEF Payload
  <1>8. p.Length - HeaderLen = End(p) - o
    BY <1>2, <1>4
  <1>9. Span(p) = o..(End(p) - 1)
    BY <1>3 DEF Span
  <1>10. Off(p) \in Nat /\ End(p) \in Nat /\ Off(p) < End(p) /\ End(p) < W
    BY <1>1, <1>2, <1>3, <1>4
  <1> QED BY <1>2, <1>4, <1>5, <1>6, <1>7, <1>8, <1>9, <1>10

\* Two packets of a datagram lie one behind the other.
LEMMA PacketOrder ==
    ASSUME NEW f \in Flows, NEW p \in Fragments[f], NEW q \in Fragments[f]
    PROVE  /\ p.FragOffset < q.FragOffset <=> Off(p) < Off(q)
           /\ p.FragOffset = q.FragOffset <=> p = q
           /\ Off(p) < Off(q) => End(p) <= Off(q)
  <1>1. /\ p.FragOffset \in Nat /\ q.FragOffset \in Nat /\ Off(p) \in Nat /\ Off(q) \in Nat
        /\ Off(p) < End(p) /\ Off(q) < End(q) /\ End(p) \in Nat /\ End(q) \in Nat
        /\ Span(p) = Off(p)..(End(p) - 1) /\ Span(q) = Off(q)..(End(q) - 1)
    BY PacketFacts
  <1>2. /\ p.FragOffset < q.FragOffset <=> Off(p) < Off(q)
        /\ p.FragOffset = q.FragOffset <=> Off(p) = Off(q)
    BY <1>1, Units, DefragAssumption DEF Off
  <1>3. p # q => Span(p) \intersect Span(q) = {}
    BY DefragAssumption DEF CutUp
  <1>4. Off(q) \in Span(q)
    BY <1>1
  <1>5. p # q => Off(q) \notin Span(p)
    BY <1>3, <1>4
  <1>6. Off(p) = Off(q) => p = q
    BY <1>1, <1>5
  <1>7. Off(p) < Off(q) => End(p) <= Off(q)
    BY <1>1, <1>5
  <1> QED BY <1>2, <1>6, <1>7

\* The last packet of a datagram, and where the datagram ends.
IsLast(f, z) == z \in Fragments[f] /\ \A p \in Fragments[f] : p.MF <=> p # z

\* The datagram is what its packets hold, and ends with the last one.
LEMMA Datagrams ==
    ASSUME NEW f \in Flows
    PROVE  \E z : /\ IsLast(f, z) /\ Cover(Fragments[f]) = 0..(End(z) - 1)
                  /\ \A p \in Fragments[f] : End(p) <= End(z)
                  /\ WholeDatagram(f) = [i \in 1..End(z) |-> i - 1]
                  /\ WholeDatagram(f) # <<>>
  <1>1. PICK z \in Fragments[f] :
            /\ \A p \in Fragments[f] : p.MF <=> p # z
            /\ UNION {Span(p) : p \in Fragments[f]} = 0..(End(z) - 1)
    BY DefragAssumption DEF CutUp
  <1>2. IsLast(f, z) /\ Cover(Fragments[f]) = 0..(End(z) - 1)
    BY <1>1 DEF IsLast, Cover
  <1>3. ASSUME NEW p \in Fragments[f] PROVE End(p) \in Nat /\ End(p) <= End(z)
    <2>1. /\ End(p) - 1 \in Span(p) /\ End(p) \in Nat /\ End(z) \in Nat
      BY PacketFacts
    <2>2. End(p) - 1 \in 0..(End(z) - 1)
      BY <1>1, <2>1
    <2> QED BY <2>1, <2>2
  <1>4. Max({End(p) : p \in Fragments[f]}) = End(z)
    <2> DEFINE E == {End(p) : p \in Fragments[f]}
    <2>1. End(z) \in E /\ \A y \in E : y \in Nat /\ End(z) >= y
      BY <1>3
    <2>2. \A x \in E : (\A y \in E : x >= y) => x = End(z)
      BY <2>1
    <2> HIDE DEF E
    <2>3. Max(E) \in E /\ \A y \in E : Max(E) >= y
      BY <2>1 DEF Max
    <2> QED BY <2>2, <2>3 DEF E
  <1>5. WholeDatagram(f) = [i \in 1..End(z) |-> i - 1]
    BY <1>4 DEF WholeDatagram
  <1>6. End(z) \in Nat /\ End(z) > 0
    BY PacketFacts
  <1>7. 1 \in DOMAIN WholeDatagram(f)
    BY <1>5, <1>6
  <1>8. WholeDatagram(f) # <<>>
    BY <1>7
  <1> QED BY <1>2, <1>3, <1>5, <1>8

-----------------------------------------------------------------------------
(* A fragmentList.                                                         *)

\* A nonempty set of numbers has a least one, and Min is it.
LEMMA LeastNumber ==
    ASSUME NEW S \in SUBSET Nat, S # {}
    PROVE  Min(S) \in S /\ \A j \in S : Min(S) <= j
  <1> DEFINE R == OpToRel(<, Nat)
  <1>1. IsWellFoundedOn(R, Nat)
    BY NatLessThanWellFounded
  <1>2. PICK i \in S : \A j \in S : ~(<<j, i>> \in R)
    <2> HIDE DEF R
    <2> QED BY <1>1, WFMin
  <1>3. \A j \in S : ~(j < i)
    BY <1>2 DEF OpToRel
  <1>4. \A j \in S : i <= j
    BY <1>3
  <1> QED BY <1>4 DEF Min

\* An element is put at place k of a sequence.
LEMMA Inserted ==
    ASSUME NEW S, NEW l \in Seq(S), NEW e \in S, NEW k \in 1..(Len(l) + 1), NEW m,
           m = InsertAt(l, k, e) \/ (m = Append(l, e) /\ k = Len(l) + 1)
    PROVE  /\ m \in Seq(S) /\ Len(m) = Len(l) + 1
           /\ \A i \in 1..Len(m) : m[i] = IF i < k THEN l[i] ELSE IF i = k THEN e ELSE l[i - 1]
           /\ ToSet(m) = ToSet(l) \cup {e}
  <1>1. /\ m \in Seq(S) /\ Len(m) = Len(l) + 1
        /\ \A i \in 1..Len(m) : m[i] = IF i < k THEN l[i] ELSE IF i = k THEN e ELSE l[i - 1]
    <2>1. CASE m = Append(l, e) /\ k = Len(l) + 1
      BY <2>1
    <2>2. CASE m = InsertAt(l, k, e)
      <3>1. PICK a, b : a = SubSeq(l, 1, k - 1) /\ b = SubSeq(l, k, Len(l))
        OBVIOUS
      <3>2. a \in Seq(S) /\ Len(a) = k - 1 /\ \A i \in 1..(k - 1) : a[i] = l[i]
        <4>1. \A i \in 1..(k - 1) : l[i] \in S
          OBVIOUS
        <4> QED BY <3>1, <4>1, SubSeqProperties
      <3>3. /\ b \in Seq(S) /\ Len(b) = Len(l) - k + 1
            /\ \A i \in 1..(Len(l) - k + 1) : b[i] = l[k + i - 1]
        <4>1. \A i \in k..Len(l) : l[i] \in S
          OBVIOUS
        <4> QED BY <3>1, <4>1, SubSeqProperties
      <3>4. PICK x : x = <<e>>
        OBVIOUS
      <3>5a. x \in Seq(S) /\ Len(x) = 1 /\ x[1] = e
        BY <3>4
      <3>5. PICK c : c = a \o x
        OBVIOUS
      <3>6. c \in Seq(S) /\ Len(c) = k /\ \A i \in 1..k : c[i] = IF i < k THEN l[i] ELSE e
        <4>1. /\ c \in Seq(S) /\ Len(c) = Len(a) + Len(x)
              /\ \A i \in 1..(Len(a) + Len(x)) : c[i] = IF i <= Len(a) THEN a[i] ELSE x[i - Len(a)]
          BY <3>2, <3>5, <3>5a, ConcatProperties
        <4>2. Len(c) = k /\ \A i \in 1..k : c[i] = IF i <= k - 1 THEN a[i] ELSE x[i - (k - 1)]
          BY <4>1, <3>2, <3>5a
        <4>3. ASSUME NEW i \in 1..k PROVE c[i] = IF i < k THEN l[i] ELSE e
          <5>1. CASE i < k
            BY <3>2, <4>2, <5>1
          <5>2. CASE i = k
            BY <3>5a, <4>2, <5>2
          <5> QED BY <5>1, <5>2
        <4> QED BY <4>1, <4>2, <4>3
      <3>7. m = c \o b
        BY <2>2, <3>1, <3>4, <3>5 DEF InsertAt
      <3>8. /\ m \in Seq(S) /\ Len(m) = Len(l) + 1
            /\ \A i \in 1..Len(m) : m[i] = IF i <= k THEN c[i] ELSE b[i - k]
        <4>1. /\ m \in Seq(S) /\ Len(m) = Len(c) + Len(b)
              /\ \A i \in 1..(Len(c) + Len(b)) : m[i] = IF i <= Len(c) THEN c[i] ELSE b[i - Len(c)]
          BY <3>3, <3>6, <3>7, ConcatProperties
        <4>2. Len(c) = k /\ Len(b) = Len(l) - k + 1 /\ Len(l) \in Nat
          BY <3>3, <3>6
        <4>3. Len(m) = Len(l) + 1
          BY <4>1, <4>2
        <4> QED BY <4>1, <4>2, <4>3
      <3>9. ASSUME NEW i \in 1..Len(m)
            PROVE  m[i] = IF i < k THEN l[i] ELSE IF i = k THEN e ELSE l[i - 1]
        <4>1. CASE i <= k
          BY <3>6, <3>8, <4>1
        <4>2. CASE i > k
          <5>1. i - k \in 1..(Len(l) - k + 1) /\ k + (i - k) - 1 = i - 1
            BY <3>8, <4>2
          <5>2. b[i - k] = l[k + (i - k) - 1]
            BY <3>3, <5>1
          <5> QED BY <3>8, <4>2, <5>1, <5>2
        <4> QED BY <4>1, <4>2
      <3> QED BY <3>8, <3>9
    <2> QED BY <2>1, <2>2
  <1>2. ToSet(m) \subseteq ToSet(l) \cup {e}
    <2> SUFFICES ASSUME NEW i \in 1..Len(m) PROVE m[i] \in ToSet(l) \cup {e}
      BY <1>1 DEF ToSet
    <2>1. m[i] = e \/ \E j \in 1..Len(l) : m[i] = l[j]
      BY <1>1
    <2> QED BY <2>1 DEF ToSet
  <1>3. e \in ToSet(m)
    <2>1. k \in DOMAIN m /\ m[k] = e
      BY <1>1
    <2> QED BY <2>1 DEF ToSet
  <1>4. ASSUME NEW i \in 1..Len(l) PROVE l[i] \in ToSet(m)
    <2>1. CASE i < k
      <3>1. i \in DOMAIN m /\ m[i] = l[i]
        BY <1>1, <2>1
      <3> QED BY <3>1 DEF ToSet
    <2>2. CASE i >= k
      <3>1. i + 1 \in DOMAIN m /\ m[i + 1] = l[i]
        BY <1>1, <2>2
      <3> QED BY <3>1 DEF ToSet
    <2> QED BY <2>1, <2>2
  <1>5. ToSet(l) \subseteq ToSet(m)
    <2>1. DOMAIN l = 1..Len(l)
      OBVIOUS
    <2> QED BY <1>4, <2>1 DEF ToSet
  <1> QED BY <1>1, <1>2, <1>3, <1>5

\* The parts of a list.
LEMMA ListFacts ==
    ASSUME NEW f \in Flows, NEW fl, Tallies(f, fl)
    PROVE  /\ fl \in FragmentList(f) /\ fl.List \in Seq(Listed(f)) /\ fl.Highest \in Nat
           /\ fl.Current \in Nat /\ fl.FinalReceived \in BOOLEAN /\ fl.LastSeen \in 0..MaxTime
           /\ DOMAIN fl.List = 1..Len(fl.List) /\ Len(fl.List) \in Nat
           /\ \A i \in 1..Len(fl.List) : /\ fl.List[i] \in Listed(f)
                                         /\ fl.List[i] \in Fragments[f]
                                         /\ fl.List[i] \in ToSet(fl.List)
           /\ ToSet(fl.List) \subseteq Listed(f) /\ ToSet(fl.List) \subseteq Fragments[f]
  <1>1. fl \in FragmentList(f)
    BY DEF Tallies
  <1>2. /\ fl.List \in Seq(Listed(f)) /\ fl.Highest \in Nat
        /\ fl.Current \in Nat /\ fl.FinalReceived \in BOOLEAN /\ fl.LastSeen \in 0..MaxTime
    BY <1>1 DEF FragmentList
  <1>3. DOMAIN fl.List = 1..Len(fl.List) /\ Len(fl.List) \in Nat
    BY <1>2
  <1>4. \A i \in 1..Len(fl.List) : fl.List[i] \in Listed(f)
    BY <1>2
  <1> QED BY <1>1, <1>2, <1>3, <1>4 DEF Listed, ToSet

\* The walk over the list stops at the first packet that is not before p.
LEMMA StopAt ==
    ASSUME NEW f \in Flows, NEW fl, Tallies(f, fl), NEW p \in Fragments[f], Stops(fl, p) # {}
    PROVE  LET k == Min(Stops(fl, p)) IN
           /\ k \in 1..Len(fl.List) /\ fl.List[k].FragOffset >= p.FragOffset
           /\ \A i \in 1..Len(fl.List) : i < k => fl.List[i].FragOffset < p.FragOffset
           /\ \A i \in 1..Len(fl.List) : i > k => fl.List[i].FragOffset > p.FragOffset
  <1> DEFINE k == Min(Stops(fl, p))
  <1>1. Stops(fl, p) \in SUBSET Nat
    BY ListFacts DEF Stops
  <1>2. k \in Stops(fl, p) /\ \A j \in Stops(fl, p) : k <= j
    BY <1>1, LeastNumber
  <1> HIDE DEF k
  <1>3. k \in 1..Len(fl.List) /\ fl.List[k].FragOffset >= p.FragOffset
    BY <1>2, ListFacts DEF Stops
  <1>4. ASSUME NEW i \in 1..Len(fl.List)
        PROVE  fl.List[i].FragOffset \in Nat /\ p.FragOffset \in Nat
    BY ListFacts, PacketFacts
  <1>5. ASSUME NEW i \in 1..Len(fl.List), i < k PROVE fl.List[i].FragOffset < p.FragOffset
    <2>1. i \notin Stops(fl, p)
      BY <1>2, <1>3, <1>5
    <2> QED BY <1>4, <2>1, ListFacts DEF Stops
  <1>6. ASSUME NEW i \in 1..Len(fl.List), i > k PROVE fl.List[i].FragOffset > p.FragOffset
    <2>1. fl.List[k].FragOffset < fl.List[i].FragOffset
      BY <1>3, <1>6, ListFacts DEF Tallies, Sorted
    <2> QED BY <1>3, <1>4, <2>1
  <1> QED BY <1>3, <1>5, <1>6 DEF k

\* A packet is a duplicate if and only if it is in the list.
LEMMA DuplicateIsListed ==
    ASSUME NEW f \in Flows, NEW fl, Tallies(f, fl), NEW p \in Fragments[f]
    PROVE  Duplicate(fl, p) <=> p \in ToSet(fl.List)
  <1>1. ASSUME Duplicate(fl, p) PROVE p \in ToSet(fl.List)
    <2>1. PICK k : k = Min(Stops(fl, p))
      OBVIOUS
    <2>2. k \in 1..Len(fl.List) /\ fl.List[k].FragOffset = p.FragOffset
      BY <1>1, <2>1, StopAt DEF Duplicate
    <2>3. fl.List[k] \in Fragments[f] /\ fl.List[k] \in ToSet(fl.List)
      BY <2>2, ListFacts
    <2> QED BY <2>2, <2>3, PacketOrder
  <1>2. ASSUME p \in ToSet(fl.List) PROVE Duplicate(fl, p)
    <2>1. PICK j \in 1..Len(fl.List) : p = fl.List[j]
      BY <1>2, ListFacts DEF ToSet
    <2>2. /\ fragOffset(p) = Off(p) /\ Off(p) < End(p) /\ Off(p) \in Nat /\ End(p) \in Nat
          /\ p.FragOffset \in Nat
      BY PacketFacts
    <2>3. End(p) <= fl.Highest /\ fl.Highest \in Nat
      BY <1>2, ListFacts DEF Tallies
    <2>4. j \in Stops(fl, p)
      BY <2>1, <2>2, ListFacts DEF Stops
    <2>5. PICK k : k = Min(Stops(fl, p))
      OBVIOUS
    <2>6. /\ k \in 1..Len(fl.List)
          /\ \A i \in 1..Len(fl.List) : i < k => fl.List[i].FragOffset < p.FragOffset
          /\ \A i \in 1..Len(fl.List) : i > k => fl.List[i].FragOffset > p.FragOffset
      BY <2>4, <2>5, StopAt
    <2>7. j = k
      BY <2>1, <2>2, <2>6
    <2> QED BY <2>1, <2>2, <2>3, <2>4, <2>5, <2>7 DEF Duplicate
  <1> QED BY <1>1, <1>2

\* place puts a packet that is not there where it belongs.
LEMMA Placed ==
    ASSUME NEW f \in Flows, NEW fl, Tallies(f, fl), NEW p \in Listed(f),
           p \notin ToSet(fl.List), NEW m, m = place(fl, p)
    PROVE  /\ m \in Seq(Listed(f)) /\ Len(m) = Len(fl.List) + 1 /\ Sorted(m)
           /\ ToSet(m) = ToSet(fl.List) \cup {p}
  <1> DEFINE l == fl.List
  <1>1. p \in Fragments[f] /\ p.FragOffset \in Nat /\ Off(p) \in Nat /\ fragOffset(p) = Off(p)
    BY PacketFacts DEF Listed
  <1>2. ASSUME NEW i \in 1..Len(l)
        PROVE  /\ l[i] \in Fragments[f] /\ l[i].FragOffset \in Nat /\ Off(l[i]) \in Nat
               /\ End(l[i]) \in Nat /\ Off(l[i]) < End(l[i]) /\ End(l[i]) <= fl.Highest
               /\ l[i].FragOffset # p.FragOffset
               /\ l[i].FragOffset < p.FragOffset <=> Off(l[i]) < Off(p)
    <2>1. l[i] \in Fragments[f] /\ l[i] \in ToSet(l) /\ l[i] # p
      BY ListFacts
    <2> QED BY <1>1, <2>1, PacketFacts, PacketOrder DEF Tallies
  <1>3. PICK k \in 1..(Len(l) + 1) :
            /\ m = InsertAt(l, k, p) \/ (m = Append(l, p) /\ k = Len(l) + 1)
            /\ \A i \in 1..Len(l) : i < k => l[i].FragOffset < p.FragOffset
            /\ \A i \in 1..Len(l) : i >= k => l[i].FragOffset > p.FragOffset
    <2>1. CASE fragOffset(p) >= fl.Highest
      <3>1. m = Append(l, p)
        BY <2>1 DEF place
      <3>2. \A i \in 1..Len(l) : l[i].FragOffset < p.FragOffset
        BY <1>1, <1>2, <2>1, ListFacts
      <3>3. Len(l) \in Nat
        BY ListFacts
      <3> QED BY <3>1, <3>2, <3>3
    <2>2. CASE ~(fragOffset(p) >= fl.Highest)
      <3>1. PICK q \in ToSet(l) : fl.Highest = End(q)
        BY <1>1, <2>2, ListFacts DEF Tallies
      <3>2. PICK j \in 1..Len(l) : q = l[j]
        BY <3>1, ListFacts DEF ToSet
      <3>3. ~(Off(q) < Off(p))
        BY <1>1, <1>2, <2>2, <3>1, <3>2, PacketOrder
      <3>4. j \in Stops(fl, p)
        BY <1>1, <1>2, <3>2, <3>3, ListFacts DEF Stops
      <3>5. PICK k : k = Min(Stops(fl, p))
        OBVIOUS
      <3>6. /\ k \in 1..Len(l) /\ l[k].FragOffset >= p.FragOffset
            /\ \A i \in 1..Len(l) : i < k => l[i].FragOffset < p.FragOffset
            /\ \A i \in 1..Len(l) : i > k => l[i].FragOffset > p.FragOffset
        BY <1>1, <3>4, <3>5, StopAt
      <3>7. l[k].FragOffset > p.FragOffset
        BY <1>1, <1>2, <3>6
      <3>8. m = InsertAt(l, k, p)
        BY <2>2, <3>4, <3>5 DEF place
      <3> QED BY <3>6, <3>7, <3>8, ListFacts
    <2> QED BY <2>1, <2>2
  <1>4. /\ m \in Seq(Listed(f)) /\ Len(m) = Len(l) + 1
        /\ \A i \in 1..Len(m) : m[i] = IF i < k THEN l[i] ELSE IF i = k THEN p ELSE l[i - 1]
        /\ ToSet(m) = ToSet(l) \cup {p}
    <2>1. l \in Seq(Listed(f))
      BY ListFacts
    <2> HIDE DEF l
    <2> QED BY <1>3, <2>1, Inserted
  <1>5. Sorted(m)
    <2> SUFFICES ASSUME NEW i \in 1..Len(m), NEW j \in 1..Len(m), i < j
                 PROVE  m[i].FragOffset < m[j].FragOffset
      BY <1>4 DEF Sorted
    <2>1. \A a, b \in 1..Len(l) : a < b => l[a].FragOffset < l[b].FragOffset
      BY ListFacts DEF Tallies, Sorted
    <2>2. Len(l) \in Nat
      BY ListFacts
    <2> HIDE DEF l
    <2>3. CASE j < k
      BY <1>4, <2>1, <2>2, <2>3
    <2>4. CASE j = k
      BY <1>3, <1>4, <2>2, <2>4
    <2>5. CASE i = k
      BY <1>3, <1>4, <2>2, <2>5
    <2>6. CASE i < k /\ k < j
      <3>1. i \in 1..Len(l) /\ j - 1 \in 1..Len(l) /\ i < j - 1
        BY <1>4, <2>2, <2>6
      <3> QED BY <1>4, <2>1, <2>6, <3>1
    <2>7. CASE k < i
      <3>1. i - 1 \in 1..Len(l) /\ j - 1 \in 1..Len(l) /\ i - 1 < j - 1
        BY <1>4, <2>2, <2>7
      <3>2. m[i] = l[i - 1] /\ m[j] = l[j - 1]
        BY <1>4, <2>7
      <3> QED BY <2>1, <3>1, <3>2
    <2> QED BY <2>3, <2>4, <2>5, <2>6, <2>7
  <1> QED BY <1>4, <1>5

\* There are n numbers below n.
LEMMA Below ==
    ASSUME NEW n \in Nat
    PROVE  IsFiniteSet(0..(n - 1)) /\ Cardinality(0..(n - 1)) = n
  <1>1. /\ IsFiniteSet(0..(n - 1))
        /\ Cardinality(0..(n - 1)) = IF 0 > n - 1 THEN 0 ELSE (n - 1) - 0 + 1
    BY FS_Interval
  <1> QED BY <1>1

\* The bytes of some packets of a datagram are finitely many, and a packet that
\* is not among them brings only new ones.
LEMMA CoverFacts ==
    ASSUME NEW f \in Flows, NEW S \in SUBSET Fragments[f]
    PROVE  /\ IsFiniteSet(Cover(S)) /\ Cardinality(Cover(S)) \in 0..(W - 1)
           /\ \A p \in Fragments[f] \ S :
                Cardinality(Cover(S \cup {p})) = Cardinality(Cover(S)) + (End(p) - Off(p))
  <1>1. PICK z : IsLast(f, z) /\ Cover(Fragments[f]) = 0..(End(z) - 1)
    BY Datagrams
  <1>2. End(z) \in Nat /\ End(z) < W /\ W \in Nat
    BY <1>1, PacketFacts, DefragAssumption DEF IsLast
  <1>3. /\ IsFiniteSet(0..(End(z) - 1)) /\ Cardinality(0..(End(z) - 1)) = End(z)
    BY <1>2, Below
  <1>4. ASSUME NEW T \in SUBSET Fragments[f]
        PROVE  IsFiniteSet(Cover(T)) /\ Cardinality(Cover(T)) \in 0..(W - 1)
    <2>1. Cover(T) \in SUBSET Cover(Fragments[f])
      BY DEF Cover
    <2>2. PICK A, B : A = Cover(Fragments[f]) /\ B = Cover(T)
      OBVIOUS
    <2>3. IsFiniteSet(A) /\ Cardinality(A) = End(z) /\ B \in SUBSET A
      BY <1>1, <1>3, <2>1, <2>2
    <2>4. IsFiniteSet(B) /\ Cardinality(B) <= End(z)
      BY <2>3, FS_Subset
    <2>5. Cardinality(B) \in Nat
      BY <2>4, FS_CardinalityType
    <2> QED BY <1>2, <2>2, <2>4, <2>5
  <1>5. ASSUME NEW p \in Fragments[f] \ S
        PROVE  Cardinality(Cover(S \cup {p})) = Cardinality(Cover(S)) + (End(p) - Off(p))
    <2>1. Cover(S \cup {p}) = Cover(S) \cup Span(p)
      BY DEF Cover
    <2>2. ASSUME NEW x \in Cover(S), x \in Span(p) PROVE FALSE
      <3>1. PICK q \in S : x \in Span(q)
        BY DEF Cover
      <3>2. p # q /\ q \in Fragments[f]
        OBVIOUS
      <3>3. Span(p) \intersect Span(q) = {}
        BY <3>2, DefragAssumption DEF CutUp
      <3> QED BY <2>2, <3>1, <3>3
    <2>3. Cover(S) \cap Span(p) = {}
      BY <2>2
    <2>4. /\ Span(p) = Off(p)..(End(p) - 1) /\ Off(p) \in Nat /\ End(p) \in Nat
          /\ Off(p) < End(p)
      BY PacketFacts
    <2>5. IsFiniteSet(Span(p)) /\ Cardinality(Span(p)) = End(p) - Off(p)
      BY <2>4, FS_Interval
    <2>6. IsFiniteSet(Cover(S)) /\ Cardinality(Cover(S)) \in Nat
      BY <1>4, FS_CardinalityType
    <2>7. Cardinality(Cover(S) \cup Span(p))
              = Cardinality(Cover(S)) + Cardinality(Span(p)) - Cardinality({})
      BY <2>3, <2>5, <2>6, FS_Union
    <2>8. Cardinality({}) = 0
      BY FS_EmptySet
    <2>9. ASSUME NEW a \in Nat, NEW b \in Int PROVE a + b - 0 = a + b
      OBVIOUS
    <2>10. Cardinality(Cover(S) \cup Span(p)) = Cardinality(Cover(S)) + (End(p) - Off(p))
      BY <2>4, <2>5, <2>6, <2>7, <2>8, <2>9
    <2> QED BY <2>1, <2>10
  <1> QED BY <1>4, <1>5

\* A new list is one of any flow.
LEMMA NewListTallies ==
    ASSUME NEW f \in Flows
    PROVE  Tallies(f, NewList) /\ NewList.List = <<>> /\ ToSet(NewList.List) = {}
  <1>1. NewList.List = <<>> /\ NewList.Highest = 0 /\ NewList.Current = 0
        /\ NewList.FinalReceived = FALSE
    BY DEF NewList
  <1>2. <<>> \in Seq(Listed(f)) /\ DOMAIN (<<>>) = {}
    OBVIOUS
  <1>3. ToSet(NewList.List) = {}
    BY <1>1, <1>2 DEF ToSet
  <1>4. NewList \in FragmentList(f)
    BY <1>2, DefragAssumption DEF NewList, FragmentList
  <1>5. Cover({}) = {}
    BY DEF Cover
  <1> QED BY <1>1, <1>2, <1>3, <1>4, <1>5, FS_EmptySet DEF Tallies, Sorted

\* insert adds the packet, once, and counts it.
LEMMA InsertTallies ==
    ASSUME NEW f \in Flows, NEW fl, Tallies(f, fl), NEW p \in Listed(f), NEW t \in Times,
           NEW new, new = insert(fl, p, t)
    PROVE  /\ Tallies(f, new) /\ ToSet(new.List) = ToSet(fl.List) \cup {p} /\ new.List # <<>>
           /\ Duplicate(fl, p) => new = fl
           /\ ~Duplicate(fl, p) => Len(new.List) = Len(fl.List) + 1
  <1>1. p \in Fragments[f]
    BY DEF Listed
  <1>2. CASE Duplicate(fl, p)
    <2>1. new = fl /\ p \in ToSet(fl.List)
      BY <1>1, <1>2, DuplicateIsListed DEF insert
    <2>2. fl.List # <<>>
      BY <1>2, ListFacts DEF Duplicate, Stops
    <2> QED BY <1>2, <2>1, <2>2
  <1>3. CASE ~Duplicate(fl, p)
    <2> DEFINE S == ToSet(fl.List)
               end == (fragOffset(p) + fragLength(p)) % W
    <2>1. p \notin S /\ S \in SUBSET Fragments[f]
      BY <1>1, <1>3, DuplicateIsListed, ListFacts
    <2>2. PICK m : m = place(fl, p)
      OBVIOUS
    <2>3. /\ m \in Seq(Listed(f)) /\ Len(m) = Len(fl.List) + 1 /\ Sorted(m)
          /\ ToSet(m) = S \cup {p}
      BY <2>1, <2>2, Placed
    <2>4. /\ end = End(p) /\ fragLength(p) = End(p) - Off(p) /\ End(p) \in Nat /\ Off(p) \in Nat
          /\ Off(p) < End(p) /\ p.MF \in BOOLEAN
      BY <1>1, PacketFacts
    <2>5. PICK c \in Nat : /\ c = (fl.Current + fragLength(p)) % W
                           /\ c = Cardinality(Cover(S \cup {p}))
      <3>1. fl.Current = Cardinality(Cover(S)) /\ fl.Current \in Nat /\ W \in Nat \ {0}
        BY ListFacts, DefragAssumption DEF Tallies
      <3>2. Cardinality(Cover(S \cup {p})) = fl.Current + fragLength(p)
        BY <1>1, <2>1, <2>4, <3>1, CoverFacts
      <3>3. Cardinality(Cover(S \cup {p})) \in 0..(W - 1)
        BY <1>1, <2>1, CoverFacts
      <3>4. ASSUME NEW x \in 0..(W - 1) PROVE x % W = x
        BY <3>1
      <3> QED BY <3>1, <3>2, <3>3, <3>4
    <2>6. PICK h \in Nat : /\ h = IF fl.Highest < end THEN end ELSE fl.Highest
                           /\ h >= End(p) /\ h >= fl.Highest /\ (h = End(p) \/ h = fl.Highest)
      BY <2>4, ListFacts
    <2>7. PICK r \in BOOLEAN : r = (fl.FinalReceived \/ ~p.MF)
      BY ListFacts
    <2>8. new = [List |-> m, Highest |-> h, Current |-> c, FinalReceived |-> r, LastSeen |-> t]
      BY <1>3, <2>2, <2>5, <2>6, <2>7 DEF insert
    <2>9. new \in FragmentList(f)
      BY <2>3, <2>5, <2>6, <2>7, <2>8 DEF FragmentList, Times
    <2>10. /\ new.List = m /\ new.Highest = h /\ new.Current = c /\ new.FinalReceived = r
      BY <2>8
    <2>11. ASSUME NEW q \in ToSet(m) PROVE End(q) <= h
      <3>1. q = p \/ (q \in S /\ End(q) <= fl.Highest)
        BY <2>3 DEF Tallies
      <3>2. End(q) \in Nat /\ fl.Highest \in Nat
        BY <1>1, <2>1, <3>1, PacketFacts, ListFacts
      <3> QED BY <2>4, <2>6, <3>1, <3>2
    <2>12. h = 0 \/ \E q \in ToSet(m) : h = End(q)
      BY <2>3, <2>4, <2>6 DEF Tallies
    <2>13. r <=> \E q \in ToSet(m) : ~q.MF
      BY <2>3, <2>7 DEF Tallies
    <2>14. m # <<>>
      BY <2>3, ListFacts
    <2> QED BY <1>3, <2>3, <2>5, <2>9, <2>10, <2>11, <2>12, <2>13, <2>14 DEF Tallies
  <1> QED BY <1>2, <1>3

\* The counters of a list are equal, and the last packet was seen, exactly when
\* all packets of the datagram are there.
LEMMA ReadyIsAll ==
    ASSUME NEW f \in Flows, NEW fl, Tallies(f, fl)
    PROVE  Ready(fl) <=> ToSet(fl.List) = Fragments[f]
  <1> DEFINE S == ToSet(fl.List)
  <1>1. PICK z : /\ IsLast(f, z) /\ Cover(Fragments[f]) = 0..(End(z) - 1)
                 /\ \A p \in Fragments[f] : End(p) <= End(z)
    BY Datagrams
  <1>2. z \in Fragments[f] /\ End(z) \in Nat /\ Off(z) \in Nat /\ Off(z) < End(z)
    BY <1>1, PacketFacts DEF IsLast
  <1>3. S \subseteq Fragments[f] /\ fl.Highest \in Nat /\ fl.Current = Cardinality(Cover(S))
    BY ListFacts DEF Tallies
  <1>4. fl.FinalReceived <=> z \in S
    <2>1. \A q \in S : ~q.MF <=> q = z
      BY <1>1, <1>3 DEF IsLast
    <2> QED BY <2>1 DEF Tallies
  <1>5. z \in S => fl.Highest = End(z)
    <2> HAVE z \in S
    <2>1. End(z) <= fl.Highest
      BY DEF Tallies
    <2>2. fl.Highest = 0 \/ \E q \in S : fl.Highest = End(q)
      BY DEF Tallies
    <2> QED BY <1>1, <1>2, <1>3, <2>1, <2>2
  <1>6. IsFiniteSet(0..(End(z) - 1)) /\ Cardinality(0..(End(z) - 1)) = End(z)
    BY <1>2, Below
  <1>7. ASSUME S = Fragments[f] PROVE Ready(fl)
    BY <1>1, <1>2, <1>3, <1>4, <1>5, <1>6, <1>7 DEF Ready
  <1>8. ASSUME Ready(fl) PROVE S = Fragments[f]
    <2>1. z \in S /\ Cardinality(Cover(S)) = End(z)
      BY <1>3, <1>4, <1>5, <1>8 DEF Ready
    <2>2. Cover(S) \in SUBSET (0..(End(z) - 1))
      BY <1>1, <1>3 DEF Cover
    <2>3. Cover(S) = 0..(End(z) - 1)
      BY <1>6, <2>1, <2>2, FS_Subset
    <2>4. ASSUME NEW p \in Fragments[f] PROVE p \in S
      <3>1. Off(p) \in Span(p) /\ Off(p) \in Nat /\ Off(p) < End(p) /\ End(p) \in Nat
        BY PacketFacts
      <3>2. Off(p) \in Cover(S)
        BY <1>1, <1>2, <2>3, <3>1
      <3>3. PICK q \in S : Off(p) \in Span(q)
        BY <3>2 DEF Cover
      <3>4. p # q => Span(p) \intersect Span(q) = {}
        BY <1>3, DefragAssumption DEF CutUp
      <3> QED BY <3>1, <3>3, <3>4
    <2> QED BY <1>3, <2>4
  <1> QED BY <1>7, <1>8

\* A complete list leaves no gap: each packet starts where the one before ends.
LEMMA Contiguous ==
    ASSUME NEW f \in Flows, NEW fl, Tallies(f, fl), ToSet(fl.List) = Fragments[f]
    PROVE  LET l == fl.List IN
           /\ Len(l) \in Nat \ {0} /\ Off(l[1]) = 0
           /\ \A i \in 1..(Len(l) - 1) : Off(l[i + 1]) = End(l[i])
           /\ WholeDatagram(f) = [x \in 1..End(l[Len(l)]) |-> x - 1]
           /\ WholeDatagram(f) # <<>>
  <1> DEFINE l == fl.List
  <1>1. PICK z : /\ IsLast(f, z) /\ Cover(Fragments[f]) = 0..(End(z) - 1)
                 /\ \A p \in Fragments[f] : End(p) <= End(z)
                 /\ WholeDatagram(f) = [x \in 1..End(z) |-> x - 1] /\ WholeDatagram(f) # <<>>
    BY Datagrams
  <1>2. z \in Fragments[f] /\ End(z) \in Nat /\ Off(z) \in Nat /\ Off(z) < End(z)
    BY <1>1, PacketFacts DEF IsLast
  <1>3. DOMAIN l = 1..Len(l) /\ Len(l) \in Nat
    BY ListFacts
  <1>4. ASSUME NEW i \in 1..Len(l)
        PROVE  /\ l[i] \in Fragments[f] /\ Off(l[i]) \in Nat /\ End(l[i]) \in Nat
               /\ Off(l[i]) < End(l[i]) /\ End(l[i]) <= End(z)
               /\ Span(l[i]) = Off(l[i])..(End(l[i]) - 1)
    BY <1>1, ListFacts, PacketFacts
  <1>5. ASSUME NEW i \in 1..Len(l), NEW j \in 1..Len(l), i < j
        PROVE  Off(l[i]) < Off(l[j]) /\ End(l[i]) <= Off(l[j])
    <2>1. l[i].FragOffset < l[j].FragOffset
      BY <1>3, <1>5 DEF Tallies, Sorted
    <2> QED BY <1>4, <2>1, PacketOrder
  <1>6. ASSUME NEW x \in 0..(End(z) - 1)
        PROVE  \E i \in 1..Len(l) : Off(l[i]) <= x /\ x < End(l[i])
    <2>1. PICK q \in ToSet(l) : x \in Span(q)
      BY <1>1 DEF Cover
    <2>2. PICK i \in 1..Len(l) : q = l[i]
      BY <1>3, <2>1 DEF ToSet
    <2> QED BY <1>4, <2>1, <2>2
  <1>7. PICK e \in 1..Len(l) : l[e] = z
    BY <1>2, <1>3 DEF ToSet
  <1> HIDE DEF l
  <1>8. Len(l) \in Nat \ {0}
    BY <1>3, <1>7
  <1>9. Off(l[1]) = 0
    <2>1. PICK i \in 1..Len(l) : Off(l[i]) <= 0 /\ 0 < End(l[i])
      BY <1>2, <1>6
    <2>2. 1 \in 1..Len(l)
      BY <1>8
    <2>3. CASE i = 1
      BY <1>4, <2>1, <2>3
    <2>4. CASE i > 1
      BY <1>4, <1>5, <2>1, <2>2, <2>4
    <2> QED BY <2>3, <2>4
  <1>10. ASSUME NEW i \in 1..(Len(l) - 1) PROVE Off(l[i + 1]) = End(l[i])
    <2>1. i \in 1..Len(l) /\ i + 1 \in 1..Len(l) /\ i < i + 1
      BY <1>3
    <2>2. End(l[i]) <= Off(l[i + 1]) /\ Off(l[i + 1]) < End(z)
      BY <1>2, <1>4, <1>5, <2>1
    <2>3. ASSUME End(l[i]) < Off(l[i + 1]) PROVE FALSE
      <3>a. End(l[i]) \in Nat /\ Off(l[i + 1]) \in Nat
        BY <1>4, <2>1
      <3>1. End(l[i]) \in 0..(End(z) - 1)
        BY <1>2, <2>2, <3>a
      <3>2. PICK j \in 1..Len(l) : Off(l[j]) <= End(l[i]) /\ End(l[i]) < End(l[j])
        BY <1>6, <3>1
      <3>3. ~(j < i)
        BY <1>4, <1>5, <2>1, <3>2
      <3>4. ~(j > i + 1)
        BY <1>4, <1>5, <2>1, <2>3, <3>2
      <3>5. j # i
        <4>1. j = i => End(l[i]) < End(l[i])
          BY <3>2
        <4> QED BY <3>a, <4>1
      <3>6. j # i + 1
        <4>1. j = i + 1 => Off(l[i + 1]) <= End(l[i])
          BY <3>2
        <4> QED BY <2>3, <3>a, <4>1
      <3> QED BY <3>3, <3>4, <3>5, <3>6
    <2> QED BY <1>4, <2>1, <2>2, <2>3
  <1>11. e = Len(l)
    <2>1. ASSUME e < Len(l) PROVE FALSE
      <3>1. Len(l) \in 1..Len(l)
        BY <1>8
      <3> QED BY <1>2, <1>4, <1>5, <1>7, <2>1, <3>1
    <2> QED BY <1>7, <1>8, <2>1
  <1> QED BY <1>1, <1>7, <1>8, <1>9, <1>10, <1>11 DEF l

\* Two sequences of consecutive positions make a longer one.
LEMMA Consecutive ==
    ASSUME NEW a \in Nat, NEW b \in Nat, a <= b
    PROVE  [x \in 1..a |-> x - 1] \o [x \in 1..(b - a) |-> a + x - 1] = [x \in 1..b |-> x - 1]
  <1> DEFINE s == [x \in 1..a |-> x - 1]
             t == [x \in 1..(b - a) |-> a + x - 1]
             r == [x \in 1..b |-> x - 1]
  <1>1. s \in Seq(Int) /\ t \in Seq(Int) /\ Len(s) = a /\ Len(t) = b - a
    OBVIOUS
  <1>2. s \o t = [x \in 1..(Len(s) + Len(t)) |-> IF x <= Len(s) THEN s[x] ELSE t[x - Len(s)]]
    BY <1>1 DEF \o
  <1>3. s \o t = [x \in 1..b |-> IF x <= a THEN s[x] ELSE t[x - a]]
    BY <1>1, <1>2
  <1>4. ASSUME NEW x \in 1..b PROVE (IF x <= a THEN s[x] ELSE t[x - a]) = x - 1
    OBVIOUS
  <1> QED BY <1>3, <1>4

\* build puts a complete list together.
LEMMA BuildsWhole ==
    ASSUME NEW f \in Flows, NEW fl, Tallies(f, fl), ToSet(fl.List) = Fragments[f]
    PROVE  build(fl) = WholeDatagram(f)
  <1> DEFINE l == fl.List
             n == Len(fl.List)
             Start == [ok |-> TRUE, final |-> <<>>, next |-> 0]
             Loop(h) == [i \in 0..n |-> IF i = 0 THEN Start ELSE buildStep(h[i - 1], fl.List[i])]
             after == CHOOSE h : h = Loop(h)
             E(i) == IF i = 0 THEN 0 ELSE End(l[i])
             State(i) == [ok |-> TRUE, final |-> [x \in 1..E(i) |-> x - 1], next |-> E(i)]
             g == [i \in 0..n |-> State(i)]
  <1>1. build(fl) = LET end == after[n] IN IF end.ok THEN end.final ELSE <<>>
    BY DEF build
  <1>2. /\ n \in Nat \ {0} /\ Off(l[1]) = 0
        /\ \A i \in 1..(n - 1) : Off(l[i + 1]) = End(l[i])
        /\ WholeDatagram(f) = [x \in 1..End(l[n]) |-> x - 1]
    BY Contiguous
  <1>3. ASSUME NEW i \in 1..n
        PROVE  /\ E(i) \in Nat /\ E(i) < W /\ E(i - 1) \in Nat /\ E(i - 1) < E(i)
               /\ fragOffset(l[i]) = E(i - 1) /\ fragLength(l[i]) = E(i) - E(i - 1)
               /\ (E(i - 1) + fragLength(l[i])) % W = E(i)
               /\ Payload(l[i]) = [x \in 1..(E(i) - E(i - 1)) |-> E(i - 1) + x - 1]
    <2>1. l[i] \in Fragments[f]
      BY ListFacts
    <2>2. Off(l[i]) = E(i - 1)
      <3>1. CASE i = 1
        BY <1>2, <3>1
      <3>2. CASE i > 1
        <4>1. i - 1 \in 1..(n - 1) /\ (i - 1) + 1 = i
          BY <1>2, <3>2
        <4> QED BY <1>2, <4>1
      <3> QED BY <1>2, <3>1, <3>2
    <2>3. E(i) = End(l[i])
      BY <1>2
    <2> HIDE DEF E, l
    <2> QED BY <2>1, <2>2, <2>3, PacketFacts
  <1>4. State(0) = Start
    OBVIOUS
  <1>5. ASSUME NEW i \in 1..n PROVE buildStep(State(i - 1), l[i]) = State(i)
    <2> DEFINE a == E(i - 1)
               b == E(i)
    <2>1. /\ a \in Nat /\ b \in Nat /\ a <= b /\ fragOffset(l[i]) = a
          /\ (a + fragLength(l[i])) % W = b
          /\ Payload(l[i]) = [x \in 1..(b - a) |-> a + x - 1]
      BY <1>3
    <2> HIDE DEF a, b, E, l
    <2>2. [x \in 1..a |-> x - 1] \o Payload(l[i]) = [x \in 1..b |-> x - 1]
      BY <2>1, Consecutive
    <2>3. State(i - 1) = [ok |-> TRUE, final |-> [x \in 1..a |-> x - 1], next |-> a]
      BY DEF a
    <2>4. State(i) = [ok |-> TRUE, final |-> [x \in 1..b |-> x - 1], next |-> b]
      BY DEF b
    <2> HIDE DEF State
    <2>5. State(i - 1).ok /\ State(i - 1).next = a /\ State(i - 1).final = [x \in 1..a |-> x - 1]
      <3>1. PICK w : w = [x \in 1..a |-> x - 1]
        OBVIOUS
      <3>2. State(i - 1) = [ok |-> TRUE, final |-> w, next |-> a]
        BY <2>3, <3>1
      <3>3. State(i - 1).ok = TRUE /\ State(i - 1).next = a /\ State(i - 1).final = w
        BY <3>2
      <3>4. State(i - 1).ok
        BY <3>3
      <3> QED BY <3>1, <3>3, <3>4
    <2>6. buildStep(State(i - 1), l[i])
              = [ok |-> TRUE, final |-> State(i - 1).final \o Payload(l[i]),
                 next |-> (State(i - 1).next + fragLength(l[i])) % W]
      BY <2>1, <2>5 DEF buildStep
    <2> QED BY <2>1, <2>2, <2>4, <2>5, <2>6
  <1> HIDE DEF State, Start, E
  <1>6. g = Loop(g)
    <2>1. ASSUME NEW i \in 0..n
          PROVE  State(i) = IF i = 0 THEN Start ELSE buildStep(g[i - 1], fl.List[i])
      <3>1. CASE i = 0
        BY <1>4, <3>1
      <3>2. CASE i # 0
        <4>1. i \in 1..n /\ i - 1 \in 0..n
          BY <1>2, <3>2
        <4>2. g[i - 1] = State(i - 1)
          BY <4>1
        <4> QED BY <1>5, <3>2, <4>1, <4>2
      <3> QED BY <3>1, <3>2
    <2> QED BY <2>1
  <1>7. after = Loop(after)
    <2> HIDE DEF g, Loop
    <2> QED BY <1>6
  <1> HIDE DEF after
  <1>8. ASSUME NEW i \in 0..n PROVE after[i] = State(i)
    <2> DEFINE Bad == {j \in 0..n : after[j] # State(j)}
    <2> SUFFICES ASSUME Bad # {} PROVE FALSE
      OBVIOUS
    <2>1. Bad \in SUBSET Nat
      BY <1>2
    <2>2. PICK j : j \in Bad /\ \A k \in Bad : j <= k
      <3> HIDE DEF Bad
      <3> QED BY <2>1, LeastNumber
    <2>3. j \in 0..n /\ after[j] # State(j)
      BY <2>2
    <2>4. after[j] = IF j = 0 THEN Start ELSE buildStep(after[j - 1], fl.List[j])
      BY <1>7, <2>3
    <2>5. j \in 1..n /\ j - 1 \in 0..n /\ j - 1 \notin Bad
      BY <1>2, <1>4, <2>2, <2>3, <2>4
    <2>6. after[j - 1] = State(j - 1)
      BY <2>5
    <2> QED BY <1>5, <2>3, <2>4, <2>5, <2>6
  <1>9. after[n].ok /\ after[n].final = [x \in 1..E(n) |-> x - 1] /\ E(n) = End(l[n])
    <2>1. after[n] = State(n)
      BY <1>2, <1>8
    <2> QED BY <1>2, <2>1 DEF State, E
  <1> HIDE DEF l, n
  <1> QED BY <1>1, <1>2, <1>9

\* What a call returns: the datagram, when it brings the last missing packet.
LEMMA Results ==
    ASSUME NEW f \in Flows, NEW fl, Tallies(f, fl), ToSet(fl.List) # Fragments[f],
           NEW p \in Listed(f), NEW t \in Times, NEW new, new = insert(fl, p, t)
    PROVE  result(fl, p, t) = IF ToSet(new.List) = Fragments[f] THEN WholeDatagram(f) ELSE <<>>
  <1>1. Tallies(f, new) /\ (Duplicate(fl, p) => new = fl)
    BY InsertTallies
  <1>2. Ready(new) <=> ToSet(new.List) = Fragments[f]
    BY <1>1, ReadyIsAll
  <1>3. ToSet(new.List) = Fragments[f] => build(new) = WholeDatagram(f)
    BY <1>1, BuildsWhole
  <1> QED BY <1>1, <1>2, <1>3 DEF result

-----------------------------------------------------------------------------
(* The steps of the defragmenter.                                          *)

\* A packet that is passed through is a datagram of its own.
LEMMA Alone ==
    ASSUME NEW f \in Flows, NEW p \in Fragments[f], dontDefrag(p)
    PROVE  Fragments[f] = {p} /\ Listed(f) = {} /\ Payload(p) = WholeDatagram(f)
  <1>1. PICK z : /\ IsLast(f, z) /\ Cover(Fragments[f]) = 0..(End(z) - 1)
                 /\ \A q \in Fragments[f] : End(q) <= End(z)
                 /\ WholeDatagram(f) = [x \in 1..End(z) |-> x - 1]
    BY Datagrams
  <1>2. Fragments[f] = {p}
    <2>1. CASE p.DF
      BY <2>1, DefragAssumption DEF CutUp
    <2>2. CASE ~p.MF /\ p.FragOffset = 0
      <3>1. p = z /\ Off(p) = 0
        BY <1>1, <2>2, DefragAssumption DEF IsLast, Off
      <3>2. ASSUME NEW q \in Fragments[f] PROVE q = p
        <4>1. /\ Off(q) \in Nat /\ End(q) \in Nat /\ Off(q) < End(q) /\ End(q) <= End(p)
              /\ End(p) \in Nat /\ p.FragOffset \in Nat /\ q.FragOffset \in Nat
          BY <1>1, <3>1, PacketFacts
        <4>2. ~(Off(p) < Off(q))
          BY <4>1, <3>1, PacketOrder
        <4>3. Off(q) = Off(p)
          BY <3>1, <4>1, <4>2
        <4> QED BY <3>1, <4>1, <4>2, <4>3, PacketOrder
      <3> QED BY <3>2
    <2> QED BY <2>1, <2>2 DEF dontDefrag
  <1>3. Listed(f) = {}
    BY <1>2 DEF Listed
  <1>4. p = z /\ Span(p) = 0..(End(p) - 1)
    BY <1>1, <1>2 DEF IsLast, Cover
  <1>5. /\ Off(p) \in Nat /\ End(p) \in Nat /\ Off(p) < End(p) /\ Span(p) = Off(p)..(End(p) - 1)
        /\ Payload(p) = [i \in 1..(End(p) - Off(p)) |-> Off(p) + i - 1]
    BY PacketFacts
  <1>6. 0 \in Off(p)..(End(p) - 1)
    BY <1>4, <1>5
  <1>7. Off(p) = 0
    BY <1>5, <1>6
  <1>8. End(p) - 0 = End(p) /\ \A i \in Int : 0 + i - 1 = i - 1
    BY <1>5
  <1>9. Payload(p) = [i \in 1..End(p) |-> i - 1]
    BY <1>5, <1>7, <1>8
  <1> QED BY <1>1, <1>2, <1>3, <1>4, <1>9

\* The calls cs are about packets of the flows that their goroutines are fed.
Fed(cs) == \A d \in Callers : cs[d].pc # "idle" => cs[d].f \in feeds[d]

\* What the assumption says of the flows and the goroutines.
LEMMA Feeding ==
    ASSUME DefragInv, NEW c \in Callers, NEW f \in feeds[c]
    PROVE  f \in Flows /\ \A d \in Callers : f \in feeds[d] => d = c
  BY DefragAssumption DEF DefragInv

\* A flow is in the hands of the goroutine that it is fed to, or of nobody.
LEMMA Holder ==
    ASSUME DefragInv, NEW c \in Callers, NEW f \in feeds[c], NEW cs, Fed(cs)
    PROVE  /\ (\E d \in Callers : cs[d].pc = "flush" /\ cs[d].f = f)
                 <=> cs[c].pc = "flush" /\ cs[c].f = f
           /\ f \in {cs[d].f : d \in {e \in Callers : cs[e].pc # "idle"}}
                 <=> cs[c].pc # "idle" /\ cs[c].f = f
           /\ f \in {cs[d].f : d \in {e \in Callers : cs[e].pc = "insert"}}
                 <=> cs[c].pc = "insert" /\ cs[c].f = f
  <1>1. \A d \in Callers : cs[d].pc # "idle" /\ cs[d].f = f => d = c
    BY Feeding DEF Fed
  <1>2. "flush" # "idle" /\ "insert" # "idle"
    OBVIOUS
  <1> QED BY <1>1, <1>2

\* The parts of a call.
LEMMA CallFacts ==
    ASSUME DefragInv
    PROVE  /\ Fed(calls)
           /\ \A c \in Callers : calls[c].pc \in {"idle", "insert", "flush"}
           /\ \A c \in Callers : calls[c].pc # "idle" =>
                 /\ calls[c].f \in feeds[c] /\ calls[c].p \in Listed(calls[c].f)
                 /\ calls[c].t \in Times
                 /\ calls[c] = [pc |-> calls[c].pc, f |-> calls[c].f,
                                p |-> calls[c].p, t |-> calls[c].t]
  <1>1. Idle.pc = "idle"
    BY DEF Idle
  <1>2. ASSUME NEW c \in Callers
        PROVE  /\ calls[c].pc \in {"idle", "insert", "flush"}
               /\ calls[c].pc # "idle" =>
                     /\ calls[c].f \in feeds[c] /\ calls[c].p \in Listed(calls[c].f)
                     /\ calls[c].t \in Times
                     /\ calls[c] = [pc |-> calls[c].pc, f |-> calls[c].f,
                                    p |-> calls[c].p, t |-> calls[c].t]
    <2>1. CASE calls[c] = Idle
      BY <1>1, <2>1
    <2>2. CASE Call(c)
      BY <2>2 DEF Call
    <2> QED BY <2>1, <2>2 DEF DefragInv
  <1> QED BY <1>2 DEF Fed

\* All but flow f is as it was.
Aside(f) ==
    \A x \in Flows \ {f} :
        /\ lists'[x] = lists[x] /\ returned'[x] = returned[x]
        /\ Done(x)' <=> Done(x)
        /\ x \in Held' <=> x \in Held
        /\ x \in ipFlows' <=> x \in ipFlows

\* The flow of a call is the only one that its end or its beginning concerns.
LEMMA OtherCalls ==
    ASSUME DefragInv, NEW c \in Callers, NEW f \in feeds[c], NEW v,
           calls' = [calls EXCEPT ![c] = v],
           calls[c].pc # "idle" => calls[c].f = f, v.pc # "idle" => v.f = f,
           feeds' = feeds
    PROVE  /\ \A x \in Flows \ {f} : (Done(x)' <=> Done(x)) /\ (x \in Held' <=> x \in Held)
           /\ Done(f)' <=> v.pc = "flush"
           /\ f \in Held' <=> v.pc # "idle"
           /\ DOMAIN calls' = Callers /\ calls' = [d \in Callers |-> calls'[d]]
           /\ calls'[c] = v /\ \A d \in Callers \ {c} : calls'[d] = calls[d]
  <1>1. calls = [d \in Callers |-> calls[d]]
    BY DEF DefragInv
  <1>2. /\ DOMAIN calls' = Callers /\ calls' = [d \in Callers |-> calls'[d]]
        /\ calls'[c] = v /\ \A d \in Callers \ {c} : calls'[d] = calls[d]
    BY <1>1
  <1>3. PICK cs : cs = calls'
    OBVIOUS
  <1>4. Fed(cs)
    <2> SUFFICES ASSUME NEW d \in Callers, cs[d].pc # "idle" PROVE cs[d].f \in feeds[d]
      BY DEF Fed
    <2> QED BY <1>2, <1>3, CallFacts
  <1>5. "flush" # "idle"
    OBVIOUS
  <1>6. (Done(f)' <=> v.pc = "flush") /\ (f \in Held' <=> v.pc # "idle")
    BY <1>2, <1>3, <1>4, <1>5, Holder DEF Done, Held
  <1>7. ASSUME NEW x \in Flows \ {f}
        PROVE  (Done(x)' <=> Done(x)) /\ (x \in Held' <=> x \in Held)
    BY <1>2, <1>5 DEF Done, Held
  <1> QED BY <1>2, <1>6, <1>7

\* It is enough to look at the flow that a step concerns.
LEMMA StepAt ==
    ASSUME DefragInv, NEW f \in Flows, Aside(f), feeds' = feeds,
           ipFlows' \subseteq Flows,
           lists' = [x \in Flows |-> lists'[x]], returned' = [x \in Flows |-> returned'[x]],
           calls' = [d \in Callers |-> calls'[d]],
           \A d \in Callers : calls'[d] = Idle \/ Call(d)',
           Tallies(f, lists'[f]), Len(lists'[f].List) <= IPv4MaximumFragmentListLen,
           Outcome(f)',
           f \in Held' \/ (IF f \in ipFlows' THEN lists'[f].List # <<>> ELSE lists'[f] = NewList)
    PROVE  /\ DefragInv'
           /\ \A x \in Flows \ {f} : Kept(x)' = Kept(x)
  <1>1. ASSUME NEW x \in Flows \ {f}
        PROVE  /\ Tallies(x, lists'[x]) /\ Len(lists'[x].List) <= IPv4MaximumFragmentListLen
               /\ Outcome(x)' /\ Kept(x)' = Kept(x)
               /\ x \in Held'
                    \/ (IF x \in ipFlows' THEN lists'[x].List # <<>> ELSE lists'[x] = NewList)
    <2>1. /\ lists'[x] = lists[x] /\ returned'[x] = returned[x] /\ (Done(x)' <=> Done(x))
          /\ x \in Held' <=> x \in Held
          /\ x \in ipFlows' <=> x \in ipFlows
      BY DEF Aside
    <2>2. All(x)' <=> All(x)
      BY <2>1 DEF All
    <2>3. Outcome(x)' <=> Outcome(x)
      BY <2>1, <2>2 DEF Outcome
    <2>4. Kept(x)' = Kept(x)
      BY <2>1 DEF Kept, Built
    <2> QED BY <2>1, <2>3, <2>4 DEF DefragInv
  <1>2. feeds' \in Feedings
    BY DEF DefragInv
  <1> QED BY <1>1, <1>2 DEF DefragInv

\* What the invariant says of one flow.
LEMMA FlowFacts ==
    ASSUME DefragInv, NEW f \in Flows
    PROVE  /\ Tallies(f, lists[f]) /\ Len(lists[f].List) <= IPv4MaximumFragmentListLen
           /\ Outcome(f)
           /\ f \in Held \/ (IF f \in ipFlows THEN lists[f].List # <<>> ELSE lists[f] = NewList)
           /\ lists = [x \in Flows |-> lists[x]] /\ returned = [x \in Flows |-> returned[x]]
           /\ calls = [d \in Callers |-> calls[d]] /\ ipFlows \subseteq Flows
           /\ \A d \in Callers : calls[d] = Idle \/ Call(d)
  BY DEF DefragInv

\* A call that did not move is still one.
LEMMA SameCall ==
    ASSUME DefragInv, NEW d \in Callers, calls'[d] = calls[d], feeds' = feeds
    PROVE  calls'[d] = Idle \/ Call(d)'
  <1>1. calls[d] = Idle \/ Call(d)
    BY DEF DefragInv
  <1>2. Call(d)' <=> Call(d)
    BY DEF Call
  <1> QED BY <1>1, <1>2

\* A list that is new is not complete.
LEMMA NewListLacks ==
    ASSUME NEW f \in Flows
    PROVE  /\ Tallies(f, NewList) /\ ToSet(NewList.List) # Fragments[f] /\ NewList.List = <<>>
           /\ Len(NewList.List) < IPv4MaximumFragmentListLen
           /\ ToSet(NewList.List) = {}
  <1>1. Fragments[f] # {}
    BY DefragAssumption DEF CutUp
  <1>2. Len(<<>>) = 0 /\ IPv4MaximumFragmentListLen \in Nat \ {0}
    BY DefragAssumption
  <1> QED BY <1>1, <1>2, NewListTallies

\* A new defragmenter.
LEMMA DefragInitInv == Init => DefragInv /\ Abstract!Init
  <1> SUFFICES ASSUME Init PROVE DefragInv /\ Abstract!Init
    OBVIOUS
  <1>1. \A c \in Callers : calls[c] = Idle /\ calls[c].pc = "idle"
    BY DEF Init, Idle
  <1>2. \A f \in Flows : ~Done(f) /\ f \notin Held
    BY <1>1 DEF Done, Held
  <1>3. \A f \in Flows : lists[f] = NewList /\ returned[f] = <<>> /\ f \notin ipFlows
    BY DEF Init
  <1>4. \A f \in Flows : Outcome(f) /\ Tallies(f, lists[f]) /\ Kept(f) = {}
                         /\ Len(lists[f].List) <= IPv4MaximumFragmentListLen
    <2> SUFFICES ASSUME NEW f \in Flows
                 PROVE  Outcome(f) /\ Tallies(f, lists[f]) /\ Kept(f) = {}
                        /\ Len(lists[f].List) <= IPv4MaximumFragmentListLen
      OBVIOUS
    <2>1. Len(<<>>) = 0 /\ IPv4MaximumFragmentListLen \in Nat \ {0}
      BY DefragAssumption
    <2> QED BY <1>2, <1>3, <2>1, NewListLacks DEF Outcome, All, Kept, Built
  <1>5. DefragInv
    BY <1>1, <1>2, <1>3, <1>4 DEF DefragInv, Init
  <1> QED BY <1>4, <1>5 DEF Abstract!Init, Init, Silent

\* The packets that securityChecks refuses: nothing wraps in 16 bits, and its
\* third check refuses no packet.
LEMMA Taken ==
    ASSUME NEW f \in Flows, NEW p \in Fragments[f], ~dontDefrag(p)
    PROVE  p \in Untaken(f) <=> ~securityChecks(p)
  <1>1. /\ p \in Packet /\ p.IHL4 = HeaderLen /\ p.Length > HeaderLen
        /\ p.FragOffset * Unit + p.Length < W
    BY DefragAssumption DEF CutUp
  <1>2. /\ W \in Nat \ {0} /\ HeaderLen \in Nat /\ Unit \in Nat
        /\ p.FragOffset \in Nat /\ p.Length \in 0..(W - 1)
    BY <1>1, DefragAssumption DEF Packet
  <1>3. PICK o \in Nat : o = p.FragOffset * Unit
    BY <1>2
  <1>4. PICK e \in Nat : e = o + p.Length /\ e < W
    BY <1>1, <1>2, <1>3
  <1>5. PICK n \in Nat : n = p.Length - p.IHL4 /\ n < W
    BY <1>1, <1>2
  <1>6. (p.Length - p.IHL4) % W = n /\ (p.FragOffset * Unit + p.Length) % W = e /\ e <= W - 1
    BY <1>2, <1>3, <1>4, <1>5
  <1>7. End(p) - p.FragOffset * Unit = n
    BY <1>1, <1>2, <1>3, <1>5 DEF End
  <1>8. securityChecks(p) <=> n >= IPv4MinimumFragmentSize /\ p.FragOffset <= IPv4MaximumFragmentOffset
    BY <1>6 DEF securityChecks, IPv4MaximumSize
  <1>9. IPv4MinimumFragmentSize \in Nat /\ IPv4MaximumFragmentOffset \in Nat
    BY DefragAssumption DEF IPv4MinimumFragmentSize
  <1> QED BY <1>2, <1>5, <1>7, <1>8, <1>9 DEF Untaken

\* PassThrough returns the one packet of a datagram.
LEMMA PassThroughReceives ==
    ASSUME DefragInv, NEW c \in Callers, NEW f \in feeds[c], NEW p \in Fragments[f],
           PassThrough(c, f, p)
    PROVE  DefragInv' /\ Abstract!Receive(f, p, {})
  <1>1. f \in Flows
    BY Feeding
  <1>2. /\ calls[c].pc = "idle" /\ returned' = [returned EXCEPT ![f] = Payload(p)]
        /\ feeds' = feeds /\ ipFlows' = ipFlows /\ lists' = lists /\ calls' = calls
        /\ dontDefrag(p)
    BY DEF PassThrough, Idle
  <1>3. ~Done(f) /\ f \notin Held
    BY <1>2, CallFacts, Holder DEF Done, Held
  <1>4. Fragments[f] = {p} /\ Listed(f) = {} /\ Payload(p) = WholeDatagram(f)
    BY <1>1, <1>2, Alone
  <1>5. lists[f].List = <<>> /\ ToSet(lists[f].List) = {}
    <2>1. lists[f].List \in Seq(Listed(f)) /\ ToSet(lists[f].List) \subseteq Listed(f)
      BY <1>1, FlowFacts, ListFacts
    <2> QED BY <1>4, <2>1
  <1>6. \A x \in Flows : (Done(x)' <=> Done(x)) /\ (x \in Held' <=> x \in Held)
    BY <1>2 DEF Done, Held
  <1>7. /\ returned'[f] = WholeDatagram(f) /\ returned' = [x \in Flows |-> returned'[x]]
        /\ \A x \in Flows \ {f} : returned'[x] = returned[x]
    BY <1>1, <1>2, <1>4, FlowFacts
  <1>8. Aside(f)
    BY <1>2, <1>6, <1>7 DEF Aside
  <1>9. Outcome(f)'
    BY <1>1, <1>2, <1>3, <1>5, <1>6, FlowFacts DEF Outcome, All
  <1>10. \A d \in Callers : calls'[d] = Idle \/ Call(d)'
    BY <1>1, <1>2, FlowFacts DEF Call
  <1>11. DefragInv' /\ \A x \in Flows \ {f} : Kept(x)' = Kept(x)
    BY <1>1, <1>2, <1>3, <1>6, <1>7, <1>8, <1>9, <1>10, FlowFacts, StepAt
  <1>12. Kept(f) = {} /\ Kept(f)' = {}
    BY <1>2, <1>5 DEF Kept
  <1>13. \A x \in Flows : Kept(x)' = Kept(x)
    BY <1>11, <1>12
  <1>14. p \notin Untaken(f)
    BY <1>2 DEF Untaken
  <1> QED BY <1>1, <1>2, <1>4, <1>7, <1>11, <1>12, <1>13, <1>14
          DEF Abstract!Receive, Abstract!Without, Silent

\* Reject refuses the packet.
LEMMA RejectRefuses ==
    ASSUME DefragInv, NEW c \in Callers, NEW f \in feeds[c], NEW p \in Fragments[f],
           Reject(c, f, p)
    PROVE  DefragInv' /\ Abstract!Refuse(f, p)
  <1>1. f \in Flows
    BY Feeding
  <1>2. /\ calls[c].pc = "idle" /\ returned' = [returned EXCEPT ![f] = <<>>]
        /\ feeds' = feeds /\ ipFlows' = ipFlows /\ lists' = lists /\ calls' = calls
    BY DEF Reject, Idle
  <1>3. ~Done(f) /\ f \notin Held
    BY <1>2, CallFacts, Holder DEF Done, Held
  <1>4. \A x \in Flows : (Done(x)' <=> Done(x)) /\ (x \in Held' <=> x \in Held)
    BY <1>2 DEF Done, Held
  <1>5. /\ returned'[f] = <<>> /\ returned' = [x \in Flows |-> returned'[x]]
        /\ \A x \in Flows \ {f} : returned'[x] = returned[x]
    BY <1>1, <1>2, FlowFacts
  <1>6. Aside(f)
    BY <1>2, <1>4, <1>5 DEF Aside
  <1>7. Outcome(f)'
    BY <1>1, <1>2, <1>3, <1>4, <1>5, FlowFacts DEF Outcome, All
  <1>8. \A d \in Callers : calls'[d] = Idle \/ Call(d)'
    BY <1>1, <1>2, FlowFacts DEF Call
  <1>9. DefragInv' /\ \A x \in Flows \ {f} : Kept(x)' = Kept(x)
    BY <1>1, <1>2, <1>3, <1>4, <1>5, <1>6, <1>7, <1>8, FlowFacts, StepAt
  <1>10. Kept(f)' = Kept(f)
    BY <1>1, <1>2, <1>3, <1>4 DEF Kept, Built
  <1>11. p \in Untaken(f)
    BY <1>1, Taken DEF Reject
  <1> QED BY <1>1, <1>2, <1>9, <1>10, <1>11 DEF Abstract!Refuse, Silent

\* Lookup returns nothing yet and keeps what is there.
LEMMA LookupAges ==
    ASSUME DefragInv, NEW c \in Callers, NEW f \in feeds[c], NEW p \in Fragments[f],
           NEW t \in Times, Lookup(c, f, p, t)
    PROVE  DefragInv' /\ Abstract!Age
  <1>1. f \in Flows
    BY Feeding
  <1>2. PICK v : v = [pc |-> "insert", f |-> f, p |-> p, t |-> t]
    OBVIOUS
  <1>3. /\ calls[c].pc = "idle" /\ calls' = [calls EXCEPT ![c] = v]
        /\ feeds' = feeds /\ ipFlows' = ipFlows \union {f} /\ lists' = lists
        /\ returned' = returned /\ p \in Listed(f)
    BY <1>2 DEF Lookup, Idle, Listed
  <1>4. v.pc = "insert" /\ v.f = f
    BY <1>2
  <1>5. ~Done(f)
    BY <1>3, CallFacts, Holder DEF Done
  <1>6. /\ \A x \in Flows \ {f} : (Done(x)' <=> Done(x)) /\ (x \in Held' <=> x \in Held)
        /\ ~Done(f)' /\ f \in Held'
        /\ calls' = [d \in Callers |-> calls'[d]]
        /\ calls'[c] = v /\ \A d \in Callers \ {c} : calls'[d] = calls[d]
    BY <1>3, <1>4, OtherCalls
  <1>7. Aside(f)
    BY <1>3, <1>6 DEF Aside
  <1>8. Outcome(f)'
    BY <1>1, <1>3, <1>5, <1>6, FlowFacts DEF Outcome, All
  <1>9. \A d \in Callers : calls'[d] = Idle \/ Call(d)'
    <2> SUFFICES ASSUME NEW d \in Callers PROVE calls'[d] = Idle \/ Call(d)'
      OBVIOUS
    <2>1. CASE d = c
      BY <1>2, <1>3, <1>6, <2>1 DEF Call
    <2>2. CASE d # c
      BY <1>3, <1>6, <2>2, SameCall
    <2> QED BY <2>1, <2>2
  <1>10. DefragInv' /\ \A x \in Flows \ {f} : Kept(x)' = Kept(x)
    BY <1>1, <1>3, <1>6, <1>7, <1>8, <1>9, FlowFacts, StepAt
  <1>11. Kept(f)' = Kept(f)
    BY <1>3, <1>5, <1>6 DEF Kept, Built
  <1> QED BY <1>1, <1>3, <1>10, <1>11 DEF Abstract!Age, Silent

\* Insert is a Receive; where the list was dropped meanwhile, the packet is
\* lost with it.
LEMMA InsertReceives ==
    ASSUME DefragInv, NEW c \in Callers, Insert(c)
    PROVE  DefragInv' /\ Abstract!Next
  <1>1. PICK f \in feeds[c] : \E p \in Listed(f), t \in Times :
            calls[c] = [pc |-> "insert", f |-> f, p |-> p, t |-> t]
    BY CallFacts DEF Insert
  <1>2. PICK p \in Listed(f), t \in Times :
            calls[c] = [pc |-> "insert", f |-> f, p |-> p, t |-> t]
    BY <1>1
  <1>3. calls[c].pc = "insert" /\ calls[c].f = f /\ calls[c].p = p /\ calls[c].t = t
    BY <1>2
  <1>4. f \in Flows /\ p \in Fragments[f] /\ p \notin Untaken(f)
    BY Feeding, Taken DEF Listed
  <1>5. ~Done(f) /\ f \in Held
    BY <1>3, CallFacts, Holder DEF Done, Held
  <1>6. PICK fl : fl = lists[f]
    OBVIOUS
  <1>7. PICK new : new = insert(fl, p, t)
    OBVIOUS
  <1>8. PICK res : res = result(fl, p, t)
    OBVIOUS
  <1>9. /\ Tallies(f, fl) /\ Len(fl.List) < IPv4MaximumFragmentListLen
        /\ ToSet(fl.List) # Fragments[f]
        /\ fl.List # <<>> => returned[f] = <<>>
    BY <1>4, <1>5, <1>6, FlowFacts DEF Outcome, All
  <1>10. /\ Tallies(f, new) /\ ToSet(new.List) = ToSet(fl.List) \cup {p} /\ new.List # <<>>
         /\ Len(new.List) <= IPv4MaximumFragmentListLen
    <2>1. /\ Tallies(f, new) /\ ToSet(new.List) = ToSet(fl.List) \cup {p} /\ new.List # <<>>
          /\ new = fl \/ Len(new.List) = Len(fl.List) + 1
      BY <1>4, <1>7, <1>9, InsertTallies
    <2>2. Len(fl.List) \in Nat /\ IPv4MaximumFragmentListLen \in Nat
      BY <1>4, <1>9, ListFacts, DefragAssumption
    <2> QED BY <1>9, <2>1, <2>2
  <1>11. /\ res = IF ToSet(new.List) = Fragments[f] THEN WholeDatagram(f) ELSE <<>>
         /\ WholeDatagram(f) # <<>>
    BY <1>4, <1>7, <1>8, <1>9, Results, Datagrams
  <1>12. /\ returned' = [returned EXCEPT ![f] = res] /\ feeds' = feeds /\ ipFlows' = ipFlows
         /\ \/ /\ res # <<>> \/ Full(new)
               /\ calls' = [calls EXCEPT ![c].pc = "flush"]
               /\ lists' = [lists EXCEPT ![f] = new]
            \/ /\ res = <<>> /\ ~Full(new)
               /\ Leave(c, f, [lists EXCEPT ![f] = new])
    BY <1>3, <1>6, <1>7, <1>8 DEF Insert
  <1>13. /\ returned'[f] = res /\ returned' = [x \in Flows |-> returned'[x]]
         /\ \A x \in Flows \ {f} : returned'[x] = returned[x]
    BY <1>4, <1>12, FlowFacts
  <1>14. Kept(f) = ToSet(fl.List)
    BY <1>5, <1>6 DEF Kept, Built
  <1>15. CASE res # <<>> \/ Full(new)
    <2>1. PICK v : v = [pc |-> "flush", f |-> f, p |-> p, t |-> t]
      OBVIOUS
    <2>2. v.pc = "flush" /\ v.f = f
      BY <2>1
    <2>3. calls' = [calls EXCEPT ![c] = v] /\ lists' = [lists EXCEPT ![f] = new]
      BY <1>2, <1>12, <1>15, <2>1
    <2>4. /\ \A x \in Flows \ {f} : (Done(x)' <=> Done(x)) /\ (x \in Held' <=> x \in Held)
          /\ Done(f)' /\ f \in Held'
          /\ calls' = [d \in Callers |-> calls'[d]]
          /\ calls'[c] = v /\ \A d \in Callers \ {c} : calls'[d] = calls[d]
      BY <1>3, <1>12, <2>2, <2>3, OtherCalls
    <2>5. /\ lists'[f] = new /\ lists' = [x \in Flows |-> lists'[x]]
          /\ \A x \in Flows \ {f} : lists'[x] = lists[x]
      BY <1>4, <2>3, FlowFacts
    <2>6. Aside(f)
      BY <1>12, <1>13, <2>4, <2>5 DEF Aside
    <2>7. Outcome(f)'
      BY <1>11, <1>13, <1>15, <2>4, <2>5 DEF Outcome, All
    <2>8. \A d \in Callers : calls'[d] = Idle \/ Call(d)'
      <3> SUFFICES ASSUME NEW d \in Callers PROVE calls'[d] = Idle \/ Call(d)'
        OBVIOUS
      <3>1. CASE d = c
        BY <1>12, <2>1, <2>4, <3>1 DEF Call
      <3>2. CASE d # c
        BY <1>12, <2>4, <3>2, SameCall
      <3> QED BY <3>1, <3>2
    <2>9. DefragInv' /\ \A x \in Flows \ {f} : Kept(x)' = Kept(x)
      BY <1>4, <1>10, <1>12, <1>13, <2>4, <2>5, <2>6, <2>7, <2>8, FlowFacts, StepAt
    <2>10. Kept(f)' = IF ToSet(new.List) = Fragments[f] THEN {} ELSE Kept(f) \cup {p}
      BY <1>10, <1>11, <1>13, <1>14, <2>4, <2>5 DEF Kept, Built
    <2>11. Abstract!Receive(f, p, {})
      BY <1>4, <1>10, <1>11, <1>12, <1>14, <2>9, <2>10
         DEF Abstract!Receive, Abstract!Without, Silent
    <2> QED BY <1>4, <2>9, <2>11 DEF Abstract!Next
  <1>16. CASE res = <<>> /\ ~Full(new)
    <2>1. /\ calls' = [calls EXCEPT ![c] = Idle]
          /\ lists' = [lists EXCEPT ![f] = IF f \in ipFlows THEN new ELSE NewList]
      BY <1>4, <1>12, <1>16, FlowFacts DEF Leave
    <2>2. Idle.pc = "idle"
      BY DEF Idle
    <2>3. /\ \A x \in Flows \ {f} : (Done(x)' <=> Done(x)) /\ (x \in Held' <=> x \in Held)
          /\ ~Done(f)' /\ f \notin Held'
          /\ calls' = [d \in Callers |-> calls'[d]]
          /\ calls'[c] = Idle /\ \A d \in Callers \ {c} : calls'[d] = calls[d]
      BY <1>3, <1>12, <2>1, <2>2, OtherCalls
    <2>4. /\ lists'[f] = (IF f \in ipFlows THEN new ELSE NewList)
          /\ lists' = [x \in Flows |-> lists'[x]]
          /\ \A x \in Flows \ {f} : lists'[x] = lists[x]
      BY <1>4, <2>1, FlowFacts
    <2>5. Aside(f)
      BY <1>12, <1>13, <2>3, <2>4 DEF Aside
    <2>6. ToSet(new.List) # Fragments[f] /\ Len(new.List) < IPv4MaximumFragmentListLen
      <3>1. Len(new.List) \in Nat /\ IPv4MaximumFragmentListLen \in Nat
        BY <1>4, <1>10, ListFacts, DefragAssumption
      <3> QED BY <1>11, <1>16, <3>1 DEF Full
    <2>7. /\ Tallies(f, lists'[f]) /\ ToSet(lists'[f].List) # Fragments[f]
          /\ Len(lists'[f].List) < IPv4MaximumFragmentListLen
          /\ IF f \in ipFlows' THEN lists'[f].List # <<>> ELSE lists'[f] = NewList
      BY <1>4, <1>10, <1>12, <2>4, <2>6, NewListLacks
    <2>8. Len(lists'[f].List) <= IPv4MaximumFragmentListLen
      <3>1. Len(lists'[f].List) \in Nat /\ IPv4MaximumFragmentListLen \in Nat
        BY <1>4, <2>7, ListFacts, DefragAssumption
      <3> QED BY <2>7, <3>1
    <2>9. Outcome(f)'
      BY <1>13, <1>16, <2>3, <2>7 DEF Outcome, All
    <2>10. \A d \in Callers : calls'[d] = Idle \/ Call(d)'
      BY <1>12, <2>3, SameCall
    <2>11. DefragInv' /\ \A x \in Flows \ {f} : Kept(x)' = Kept(x)
      BY <1>4, <1>12, <1>13, <2>3, <2>4, <2>5, <2>7, <2>8, <2>9, <2>10, FlowFacts, StepAt
    <2>12. Kept(f)' = ToSet(lists'[f].List)
      BY <2>3 DEF Kept, Built
    <2>13. CASE f \in ipFlows
      <3>1. Kept(f)' = Kept(f) \cup {p} /\ Kept(f) \cup {p} # Fragments[f]
        BY <1>10, <1>14, <2>4, <2>6, <2>12, <2>13
      <3>2. Abstract!Receive(f, p, {})
        BY <1>4, <1>12, <1>16, <2>11, <3>1 DEF Abstract!Receive, Abstract!Without, Silent
      <3> QED BY <1>4, <2>11, <3>2 DEF Abstract!Next
    <2>14. CASE f \notin ipFlows
      <3>1. Kept(f)' = {}
        BY <1>4, <2>4, <2>12, <2>14, NewListLacks
      <3>2. f \in Silent
        BY <1>4, <2>14 DEF Silent
      <3>3. Kept(f) \cup {p} # Fragments[f]
        BY <1>10, <1>14, <2>6
      <3>4. Abstract!Lose(f, p)
        BY <1>4, <1>12, <1>16, <2>11, <3>1, <3>2, <3>3
           DEF Abstract!Lose, Abstract!Without, Silent
      <3> QED BY <1>4, <2>11, <3>4 DEF Abstract!Next
    <2> QED BY <2>13, <2>14
  <1> QED BY <1>15, <1>16

\* Flush drops a list that is complete or full.
LEMMA FlushForgets ==
    ASSUME DefragInv, NEW c \in Callers, Flush(c)
    PROVE  DefragInv' /\ Abstract!Next
  <1>1. PICK f \in feeds[c] : calls[c].f = f
    BY CallFacts DEF Flush
  <1>2. calls[c].pc = "flush"
    BY DEF Flush
  <1>3. f \in Flows
    BY Feeding
  <1>4. Done(f)
    BY <1>1, <1>2 DEF Done
  <1>5. /\ ipFlows' = ipFlows \ {f} /\ feeds' = feeds /\ returned' = returned
        /\ calls' = [calls EXCEPT ![c] = Idle]
        /\ lists' = [lists EXCEPT ![f] = NewList]
    BY <1>1 DEF Flush, Leave
  <1>6. Idle.pc = "idle"
    BY DEF Idle
  <1>7. /\ \A x \in Flows \ {f} : (Done(x)' <=> Done(x)) /\ (x \in Held' <=> x \in Held)
        /\ ~Done(f)' /\ f \notin Held'
        /\ calls' = [d \in Callers |-> calls'[d]]
        /\ calls'[c] = Idle /\ \A d \in Callers \ {c} : calls'[d] = calls[d]
    BY <1>1, <1>5, <1>6, OtherCalls
  <1>8. /\ lists'[f] = NewList /\ lists' = [x \in Flows |-> lists'[x]]
        /\ \A x \in Flows \ {f} : lists'[x] = lists[x]
    BY <1>3, <1>5, FlowFacts
  <1>9. Aside(f)
    BY <1>5, <1>7, <1>8 DEF Aside
  <1>10. /\ Tallies(f, lists'[f]) /\ Outcome(f)'
         /\ Len(lists'[f].List) <= IPv4MaximumFragmentListLen
    <2>1. Len(<<>>) = 0 /\ IPv4MaximumFragmentListLen \in Nat \ {0}
      BY DefragAssumption
    <2> QED BY <1>3, <1>7, <1>8, <2>1, NewListLacks DEF Outcome, All
  <1>11. \A d \in Callers : calls'[d] = Idle \/ Call(d)'
    BY <1>5, <1>7, SameCall
  <1>12. f \notin ipFlows' /\ ipFlows' \subseteq Flows
    BY <1>3, <1>5, FlowFacts
  <1>13. DefragInv' /\ \A x \in Flows \ {f} : Kept(x)' = Kept(x)
    BY <1>3, <1>5, <1>7, <1>8, <1>9, <1>10, <1>11, <1>12, FlowFacts, StepAt
  <1>14. Kept(f)' = {}
    BY <1>3, <1>7, <1>8, NewListLacks DEF Kept, Built
  <1>15. Kept(f) = {} \/ f \in Silent
    <2>1. CASE All(f)
      BY <1>3, <1>4, <2>1, FlowFacts, Datagrams DEF Outcome, Kept, Built
    <2>2. CASE ~All(f)
      BY <1>3, <1>4, <2>2, FlowFacts DEF Outcome, Silent
    <2> QED BY <2>1, <2>2
  <1>16. PICK S \in SUBSET Flows : S = {f} \cap Silent
    BY <1>3
  <1>17. \A x \in Flows : Kept(x)' = IF x \in S THEN {} ELSE Kept(x)
    BY <1>13, <1>14, <1>15, <1>16
  <1>18. Abstract!Forget(S)
    BY <1>3, <1>5, <1>16, <1>17 DEF Abstract!Forget, Abstract!Without, Silent
  <1> QED BY <1>13, <1>18 DEF Abstract!Next

\* DiscardOlderThan forgets the flows that nobody holds and that are old.
LEMMA DiscardForgets ==
    ASSUME DefragInv, NEW t \in Times, DiscardOlderThan(t)
    PROVE  DefragInv' /\ Abstract!Next
  <1>1. PICK gone \in SUBSET ipFlows :
            /\ \A f \in ipFlows \ Inserting : f \in gone <=> lists[f].LastSeen < t
            /\ ipFlows' = ipFlows \ gone
            /\ lists' = [f \in Flows |-> IF f \in gone \ Held THEN NewList ELSE lists[f]]
            /\ UNCHANGED <<feeds, calls, returned>>
    BY DEF DiscardOlderThan
  <1>2. ipFlows \subseteq Flows
    BY DEF DefragInv
  <1>3. PICK S \in SUBSET Flows : S = gone \ Held
    BY <1>1, <1>2
  <1>4. Inserting \subseteq Held
    BY DEF Inserting, Held
  <1>5. ASSUME NEW f \in S PROVE f \in Silent
    <2>1. f \in ipFlows \ Inserting /\ f \in gone /\ f \in Flows
      BY <1>1, <1>2, <1>3, <1>4
    <2>2. lists[f].LastSeen < t
      BY <1>1, <2>1
    <2>3. lists[f].LastSeen \in 0..MaxTime /\ t \in Int /\ t <= MaxTime /\ MaxTime \in Nat
      BY <2>1, FlowFacts, ListFacts, DefragAssumption DEF Times
    <2>4. lists[f].LastSeen < MaxTime
      BY <2>2, <2>3
    <2> QED BY <2>1, <2>4 DEF Silent
  <1>6. ASSUME NEW f \in Flows
        PROVE  /\ Tallies(f, lists'[f]) /\ Len(lists'[f].List) <= IPv4MaximumFragmentListLen
               /\ Outcome(f)'
               /\ f \in Held'
                    \/ (IF f \in ipFlows' THEN lists'[f].List # <<>> ELSE lists'[f] = NewList)
               /\ Kept(f)' = IF f \in S THEN {} ELSE Kept(f)
    <2>1. (Done(f)' <=> Done(f)) /\ (f \in Held' <=> f \in Held) /\ returned' = returned
      BY <1>1 DEF Done, Held
    <2>2. CASE f \in S
      <3>1. lists'[f] = NewList /\ ~Done(f) /\ f \notin ipFlows'
        BY <1>1, <1>3, <2>2 DEF Done, Held
      <3>2. Len(<<>>) = 0 /\ IPv4MaximumFragmentListLen \in Nat \ {0}
        BY DefragAssumption
      <3> QED BY <2>1, <2>2, <3>1, <3>2, NewListLacks DEF Outcome, All, Kept, Built
    <2>3. CASE f \notin S
      <3>1. lists'[f] = lists[f] /\ (f \in Held \/ (f \in ipFlows' <=> f \in ipFlows))
        BY <1>1, <1>3, <2>3
      <3>2. Outcome(f)' <=> Outcome(f)
        BY <2>1, <3>1 DEF Outcome, All
      <3>3. Kept(f)' = Kept(f)
        BY <2>1, <3>1 DEF Kept, Built
      <3> QED BY <2>1, <2>3, <3>1, <3>2, <3>3, FlowFacts
    <2> QED BY <2>2, <2>3
  <1>7. \A d \in Callers : calls'[d] = Idle \/ Call(d)'
    BY <1>1, SameCall
  <1>8. /\ calls' = [d \in Callers |-> calls'[d]] /\ returned' = [f \in Flows |-> returned'[f]]
        /\ feeds' \in Feedings /\ ipFlows' \subseteq Flows
    BY <1>1 DEF DefragInv
  <1>9. lists' = [f \in Flows |-> lists'[f]]
    BY <1>1
  <1>10. DefragInv'
    BY <1>6, <1>7, <1>8, <1>9 DEF DefragInv
  <1>11. Abstract!Forget(S)
    BY <1>1, <1>5, <1>6 DEF Abstract!Forget, Abstract!Without, Silent
  <1> QED BY <1>10, <1>11 DEF Abstract!Next

\* Every step keeps the invariant and is one of Datagram.
LEMMA DefragStep ==
    ASSUME DefragInv, [Next]_vars
    PROVE  DefragInv' /\ [Abstract!Next]_Abstract!vars
  <1>1. ASSUME NEW c \in Callers, NEW f \in feeds[c], NEW p \in Fragments[f],
               PassThrough(c, f, p) \/ Reject(c, f, p) \/ \E t \in Times : Lookup(c, f, p, t)
        PROVE  DefragInv' /\ Abstract!Next
    <2>1. f \in Flows
      BY Feeding
    <2>2. CASE PassThrough(c, f, p)
      BY <2>1, <2>2, PassThroughReceives DEF Abstract!Next
    <2>3. CASE Reject(c, f, p)
      BY <2>1, <2>3, RejectRefuses DEF Abstract!Next
    <2>4. CASE \E t \in Times : Lookup(c, f, p, t)
      BY <2>4, LookupAges DEF Abstract!Next
    <2> QED BY <1>1, <2>2, <2>3, <2>4
  <1>2. CASE \E c \in Callers : Insert(c) \/ Flush(c)
    BY <1>2, InsertReceives, FlushForgets
  <1>3. CASE \E t \in Times : DiscardOlderThan(t)
    BY <1>3, DiscardForgets
  <1>4. CASE UNCHANGED vars
    <2>1. /\ feeds' = feeds /\ ipFlows' = ipFlows /\ lists' = lists /\ calls' = calls
          /\ returned' = returned
      BY <1>4 DEF vars
    <2>2. \A f \in Flows : /\ (Done(f)' <=> Done(f)) /\ (f \in Held' <=> f \in Held)
                           /\ (All(f)' <=> All(f)) /\ Kept(f)' = Kept(f)
      BY <2>1 DEF Done, Held, All, Kept, Built
    <2>3. \A f \in Flows : Outcome(f)' <=> Outcome(f)
      BY <2>1, <2>2 DEF Outcome
    <2>4. \A d \in Callers : calls'[d] = Idle \/ Call(d)'
      BY <2>1, SameCall
    <2>5. Silent' = Silent
      BY <2>1, <2>2 DEF Silent
    <2>6. DefragInv'
      BY <2>1, <2>2, <2>3, <2>4 DEF DefragInv
    <2> QED BY <2>1, <2>2, <2>5, <2>6 DEF Abstract!vars
  <1> QED BY <1>1, <1>2, <1>3, <1>4 DEF Next

\* The IPv4Defragmenter implements Datagram: a datagram is returned, whole, by
\* the call that brings its last missing fragment, and by no other, whatever the
\* order and the number of copies of the fragments, up to the largest datagram
\* that 16 bits can count, and whatever DiscardOlderThan does between the two
\* locks of a call.  Two things may be missing from it: fragments of less than
\* eight bytes or past the largest offset, which securityChecks refuses, the last
\* fragment included; and all fragments of a list that is full, or that was not
\* heard of since an earlier time or dropped in a race, which are forgotten at
\* once (DefragIPv4WithTimestamp, insert, build, DiscardOlderThan).
THEOREM DefragImplements == Spec => Refines
  BY DefragInitInv, DefragStep, PTL DEF Spec, Refines, Abstract!Spec

\* Between the calls no list is left in the map that is empty, complete or full;
\* the counters stay in 16 bits and the lists in their limit and in order.
THEOREM DefragLeavesNothing == Spec => []NothingLeftOver
  <1>1. ASSUME DefragInv PROVE NothingLeftOver
    <2>1. ASSUME NEW f \in Flows
          PROVE  /\ lists[f].List \in Seq(Fragments[f])
                 /\ Len(lists[f].List) <= IPv4MaximumFragmentListLen
                 /\ lists[f].Highest \in 0..(W - 1) /\ lists[f].Current \in 0..(W - 1)
                 /\ lists[f].LastSeen \in 0..MaxTime
      <3>1. Tallies(f, lists[f])
        BY <1>1, FlowFacts
      <3>2. lists[f].List \in Seq(Fragments[f])
        <4>1. lists[f].List \in Seq(Listed(f)) /\ Listed(f) \subseteq Fragments[f]
          BY <3>1, ListFacts DEF Listed
        <4> QED BY <4>1
      <3>3. lists[f].Current \in 0..(W - 1)
        BY <3>1, CoverFacts, ListFacts DEF Tallies
      <3>4. lists[f].Highest \in 0..(W - 1)
        <4>1. lists[f].Highest = 0 \/ \E q \in Fragments[f] : lists[f].Highest = End(q)
          BY <3>1, ListFacts DEF Tallies
        <4>2. W \in Nat \ {0}
          BY DefragAssumption
        <4> QED BY <4>1, <4>2, PacketFacts
      <3> QED BY <1>1, <3>1, <3>2, <3>3, <3>4, FlowFacts, ListFacts
    <2>2. TypeOK
      BY <1>1, <2>1, CallFacts DEF TypeOK, DefragInv
    <2>3. ASSUME NEW f \in ipFlows \ Held
          PROVE  LET fl == lists[f] IN
                 /\ fl.List # <<>> /\ ~Ready(fl) /\ ToSet(fl.List) # Fragments[f]
                 /\ Len(fl.List) < IPv4MaximumFragmentListLen /\ Sorted(fl.List)
      <3>1. f \in Flows
        BY <1>1, <2>3 DEF DefragInv
      <3>2. ~Done(f)
        BY <2>3 DEF Done, Held
      <3> QED BY <1>1, <2>3, <3>1, <3>2, FlowFacts, ReadyIsAll DEF Outcome, All, Tallies
    <2> QED BY <2>2, <2>3 DEF NothingLeftOver, Sorted
  <1> QED BY <1>1, DefragInitInv, DefragStep, PTL DEF Spec
=============================================================================
