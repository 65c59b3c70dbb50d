----------------------------- MODULE IPv4Defrag -----------------------------
(***************************************************************************)
(* ip4defrag/defrag.go: an IPv4Defragmenter used by several goroutines.    *)
(* A call of DefragIPv4WithTimestamp has three steps: under the lock it    *)
(* finds or creates the fragment list of the packet's flow; outside of the *)
(* lock it inserts the packet and perhaps builds the datagram; under the   *)
(* lock again it drops the list when the datagram is built or the list is  *)
(* full.  DiscardOlderThan may run between any two of them.                *)
(*                                                                         *)
(* Each flow is fed by one goroutine.  Hence at any time there is at most  *)
(* one list of a flow that anybody can reach: the one in the map, or the   *)
(* one that its goroutine still holds after it was dropped from the map.   *)
(* A payload is the sequence of the positions of its bytes in the datagram.*)
(***************************************************************************)
EXTENDS Integers, SequencesExt

CONSTANTS
    Flows,       \* the ipv4 keys: source, destination and Id
    Callers,     \* the goroutines
    Feedings,    \* the ways the flows may be distributed over the goroutines
    Fragments,   \* Fragments[f]: the packets of flow f
    W,           \* 2^16, the number of uint16 values
    Unit,        \* 8, the bytes per unit of FragOffset
    HeaderLen,   \* 20, the bytes of a header without options
    IPv4MaximumFragmentOffset,
    IPv4MaximumFragmentListLen,
    MaxTime      \* bound: timestamps are 1..MaxTime

\* A packet: FragOffset, Length, header length and the flags MF and DF.
Packet == [FragOffset : Nat, Length : 0..(W - 1), IHL4 : 0..(W - 1),
           MF : BOOLEAN, DF : BOOLEAN]

\* Where the payload of a packet ends, and the positions of its bytes.
End(p) == p.FragOffset * Unit + p.Length - p.IHL4
Span(p) == (p.FragOffset * Unit)..(End(p) - 1)

\* The packets S are one datagram, cut up: every byte of it is in exactly one of
\* them, only the last one is without MF, none has options, and a packet with
\* DF is alone.
CutUp(S) ==
    \E last \in S :
        /\ \A p \in S :
            /\ p.MF <=> p # last
            /\ p.DF => S = {p}
            /\ p.IHL4 = HeaderLen /\ p.Length > HeaderLen
            /\ p.FragOffset * Unit + p.Length < W
        /\ \A p, q \in S : p # q => Span(p) \intersect Span(q) = {}
        /\ UNION {Span(p) : p \in S} = 0..(End(last) - 1)

ASSUME DefragAssumption ==
    /\ {W, Unit, HeaderLen, IPv4MaximumFragmentListLen} \subseteq Nat \ {0}
    /\ {IPv4MaximumFragmentOffset, MaxTime} \subseteq Nat
    /\ \A f \in Flows : Fragments[f] \subseteq Packet /\ CutUp(Fragments[f])
    /\ Feedings \subseteq [Callers -> SUBSET Flows]
    /\ \A feeds \in Feedings : \A b, c \in Callers :
        b # c => feeds[b] \intersect feeds[c] = {}

VARIABLES
    feeds,     \* feeds[c]: the flows whose packets c sees
    ipFlows,   \* the keys of the map
    lists,     \* lists[f]: the fragment list of f that can be reached
    calls,     \* calls[c]: the call that c is in
    returned   \* returned[f]: the datagram that the last call for f built

vars == <<feeds, ipFlows, lists, calls, returned>>

IPv4MinimumFragmentSize == Unit
IPv4MaximumSize == W - 1

\* The zero value of fragmentList; no timestamp is before time 1.
NewList == [List |-> <<>>, Highest |-> 0, Current |-> 0,
            FinalReceived |-> FALSE, LastSeen |-> 0]

Idle == [pc |-> "idle"]

Payload(p) == [i \in 1..(p.Length - p.IHL4) |-> p.FragOffset * Unit + i - 1]

dontDefrag(p) == p.DF \/ (~p.MF /\ p.FragOffset = 0)

securityChecks(p) ==
    /\ (p.Length - p.IHL4) % W >= IPv4MinimumFragmentSize
    /\ p.FragOffset <= IPv4MaximumFragmentOffset
    /\ (p.FragOffset * Unit + p.Length) % W <= IPv4MaximumSize

\* fragOffset and fragLength, both uint16; the latter forgets the options.
fragOffset(p) == (p.FragOffset * Unit) % W
fragLength(p) == (p.Length - HeaderLen) % W

\* The loop of build over the list: the bytes so far and the next offset.
buildStep(acc, p) ==
    LET startAt == (acc.next - fragOffset(p)) % W IN
    IF ~acc.ok THEN acc
    ELSE IF fragOffset(p) = acc.next
         THEN [ok |-> TRUE, final |-> acc.final \o Payload(p),
               next |-> (acc.next + fragLength(p)) % W]
    ELSE IF fragOffset(p) < acc.next /\ startAt <= fragLength(p)
         THEN [ok |-> TRUE,
               final |-> acc.final \o SubSeq(Payload(p), startAt + 1, Len(Payload(p))),
               next |-> (acc.next + fragOffset(p)) % W]
    ELSE [acc EXCEPT !.ok = FALSE]

\* The contents of the datagram, or <<>> where build returns an error: after[n]
\* is the state of the loop behind the first n fragments.
build(fl) ==
    LET after[n \in 0..Len(fl.List)] ==
            IF n = 0 THEN [ok |-> TRUE, final |-> <<>>, next |-> 0]
            ELSE buildStep(after[n - 1], fl.List[n])
        end == after[Len(fl.List)]
    IN  IF end.ok THEN end.final ELSE <<>>

\* Where the walk over the list stops: the first fragment that is not before p.
Stops(fl, p) == {i \in DOMAIN fl.List : fl.List[i].FragOffset >= p.FragOffset}

\* Mutant: a fragment that is there already is inserted and counted again.
DuplicateCounted(fl, p) == FALSE

Duplicate(fl, p) ==
    /\ fragOffset(p) < fl.Highest
    /\ Stops(fl, p) # {}
    /\ fl.List[Min(Stops(fl, p))].FragOffset = p.FragOffset

\* Mutant: the fragments stay in the order they came in.
placeLast(fl, p) == Append(fl.List, p)

\* A fragment below Highest and behind all others is not put into the list.
place(fl, p) ==
    IF fragOffset(p) >= fl.Highest THEN Append(fl.List, p)
    ELSE IF Stops(fl, p) = {} THEN fl.List
    ELSE InsertAt(fl.List, Min(Stops(fl, p)), p)

insert(fl, p, t) ==
    LET end == (fragOffset(p) + fragLength(p)) % W IN
    IF Duplicate(fl, p) THEN fl
    ELSE [List |-> place(fl, p),
          Highest |-> IF fl.Highest < end THEN end ELSE fl.Highest,
          Current |-> (fl.Current + fragLength(p)) % W,
          FinalReceived |-> fl.FinalReceived \/ ~p.MF,
          LastSeen |-> t]

Full(fl) == Len(fl.List) + 1 > IPv4MaximumFragmentListLen

Ready(fl) == fl.FinalReceived /\ fl.Highest = fl.Current

\* What insert returns: a duplicate never completes a datagram.
result(fl, p, t) ==
    LET fl2 == insert(fl, p, t) IN
    IF ~Duplicate(fl, p) /\ Ready(fl2) THEN build(fl2) ELSE <<>>

-----------------------------------------------------------------------------
Init ==
    /\ feeds \in Feedings
    /\ ipFlows = {}
    /\ lists = [f \in Flows |-> NewList]
    /\ calls = [c \in Callers |-> Idle]
    /\ returned = [f \in Flows |-> <<>>]

\* dontDefrag: the packet is returned as it is.
PassThrough(c, f, p) ==
    /\ calls[c] = Idle
    /\ dontDefrag(p)
    /\ returned' = [returned EXCEPT ![f] = Payload(p)]
    /\ UNCHANGED <<feeds, ipFlows, lists, calls>>

\* securityChecks: an error, and nothing is kept.
Reject(c, f, p) ==
    /\ calls[c] = Idle
    /\ ~dontDefrag(p) /\ ~securityChecks(p)
    /\ returned' = [returned EXCEPT ![f] = <<>>]
    /\ UNCHANGED <<feeds, ipFlows, lists, calls>>

\* The list of the flow is found or created under the lock.
Lookup(c, f, p, t) ==
    /\ calls[c] = Idle
    /\ ~dontDefrag(p) /\ securityChecks(p)
    /\ calls' = [calls EXCEPT ![c] = [pc |-> "insert", f |-> f, p |-> p, t |-> t]]
    /\ ipFlows' = ipFlows \union {f}
    /\ UNCHANGED <<feeds, lists, returned>>

\* The call of c is over; a list that is not in the map is garbage.
Leave(c, f, ls) ==
    /\ calls' = [calls EXCEPT ![c] = Idle]
    /\ lists' = IF f \in ipFlows' THEN ls ELSE [ls EXCEPT ![f] = NewList]

\* insert, outside of the lock.
Insert(c) ==
    /\ calls[c].pc = "insert"
    /\ LET f == calls[c].f
           fl == insert(lists[f], calls[c].p, calls[c].t)
           out == result(lists[f], calls[c].p, calls[c].t)
           ls == [lists EXCEPT ![f] = fl]
       IN  /\ returned' = [returned EXCEPT ![f] = out]
           /\ UNCHANGED <<feeds, ipFlows>>
           /\ IF out # <<>> \/ Full(fl)
              THEN /\ calls' = [calls EXCEPT ![c].pc = "flush"]
                   /\ lists' = ls
              ELSE Leave(c, f, ls)

\* flush: the list is dropped from the map by its key.
Flush(c) ==
    /\ calls[c].pc = "flush"
    /\ ipFlows' = ipFlows \ {calls[c].f}
    /\ Leave(c, calls[c].f, lists)
    /\ UNCHANGED <<feeds, returned>>

\* The flows whose LastSeen a goroutine may be writing.
Inserting == {calls[c].f : c \in {d \in Callers : calls[d].pc = "insert"}}
Held == {calls[c].f : c \in {d \in Callers : calls[d].pc # "idle"}}

\* It reads LastSeen under a lock that insert does not hold: for a flow that
\* is being inserted into, the comparison may come out either way.
DiscardOlderThan(t) ==
    \E gone \in SUBSET ipFlows :
        /\ \A f \in ipFlows \ Inserting : f \in gone <=> lists[f].LastSeen < t
        /\ ipFlows' = ipFlows \ gone
        /\ lists' = [f \in Flows |-> IF f \in gone \ Held THEN NewList ELSE lists[f]]
        /\ UNCHANGED <<feeds, calls, returned>>

Times == 1..MaxTime

Next ==
    \/ \E c \in Callers : \E f \in feeds[c] : \E p \in Fragments[f] :
        \/ PassThrough(c, f, p)
        \/ Reject(c, f, p)
        \/ \E t \in Times : Lookup(c, f, p, t)
    \/ \E c \in Callers : Insert(c) \/ Flush(c)
    \/ \E t \in Times : DiscardOlderThan(t)

Spec == Init /\ [][Next]_vars

-----------------------------------------------------------------------------
\* Every value has its type: the counters are uint16 and no list is longer
\* than IPv4MaximumFragmentListLen (defrag.go:118).
TypeOK ==
    /\ ipFlows \subseteq Flows
    /\ \A f \in Flows :
        /\ lists[f].List \in Seq(Fragments[f])
        /\ Len(lists[f].List) <= IPv4MaximumFragmentListLen
        /\ lists[f].Highest \in 0..(W - 1) /\ lists[f].Current \in 0..(W - 1)
        /\ lists[f].LastSeen \in 0..MaxTime
    /\ \A c \in Callers : calls[c].pc \in {"idle", "insert", "flush"}

\* Between the calls, the map holds nothing that should have left it: each
\* of its lists has a fragment and still lacks one, is in the order of the
\* offsets, and its two counters say so.  In particular a list that lost a
\* race with DiscardOlderThan, or whose datagram was built, is gone.  And the
\* counters are uint16 and the lists within their limit at all times.
NothingLeftOver ==
    /\ TypeOK
    /\ \A f \in ipFlows \ Held :
        LET fl == lists[f] IN
        /\ fl.List # <<>> /\ ~Ready(fl)
        /\ ToSet(fl.List) # Fragments[f]
        /\ Len(fl.List) < IPv4MaximumFragmentListLen
        /\ \A i, j \in DOMAIN fl.List :
            i < j => fl.List[i].FragOffset < fl.List[j].FragOffset

-----------------------------------------------------------------------------
(* What the defragmenter promises: it implements Datagram.                 *)

\* A list whose datagram was built, or that is full, is on its way out.
Done(f) == \E c \in Callers : calls[c].pc = "flush" /\ calls[c].f = f
Built(f) == Done(f) /\ returned[f] # <<>>

\* The flows that may be forgotten: their list is not of the latest time, has as
\* many fragments as a list may have, or has left the map.
Silent == {f \in Flows : f \notin ipFlows \/ Full(lists[f]) \/ lists[f].LastSeen < MaxTime}

\* The fragments that are never taken: those with less than eight bytes, the last
\* one included, and those behind the largest offset.
Untaken(f) == {p \in Fragments[f] :
    /\ ~dontDefrag(p)
    /\ End(p) - p.FragOffset * Unit < IPv4MinimumFragmentSize
         \/ p.FragOffset > IPv4MaximumFragmentOffset}

Kept(f) == IF Built(f) THEN {} ELSE ToSet(lists[f].List)

WholeDatagram(f) ==
    [i \in 1..Max({End(p) : p \in Fragments[f]}) |-> i - 1]

Abstract == INSTANCE Datagram WITH
    Parts <- Fragments,
    Whole <- [f \in Flows |-> WholeDatagram(f)],
    Refused <- [f \in Flows |-> Untaken(f)],
    Once <- {},
    got <- [f \in Flows |-> Kept(f)],
    twice <- {},
    old <- Silent

\* A call returns a datagram exactly when it brings the last fragment that was
\* missing, and the datagram is the one that was sent, whatever the order of the
\* fragments, however often each arrives, up to the largest datagram.  Fragments
\* are lost only where securityChecks refuses them, for their size or offset, or
\* with a list that was silent or is full (DefragIPv4WithTimestamp).
Refines == Abstract!Spec
=============================================================================
