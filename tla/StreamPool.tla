----------------------------- MODULE StreamPool -----------------------------
(***************************************************************************)
(* The StreamPool of tcpassembly shared by several Assemblers, each in its *)
(* own goroutine (src/tcpassembly/assembly.go).  A step is what one        *)
(* goroutine does between two points where another can interfere: a        *)
(* critical section of the pool's mutex, or a piece of a handler that runs *)
(* under the mutex of a connection.                                        *)
(*                                                                         *)
(* What TcpAssembly says of the bytes is abstracted to what the pool and   *)
(* the page caches see of it: a packet is buffered or sent, any number of  *)
(* buffered pages goes out with it, and a batch may end the stream.        *)
(***************************************************************************)
EXTENDS Integers, Sequences, FiniteSets

CONSTANTS
    Assemblers,     \* the goroutines, each with an Assembler of its own
    Keys,           \* the flows
    Conns,          \* the connection objects the pool may ever allocate
    None,
    Feeds,          \* which Assembler is passed packets of which flow
    Flushers,       \* the Assemblers whose Flush methods are called
    MaxStreams,     \* bound: calls of StreamFactory.New
    MaxPackets,     \* bound: packets passed to the Assemblers
    MaxFlushes,     \* bound: flushes of the Assemblers
    MaxPages        \* bound: pages buffered in a connection

ASSUME PoolAssumption ==
    /\ None \notin Assemblers \cup Keys \cup Conns
    /\ Feeds \subseteq Assemblers \X Keys
    /\ Flushers \subseteq Assemblers
    /\ MaxStreams \in Nat /\ MaxPackets \in Nat /\ MaxFlushes \in Nat
    /\ MaxPages \in Nat

VARIABLES
    \* StreamPool
    conns,      \* p.conns: Keys -> object or None
    free,       \* the objects given back to p.free, a stack
    fresh,      \* the objects of p.all that were never in use
    \* connection objects
    key, stream, closed, pages, mu,
    \* goroutines: program counter, packet, flush, connection, new stream
    pc, packet, flush, conn, made,
    used,       \* a.pc.used of each Assembler
    \* the streams StreamFactory.New returned, numbered from 1
    streams,    \* how many there are
    skey,       \* the flow each was made for
    completes,  \* how often each was told ReassemblyComplete
    late,       \* whether one was passed bytes after that
    stray,      \* whether one was passed bytes of another flow
    packets, flushes

pool  == <<conns, free, fresh>>
objs  == <<key, stream, closed, pages, mu>>
procs == <<pc, packet, flush, conn, made, used>>
hist  == <<streams, skey, completes, late, stray>>
count == <<packets, flushes>>
vars  == <<pool, objs, procs, hist, count>>

Ids == 1 .. MaxStreams

\* A packet of a flow; creates: it has a SYN or a payload; end: FIN or RST.
Packet == {p \in [k : Keys, creates : BOOLEAN, end : BOOLEAN] : p.creates \/ p.end}

NoPacket == [k |-> None, creates |-> FALSE, end |-> FALSE]
NoFlush  == [on |-> FALSE, all |-> FALSE, last |-> FALSE, todo |-> {}]

Init ==
    /\ conns = [k \in Keys |-> None] /\ free = <<>> /\ fresh = Conns
    /\ key = [c \in Conns |-> None] /\ stream = [c \in Conns |-> 0]
    /\ closed = [c \in Conns |-> FALSE] /\ pages = [c \in Conns |-> 0]
    /\ mu = [c \in Conns |-> None]
    /\ pc = [a \in Assemblers |-> "idle"]
    /\ packet = [a \in Assemblers |-> NoPacket]
    /\ flush = [a \in Assemblers |-> NoFlush]
    /\ conn = [a \in Assemblers |-> None]
    /\ made = [a \in Assemblers |-> 0]
    /\ used = [a \in Assemblers |-> 0]
    /\ streams = 0 /\ skey = [s \in Ids |-> None]
    /\ completes = [s \in Ids |-> 0] /\ late = FALSE /\ stray = FALSE
    /\ packets = 0 /\ flushes = 0

Goto(a, l) == pc' = [pc EXCEPT ![a] = l]

-----------------------------------------------------------------------------
\* AssembleWithTimestamp.

\* A packet that is not ignored as useless.
Assemble(a, p) ==
    /\ pc[a] = "idle" /\ <<a, p.k>> \in Feeds /\ packets < MaxPackets
    /\ packet' = [packet EXCEPT ![a] = p]
    /\ packets' = packets + 1
    /\ Goto(a, "lookup")
    /\ UNCHANGED <<pool, objs, flush, conn, made, used, hist, flushes>>

\* getConnection, the lookup under p.mu.RLock.  With nothing found a packet
\* that creates no connection is dropped.
Lookup(a) ==
    /\ pc[a] = "lookup"
    /\ LET c == conns[packet[a].k]
       IN  /\ conn' = [conn EXCEPT ![a] = c]
           /\ Goto(a, IF c # None THEN "lock"
                      ELSE IF packet[a].creates THEN "new" ELSE "idle")
    /\ UNCHANGED <<pool, objs, packet, flush, made, used, hist, count>>

\* getConnection, factory.New outside of any lock.
New(a) ==
    /\ pc[a] = "new" /\ streams < MaxStreams
    /\ streams' = streams + 1
    /\ skey' = [skey EXCEPT ![streams + 1] = packet[a].k]
    /\ made' = [made EXCEPT ![a] = streams + 1]
    /\ Goto(a, "insert")
    /\ UNCHANGED <<pool, objs, packet, flush, conn, used, completes, late,
                   stray, count>>

\* newConnection takes the top of p.free, or an object that was never used.
Takes(c) == IF free = <<>> THEN c \in fresh ELSE c = free[Len(free)]

\* Mutant: an object that is used again keeps its stream.
InsertKeepingStream(a, c) ==
    /\ pc[a] = "insert" /\ Takes(c)
    /\ IF free = <<>>
       THEN fresh' = fresh \ {c} /\ free' = free
       ELSE free' = SubSeq(free, 1, Len(free) - 1) /\ fresh' = fresh
    /\ key'    = [key EXCEPT ![c] = packet[a].k]
    /\ stream' = [stream EXCEPT ![c] = IF c \in fresh THEN made[a] ELSE @]
    /\ closed' = [closed EXCEPT ![c] = FALSE]
    /\ pages'  = [pages EXCEPT ![c] = 0]
    /\ LET c2 == conns[packet[a].k]
       IN  IF c2 # None
           THEN conn' = [conn EXCEPT ![a] = c2] /\ conns' = conns
           ELSE /\ conn' = [conn EXCEPT ![a] = c]
                /\ conns' = [conns EXCEPT ![packet[a].k] = c]
    /\ Goto(a, "lock")
    /\ UNCHANGED <<mu, packet, flush, made, used, hist, count>>

\* getConnection, the section under p.mu.Lock: newConnection resets an
\* object (its mutex is not taken), and only then another Assembler's
\* connection for the flow is looked for; if there is one, the object just
\* taken is in neither p.conns nor p.free.
Insert(a, c) ==
    /\ pc[a] = "insert" /\ Takes(c)
    /\ IF free = <<>>
       THEN fresh' = fresh \ {c} /\ free' = free
       ELSE free' = SubSeq(free, 1, Len(free) - 1) /\ fresh' = fresh
    /\ key'    = [key EXCEPT ![c] = packet[a].k]
    /\ stream' = [stream EXCEPT ![c] = made[a]]
    /\ closed' = [closed EXCEPT ![c] = FALSE]
    /\ pages'  = [pages EXCEPT ![c] = 0]
    /\ LET c2 == conns[packet[a].k]
       IN  IF c2 # None
           THEN conn' = [conn EXCEPT ![a] = c2] /\ conns' = conns
           ELSE /\ conn' = [conn EXCEPT ![a] = c]
                /\ conns' = [conns EXCEPT ![packet[a].k] = c]
    /\ Goto(a, "lock")
    /\ UNCHANGED <<mu, packet, flush, made, used, hist, count>>

\* Mutant: no closed check after locking.
LockConnUnchecked(a) ==
    /\ pc[a] = "lock" /\ mu[conn[a]] = None
    /\ Goto(a, "deliver")
    /\ mu' = [mu EXCEPT ![conn[a]] = a]
    /\ UNCHANGED <<pool, key, stream, closed, pages, packet, flush, conn, made,
                   used, hist, count>>

\* Mutant: the closed connection is not unlocked before the retry.
LockConnKept(a) ==
    /\ pc[a] = "lock" /\ mu[conn[a]] = None
    /\ mu' = [mu EXCEPT ![conn[a]] = a]
    /\ Goto(a, IF closed[conn[a]] THEN "lookup" ELSE "deliver")
    /\ UNCHANGED <<pool, key, stream, closed, pages, packet, flush, conn, made,
                   used, hist, count>>

\* conn.mu.Lock, and the closed check: unlock and start over if so.
LockConn(a) ==
    /\ pc[a] = "lock" /\ mu[conn[a]] = None
    /\ IF closed[conn[a]]
       THEN Goto(a, "lookup") /\ mu' = mu
       ELSE Goto(a, "deliver") /\ mu' = [mu EXCEPT ![conn[a]] = a]
    /\ UNCHANGED <<pool, key, stream, closed, pages, packet, flush, conn, made,
                   used, hist, count>>

\* stream.Reassembled for the stream of the locked connection, with bytes
\* of flow k; n buffered pages are popped for it, b were buffered before.
Reassembled(a, k, b, n) ==
    LET c == conn[a]
        s == stream[c]
    IN  /\ late'  = (late \/ completes[s] > 0)
        /\ stray' = (stray \/ skey[s] # k)
        /\ pages' = [pages EXCEPT ![c] = @ + b - n]
        /\ used'  = [used EXCEPT ![a] = @ + b - n]

\* The rest of AssembleWithTimestamp for a packet that is only buffered.
Buffer(a) ==
    /\ pc[a] = "deliver" /\ pages[conn[a]] < MaxPages
    /\ pages' = [pages EXCEPT ![conn[a]] = @ + 1]
    /\ used'  = [used EXCEPT ![a] = @ + 1]
    /\ mu' = [mu EXCEPT ![conn[a]] = None]
    /\ Goto(a, "idle")
    /\ UNCHANGED <<pool, key, stream, closed, packet, flush, conn, made, hist, count>>

\* The rest of AssembleWithTimestamp for a packet that is sent (b = 0), or
\* that is buffered at a limit, so that pages are popped (b = 1): the
\* connection is closed if the last thing sent, the packet or a page, has
\* End.
Send(a, b, n, end) ==
    /\ pc[a] = "deliver" /\ n \in b .. pages[conn[a]] + b
    /\ n = 0 \/ pages[conn[a]] = 0 => end = packet[a].end
    /\ Reassembled(a, packet[a].k, b, n)
    /\ IF end
       THEN Goto(a, "complete") /\ mu' = mu
       ELSE Goto(a, "idle") /\ mu' = [mu EXCEPT ![conn[a]] = None]
    /\ UNCHANGED <<pool, key, stream, closed, packet, flush, conn, made,
                   streams, skey, completes, count>>

-----------------------------------------------------------------------------
\* closeConnection, by the goroutine that has the connection locked.

\* Mutant: a connection with pages left is closed without telling its stream.
CompleteIfDrained(a) ==
    /\ pc[a] = "complete"
    /\ completes' = IF pages[conn[a]] > 0 THEN completes
                    ELSE [completes EXCEPT ![stream[conn[a]]] = @ + 1]
    /\ closed' = [closed EXCEPT ![conn[a]] = TRUE]
    /\ Goto(a, "remove")
    /\ UNCHANGED <<pool, key, stream, pages, mu, packet, flush, conn, made, used,
                   streams, skey, late, stray, count>>

Complete(a) ==
    /\ pc[a] = "complete"
    /\ completes' = [completes EXCEPT ![stream[conn[a]]] = @ + 1]
    /\ closed' = [closed EXCEPT ![conn[a]] = TRUE]
    /\ Goto(a, "remove")
    /\ UNCHANGED <<pool, key, stream, pages, mu, packet, flush, conn, made, used,
                   streams, skey, late, stray, count>>

\* Mutant: the object is freed while p.conns still leads to it.
RemoveNotDeleted(a) ==
    /\ pc[a] = "remove"
    /\ free' = Append(free, conn[a])
    /\ Goto(a, "release")
    /\ UNCHANGED <<conns, fresh, objs, packet, flush, conn, made, used, hist, count>>

\* remove: whatever p.conns has for the object's flow is deleted.
Remove(a) ==
    /\ pc[a] = "remove"
    /\ conns' = [conns EXCEPT ![key[conn[a]]] = None]
    /\ free' = Append(free, conn[a])
    /\ Goto(a, "release")
    /\ UNCHANGED <<fresh, objs, packet, flush, conn, made, used, hist, count>>

\* The pages the object has by now go back to the cache of this Assembler.
\* AssembleWithTimestamp then unlocks and returns, a flush looks again.
Release(a) ==
    /\ pc[a] = "release"
    /\ used' = [used EXCEPT ![a] = @ - pages[conn[a]]]
    /\ IF ~flush[a].on
       THEN Goto(a, "idle") /\ mu' = [mu EXCEPT ![conn[a]] = None]
       ELSE Goto(a, "check") /\ mu' = mu
    /\ UNCHANGED <<pool, key, stream, closed, pages, packet, flush, conn, made,
                   hist, count>>

-----------------------------------------------------------------------------
\* FlushAll and FlushWithOptions.

Live == {conns[k] : k \in Keys} \ {None}

\* connections(), the snapshot under p.mu.RLock.
FlushStart(a, all) ==
    /\ pc[a] = "idle" /\ a \in Flushers /\ flushes < MaxFlushes
    /\ Live # {}
    /\ flush' = [flush EXCEPT ![a] = [NoFlush EXCEPT !.on = TRUE, !.all = all, !.todo = Live]]
    /\ packet' = [packet EXCEPT ![a] = NoPacket]
    /\ flushes' = flushes + 1
    /\ Goto(a, "next")
    /\ UNCHANGED <<pool, objs, conn, made, used, hist, packets>>

FlushNext(a, c) ==
    /\ pc[a] = "next" /\ c \in flush[a].todo
    /\ conn' = [conn EXCEPT ![a] = c]
    /\ flush' = [flush EXCEPT ![a].todo = @ \ {c}, ![a].last = FALSE]
    /\ Goto(a, "flock")
    /\ UNCHANGED <<pool, objs, packet, made, used, hist, count>>

FlushReturn(a) ==
    /\ pc[a] = "next" /\ flush[a].todo = {}
    /\ flush' = [flush EXCEPT ![a] = NoFlush]
    /\ Goto(a, "idle")
    /\ UNCHANGED <<pool, objs, packet, conn, made, used, hist, count>>

\* Mutant: the flush does not lock the connection.
FlushUnlocked(a) ==
    /\ pc[a] = "flock"
    /\ Goto(a, "check")
    /\ UNCHANGED <<pool, objs, packet, flush, conn, made, used, hist, count>>

FlushLock(a) ==
    /\ pc[a] = "flock" /\ mu[conn[a]] = None
    /\ mu' = [mu EXCEPT ![conn[a]] = a]
    /\ Goto(a, "check")
    /\ UNCHANGED <<pool, key, stream, closed, pages, packet, flush, conn, made,
                   used, hist, count>>

\* The loops look at conn.closed each time round, and whatever the object
\* has become by then they take for the connection they locked.  skipFlush
\* of a connection with pages:
FlushSkip(a, n, end) ==
    /\ pc[a] = "check" /\ ~closed[conn[a]] /\ ~flush[a].last
    /\ n \in 1 .. pages[conn[a]]
    /\ Reassembled(a, key[conn[a]], 0, n)
    /\ Goto(a, IF end THEN "complete" ELSE "check")
    /\ UNCHANGED <<pool, key, stream, closed, mu, packet, flush, conn, made,
                   streams, skey, completes, count>>

\* skipFlush of a connection without pages or, as the last thing that
\* FlushWithOptions does with a connection, the close of an old one.
FlushClose(a) ==
    /\ pc[a] = "check" /\ ~closed[conn[a]] /\ ~flush[a].last
    /\ pages[conn[a]] = 0
    /\ flush' = [flush EXCEPT ![a].last = ~flush[a].all]
    /\ Goto(a, "complete")
    /\ UNCHANGED <<pool, objs, packet, conn, made, used, hist, count>>

\* The connection is closed or, for FlushWithOptions, too young.
FlushLeave(a) ==
    /\ pc[a] = "check"
    /\ flush[a].all => closed[conn[a]]
    /\ mu' = [mu EXCEPT ![conn[a]] = None]
    /\ Goto(a, "next")
    /\ UNCHANGED <<pool, key, stream, closed, pages, packet, flush, conn, made,
                   used, hist, count>>

-----------------------------------------------------------------------------
\* A goroutine in a handler takes its next step.
Step(a) ==
    \/ Lookup(a) \/ New(a) \/ LockConn(a)
    \/ \E c \in Conns : Insert(a, c)
    \/ Buffer(a)
    \/ \E b \in 0 .. 1, n \in 0 .. MaxPages + 1, end \in BOOLEAN : Send(a, b, n, end)
    \/ Complete(a) \/ Remove(a) \/ Release(a)
    \/ \E c \in Conns : FlushNext(a, c)
    \/ \E n \in 0 .. MaxPages, end \in BOOLEAN : FlushSkip(a, n, end)
    \/ FlushReturn(a) \/ FlushLock(a) \/ FlushClose(a) \/ FlushLeave(a)

Next == \E a \in Assemblers :
            \/ \E p \in Packet : Assemble(a, p)
            \/ \E all \in BOOLEAN : FlushStart(a, all)
            \/ Step(a)

\* Every goroutine runs, and Go's mutexes do not starve a waiter.
Spec == Init /\ [][Next]_vars /\ \A a \in Assemblers : WF_vars(Step(a))

-----------------------------------------------------------------------------
(***************************************************************************)
(* Properties                                                              *)
(***************************************************************************)

\* The places where a goroutine has conn.mu, and those where it may be
\* passing the connection's stream bytes or its completion.
HasLock == {"deliver", "complete", "remove", "release", "check"}
HasConn == HasLock \cup {"lock", "flock"}

PoolType ==
    /\ conns \in [Keys -> Conns \cup {None}]
    /\ free \in Seq(Conns) /\ fresh \subseteq Conns
    /\ key \in [Conns -> Keys \cup {None}] /\ stream \in [Conns -> Ids \cup {0}]
    /\ closed \in [Conns -> BOOLEAN] /\ pages \in [Conns -> Int]
    /\ mu \in [Conns -> Assemblers \cup {None}]

Labels == {"idle", "lookup", "new", "insert", "next"} \cup HasConn
Flush  == [on : BOOLEAN, all : BOOLEAN, last : BOOLEAN, todo : SUBSET Conns]

HandlerType ==
    /\ pc \in [Assemblers -> Labels]
    /\ packet \in [Assemblers -> Packet \cup {NoPacket}]
    /\ flush \in [Assemblers -> Flush]
    /\ conn \in [Assemblers -> Conns \cup {None}]
    /\ made \in [Assemblers -> Ids \cup {0}]
    /\ used \in [Assemblers -> Int]
    /\ packets \in Nat /\ flushes \in Nat

StreamType ==
    /\ streams \in Ids \cup {0} /\ skey \in [Ids -> Keys \cup {None}]
    /\ completes \in [Ids -> Nat] /\ late \in BOOLEAN /\ stray \in BOOLEAN

Pointers ==
    \A a \in Assemblers :
       /\ pc[a] \in HasConn => conn[a] \in Conns \ fresh
       /\ flush[a].todo \cap fresh = {}
       /\ pc[a] \in {"lookup", "new", "insert", "lock", "deliver"} =>
             packet[a].k \in Keys

\* Every variable has its type, and no goroutine ever works on, or has on
\* its list, no connection or one that was never in use.
TypeOK == PoolType /\ HandlerType /\ StreamType /\ Pointers

\* ReassemblyComplete is called at most once on a stream, although objects
\* are reused while goroutines still point to them.
CompletedOnce == \A s \in Ids : completes[s] <= 1

\* No stream is passed bytes after its ReassemblyComplete.
NothingLate == ~late

\* ReassemblyComplete is the last call on a stream, and the only one of its
\* kind (closeConnection, and the closed check behind every lock).
CompleteIsLast == CompletedOnce /\ NothingLate

\* "A single stream receives its data serially": two goroutines never work
\* on connections with the same stream.
Serial ==
    \A a, b \in Assemblers :
        a # b /\ pc[a] \in HasLock /\ pc[b] \in HasLock =>
            conn[a] # conn[b] /\ stream[conn[a]] # stream[conn[b]]

\* p.free has no object twice, none that p.conns leads to, and none that is
\* open; p.conns leads to an object under the object's own flow.
FreeListSound ==
    /\ \A i, j \in DOMAIN free : i # j => free[i] # free[j]
    /\ \A i \in DOMAIN free : closed[free[i]] /\ free[i] \notin Live
    /\ \A k \in Keys : conns[k] # None => key[conns[k]] = k

\* A stream is only passed bytes of the flow it was made for.
RightStream == ~stray

\* With nobody at work and no connection left, every stream ever made was
\* told so ("Call ReassemblyComplete one time").
AllCompleted ==
    (\A a \in Assemblers : pc[a] = "idle") /\ Live = {} =>
        \A s \in 1 .. streams : completes[s] = 1

\* Every call of AssembleWithTimestamp and of a flush returns: neither the
\* retry loop of the one nor the loop of the other over a connection that
\* is reused under it goes on for ever, and no goroutine waits for a lock
\* for ever.
CallsReturn == \A a \in Assemblers : []<>(pc[a] = "idle")
=============================================================================
