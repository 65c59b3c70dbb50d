----------------------------- MODULE PcapHandle -----------------------------
(***************************************************************************)
(* pcap/pcap.go and pcap_unix.go: handles that one goroutine reads from    *)
(* and another one closes.  libpcap, the kernel and the poll call are      *)
(* external: a live handle gets packets and timeouts, a file ends, and     *)
(* either may give errors.                                                 *)
(***************************************************************************)
EXTENDS Integers, Sequences, FiniteSets

CONSTANTS
    Handles,     \* 1..n, in the order they are read in
    Modes,       \* the kinds of handles: "file", or the timeout of a live one:
                 \* "positive", "negative" (BlockForever) or "zero"
    MaxPackets   \* bound: the packets that come in on each handle

ASSUME HandleAssumption ==
    /\ IsFiniteSet(Handles) /\ Handles = 1..Cardinality(Handles)
    /\ Modes \subseteq {"file", "positive", "negative", "zero"}
    /\ MaxPackets \in Nat

VARIABLES
    mode,     \* mode[h]: the kind of h, which does not change
    cptr,     \* cptr[h]: the C handle is open
    stop,     \* stop[h]: Close wants the reader to stop
    mu,       \* mu[h]: who holds the mutex
    closer,   \* closer[h]: where Close is: "no", "stopping", "closed"
    arrived,  \* arrived[h]: the packets that came in so far
    taken,    \* taken[h]: how many of them libpcap has returned
    rd        \* the call of ReadPacketData: where it is, on which handle,
              \* whether it has waited, and what it returns

handleVars == <<mode, cptr, stop, mu, closer, arrived, taken, rd>>

NoRead == [pc |-> "none"]

\* What a read returns, besides a packet <<h, n>>.
EOF == <<"EOF">>
ReadError == <<"ReadError">>
TimeoutExpired == <<"TimeoutExpired">>

HandleInit ==
    /\ mode \in [Handles -> Modes]
    /\ cptr = [h \in Handles |-> TRUE]
    /\ stop = [h \in Handles |-> FALSE]
    /\ mu = [h \in Handles |-> "free"]
    /\ closer = [h \in Handles |-> "no"]
    /\ arrived = [h \in Handles |-> IF mode[h] = "file" THEN MaxPackets ELSE 0]
    /\ taken = [h \in Handles |-> 0]
    /\ rd = NoRead

\* A packet comes in on a live handle.
Arrive(h) ==
    /\ mode[h] # "file" /\ arrived[h] < MaxPackets
    /\ arrived' = [arrived EXCEPT ![h] = @ + 1]
    /\ UNCHANGED <<mode, cptr, stop, mu, closer, taken, rd>>

-----------------------------------------------------------------------------
(* ReadPacketData and ZeroCopyReadPacketData, with getNextBufPtrLocked.    *)

Lock(h) ==
    /\ rd.pc = "lock" /\ rd.h = h /\ mu[h] = "free"
    /\ mu' = [mu EXCEPT ![h] = "reader"]
    /\ rd' = IF cptr[h] THEN [rd EXCEPT !.pc = "loop"]
             ELSE [rd EXCEPT !.pc = "unlock", !.result = EOF]
    /\ UNCHANGED <<mode, cptr, stop, closer, arrived, taken>>

\* Mutant: the loop does not look at stop.
LoopOn(h) ==
    /\ rd.pc = "loop" /\ rd.h = h
    /\ rd' = [rd EXCEPT !.pc = "next"]
    /\ UNCHANGED <<mode, cptr, stop, mu, closer, arrived, taken>>

\* The loop looks at stop before each attempt.
Loop(h) ==
    /\ rd.pc = "loop" /\ rd.h = h
    /\ rd' = IF stop[h] THEN [rd EXCEPT !.pc = "unlock", !.result = EOF]
             ELSE [rd EXCEPT !.pc = "next"]
    /\ UNCHANGED <<mode, cptr, stop, mu, closer, arrived, taken>>

\* pcapNextPacketEx has a packet for us.
NextOk(h) ==
    /\ rd.pc = "next" /\ rd.h = h /\ taken[h] < arrived[h]
    /\ taken' = [taken EXCEPT ![h] = @ + 1]
    /\ rd' = [rd EXCEPT !.pc = "unlock", !.result = <<h, taken[h] + 1>>]
    /\ UNCHANGED <<mode, cptr, stop, mu, closer, arrived>>

\* NextErrorNoMorePackets, at the end of a file.
NextEOF(h) ==
    /\ rd.pc = "next" /\ rd.h = h /\ mode[h] = "file" /\ taken[h] = arrived[h]
    /\ rd' = [rd EXCEPT !.pc = "unlock", !.result = EOF]
    /\ UNCHANGED <<mode, cptr, stop, mu, closer, arrived, taken>>

\* Any other result, such as an interface that went down or a file that was cut
\* off, is the caller's.
NextError(h) ==
    /\ rd.pc = "next" /\ rd.h = h
    /\ rd' = [rd EXCEPT !.pc = "unlock", !.result = ReadError]
    /\ UNCHANGED <<mode, cptr, stop, mu, closer, arrived, taken>>

\* There is no packet.  A handle with a timeout does not block in libpcap: the
\* first time the reader waits, the second time it gives up.
NextTimeout(h) ==
    /\ rd.pc = "next" /\ rd.h = h
    /\ mode[h] = "positive" /\ taken[h] = arrived[h]
    /\ rd' = IF rd.waited THEN [rd EXCEPT !.pc = "unlock", !.result = TimeoutExpired]
             ELSE [rd EXCEPT !.pc = "wait"]
    /\ UNCHANGED <<mode, cptr, stop, mu, closer, arrived, taken>>

\* With BlockForever libpcap has a timeout too (timeoutMillis), and where it
\* returns when that is over, the reader waits and tries again.
NextTimeoutForever(h) ==
    /\ rd.pc = "next" /\ rd.h = h
    /\ mode[h] = "negative" /\ taken[h] = arrived[h]
    /\ rd' = [rd EXCEPT !.pc = "wait"]
    /\ UNCHANGED <<mode, cptr, stop, mu, closer, arrived, taken>>

\* What libpcap may return, and what nobody can count on.
NextUnsure(h) == NextError(h) \/ NextTimeoutForever(h)

\* The reader is in libpcap, which holds it until there is a packet.
Blocked(h) ==
    /\ rd.pc = "next" /\ rd.h = h
    /\ mode[h] \in {"negative", "zero"} /\ taken[h] = arrived[h]

\* waitForPacket: poll returns with a packet or when the timeout is over.
WaitForPacket(h) ==
    /\ rd.pc = "wait" /\ rd.h = h
    /\ rd' = [rd EXCEPT !.pc = "loop", !.waited = TRUE]
    /\ UNCHANGED <<mode, cptr, stop, mu, closer, arrived, taken>>

Unlock(h) ==
    /\ rd.pc = "unlock" /\ rd.h = h
    /\ mu' = [mu EXCEPT ![h] = "free"]
    /\ rd' = [rd EXCEPT !.pc = "return"]
    /\ UNCHANGED <<mode, cptr, stop, closer, arrived, taken>>

ReadStep(h) ==
    \/ Lock(h) \/ Loop(h) \/ NextOk(h) \/ NextEOF(h) \/ NextTimeout(h)
    \/ WaitForPacket(h) \/ Unlock(h)

-----------------------------------------------------------------------------
\* Close sets stop, then waits for the reader to leave.
CloseStart(h) ==
    /\ closer[h] = "no" /\ cptr[h]
    /\ closer' = [closer EXCEPT ![h] = "stopping"]
    /\ stop' = [stop EXCEPT ![h] = TRUE]
    /\ UNCHANGED <<mode, cptr, mu, arrived, taken, rd>>

\* Mutant: Close does not wait for the reader.
CloseFinishUnlocked(h) ==
    /\ closer[h] = "stopping"
    /\ cptr' = [cptr EXCEPT ![h] = FALSE]
    /\ closer' = [closer EXCEPT ![h] = "closed"]
    /\ UNCHANGED <<mode, stop, mu, arrived, taken, rd>>

CloseFinish(h) ==
    /\ closer[h] = "stopping" /\ mu[h] = "free"
    /\ cptr' = [cptr EXCEPT ![h] = FALSE]
    /\ closer' = [closer EXCEPT ![h] = "closed"]
    /\ UNCHANGED <<mode, stop, mu, arrived, taken, rd>>

-----------------------------------------------------------------------------
\* The C object of a handle is never freed while a reader is in a C call with
\* it, and the mutex that this rests on is free when nobody is in the handle:
\* whatever the reader waits for, it leaves before pcapClose (Close).
NoUseAfterClose ==
    \A h \in Handles :
        /\ rd.pc \in {"next", "wait"} /\ rd.h = h => cptr[h]
        /\ mu[h] = "reader" <=> rd.pc \in {"loop", "next", "wait", "unlock"} /\ rd.h = h
=============================================================================
