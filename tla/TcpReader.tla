------------------------------ MODULE TcpReader ------------------------------
(***************************************************************************)
(* The ReaderStream of tcpreader (src/tcpassembly/tcpreader/reader.go):    *)
(* the goroutine of an Assembler passes it batches with Reassembled, that  *)
(* of its owner takes the bytes out with Read, and the two meet on the     *)
(* unbuffered channels reassembled and done.  A step is what a goroutine   *)
(* does up to its next operation on a channel; an operation both take part *)
(* in is one step of both.                                                 *)
(*                                                                         *)
(* The bytes of a stream are numbered from 0 as Reassembled is passed      *)
(* them; a Reassembly is an interval of numbers and whether its Skip is    *)
(* not zero.                                                               *)
(***************************************************************************)
EXTENDS Integers, Sequences, FiniteSets

CONSTANTS
    LossErrors,     \* ReaderStreamOptions.LossErrors
    Closes,         \* whether the owner may call Close
    ReadSizes,      \* the lengths of the slices it passes to Read
    MaxBatches,     \* bound: calls of Reassembled
    MaxBatch,       \* bound: Reassembly objects in a call
    MaxBytes        \* bound: bytes in a Reassembly

ASSUME ReaderAssumption ==
    /\ LossErrors \in BOOLEAN /\ Closes \in BOOLEAN
    /\ ReadSizes \subseteq Nat
    /\ MaxBatches \in Nat /\ MaxBatch \in Nat /\ MaxBytes \in Nat

VARIABLES
    \* the goroutine of the Assembler
    asm,            \* "idle", in Reassembled ("send", "wait"), "closing", "done"
    ret,            \* the batch of its last Reassembled call
    batches,
    \* the channels
    reassembledClosed, doneClosed,
    \* the goroutine of the owner
    rd,             \* "idle", in Read ("signal", "receive") or in Close
    size,           \* the length of the slice Read was passed
    current, closed, lossReported, first,
    \* what was passed in and what came out
    given,          \* how many bytes Reassembled was passed
    taken,          \* how many bytes Read returned
    eof,            \* whether Read returned io.EOF before any Close
    skips,          \* the Reassembly objects with a Skip
    losses,         \* how often Read returned DataLost
    lostAt,         \* the bytes it did so before
    left            \* whether Close was called

asmVars  == <<asm, ret, batches, given, skips>>
chanVars == <<reassembledClosed, doneClosed>>
readVars == <<size, current, closed, lossReported, first, taken, eof, losses, lostAt, left>>
vars     == <<asmVars, chanVars, rd, readVars>>

Init ==
    /\ asm = "idle" /\ ret = <<>> /\ batches = 0 /\ given = 0 /\ skips = {}
    /\ reassembledClosed = FALSE /\ doneClosed = FALSE
    /\ rd = "idle" /\ size = 0 /\ current = <<>> /\ closed = FALSE
    /\ lossReported = FALSE /\ first = TRUE
    /\ taken = 0 /\ eof = FALSE /\ losses = 0 /\ lostAt = {} /\ left = FALSE

-----------------------------------------------------------------------------
\* The Assembler's side.

\* The batches: where the bytes of each of k Reassembly objects end, counted
\* from the first byte of the batch, and which have a Skip.
Ends(k) == {e \in [0 .. k -> 0 .. (k * MaxBytes)] :
               /\ e[0] = 0
               /\ \A i, j \in 0 .. k : i <= j => e[i] <= e[j]
               /\ \A i \in 1 .. k : e[i] - e[i - 1] <= MaxBytes}

Batches == UNION {[ends : Ends(k), skip : [1 .. k -> BOOLEAN]] : k \in 1 .. MaxBatch}

\* The Reassembly objects of a batch whose bytes start at number n.
Batch(n, b) == [i \in DOMAIN b.skip |-> [from |-> n + b.ends[i - 1],
                                         len  |-> b.ends[i] - b.ends[i - 1],
                                         skip |-> b.skip[i]]]

\* Reassembled up to the send on r.reassembled.
Reassembled(b) ==
    /\ asm = "idle" /\ batches < MaxBatches
    /\ asm' = "send"
    /\ ret' = Batch(given, b)
    /\ given' = given + b.ends[Len(b.skip)]
    /\ skips' = skips \cup {ret'[i] : i \in {j \in DOMAIN ret' : ret'[j].skip}}
    /\ batches' = batches + 1
    /\ UNCHANGED <<chanVars, rd, readVars>>

\* ReassemblyComplete closes the one channel and then the other.
ReassemblyComplete ==
    /\ asm = "idle"
    /\ asm' = "closing" /\ reassembledClosed' = TRUE
    /\ UNCHANGED <<ret, batches, given, skips, doneClosed, rd, readVars>>

CloseDone ==
    /\ asm = "closing"
    /\ asm' = "done" /\ doneClosed' = TRUE
    /\ UNCHANGED <<ret, batches, given, skips, reassembledClosed, rd, readVars>>

-----------------------------------------------------------------------------
\* The owner's side.

nonEmpty(c) == {i \in DOMAIN c : c[i].len > 0}

\* stripEmpty: what it leaves of r.current, and of r.lossReported.
stripEmpty(c) ==
    IF nonEmpty(c) = {} THEN <<>>
    ELSE SubSeq(c, CHOOSE i \in nonEmpty(c) : \A j \in nonEmpty(c) : i <= j, Len(c))

\* Mutant: the flag of one Reassembly is kept for the next.
stripReportedKept(c, reported) == reported

stripReported(c, reported) == reported /\ (c # <<>> => c[1].len > 0)

\* Read, once there is a current Reassembly: a loss is reported before its
\* bytes are copied.
Return(c, reported, n) ==
    /\ rd' = "idle"
    /\ IF LossErrors /\ ~reported /\ c[1].skip
       THEN /\ lossReported' = TRUE /\ current' = c
            /\ losses' = losses + 1 /\ lostAt' = lostAt \cup {c[1].from}
            /\ taken' = taken
       ELSE LET length == IF n < c[1].len THEN n ELSE c[1].len
            IN  /\ current' = [c EXCEPT ![1] = [from |-> c[1].from + length,
                                               len  |-> c[1].len - length,
                                               skip |-> c[1].skip]]
                /\ taken' = taken + length
                /\ lossReported' = reported
                /\ UNCHANGED <<losses, lostAt>>
    /\ UNCHANGED <<closed, eof, left>>

\* Read with something left to read: nothing is asked of the channels.
ReadCurrent(n) ==
    /\ rd = "idle" /\ stripEmpty(current) # <<>>
    /\ size' = n
    /\ Return(stripEmpty(current), stripReported(current, lossReported), n)
    /\ UNCHANGED <<asmVars, chanVars, first>>

\* Read with nothing left, of a stream that is over.
ReadEOF(n) ==
    /\ rd = "idle" /\ stripEmpty(current) = <<>> /\ closed
    /\ current' = <<>>
    /\ lossReported' = stripReported(current, lossReported)
    /\ size' = n
    /\ eof' = (eof \/ ~left)
    /\ UNCHANGED <<asmVars, chanVars, rd, closed, first, taken, losses, lostAt, left>>

\* Mutant: done is signalled before the first batch too.
ReadMoreSignals(n) ==
    /\ rd = "idle" /\ stripEmpty(current) = <<>> /\ ~closed
    /\ current' = <<>>
    /\ lossReported' = stripReported(current, lossReported)
    /\ size' = n
    /\ rd' = "signal"
    /\ UNCHANGED <<asmVars, chanVars, closed, first, taken, eof, losses, lostAt, left>>

\* Read with nothing left, of a stream that goes on: the first time there is
\* no batch to be done with.
ReadMore(n) ==
    /\ rd = "idle" /\ stripEmpty(current) = <<>> /\ ~closed
    /\ current' = <<>>
    /\ lossReported' = stripReported(current, lossReported)
    /\ size' = n
    /\ first' = FALSE
    /\ rd' = IF first THEN "receive" ELSE "signal"
    /\ UNCHANGED <<asmVars, chanVars, closed, taken, eof, losses, lostAt, left>>

\* r.done <- true of Read, with which Reassembled returns.
SignalDone ==
    /\ rd = "signal" /\ asm = "wait"
    /\ rd' = "receive" /\ asm' = "idle"
    /\ UNCHANGED <<ret, batches, given, skips, chanVars, readVars>>

\* Mutant: Reassembled does not wait for done.
ReceiveUnawaited ==
    /\ rd = "receive" /\ asm = "send"
    /\ asm' = "idle"
    /\ IF stripEmpty(ret) # <<>>
       THEN Return(stripEmpty(ret), stripReported(ret, lossReported), size)
       ELSE /\ rd' = "receive" /\ current' = <<>>
            /\ lossReported' = stripReported(ret, lossReported)
            /\ UNCHANGED <<closed, taken, eof, losses, lostAt, left>>
    /\ UNCHANGED <<ret, batches, given, skips, chanVars, size, first>>

\* Mutant: Read waits for another batch without a word on an empty one.
ReceiveSilent ==
    /\ rd = "receive" /\ asm = "send"
    /\ asm' = "wait"
    /\ IF stripEmpty(ret) # <<>>
       THEN Return(stripEmpty(ret), stripReported(ret, lossReported), size)
       ELSE UNCHANGED <<rd, current, lossReported, closed, taken, eof, losses, lostAt, left>>
    /\ UNCHANGED <<ret, batches, given, skips, chanVars, size, first>>

\* A batch is passed over r.reassembled to Read.  If it has no bytes Read is
\* done with it at once.
Receive ==
    /\ rd = "receive" /\ asm = "send"
    /\ asm' = "wait"
    /\ IF stripEmpty(ret) # <<>>
       THEN Return(stripEmpty(ret), stripReported(ret, lossReported), size)
       ELSE /\ rd' = "signal" /\ current' = <<>>
            /\ lossReported' = stripReported(ret, lossReported)
            /\ UNCHANGED <<closed, taken, eof, losses, lostAt, left>>
    /\ UNCHANGED <<ret, batches, given, skips, chanVars, size, first>>

\* Read finds r.reassembled closed.
ReceiveClosed ==
    /\ rd = "receive" /\ reassembledClosed
    /\ rd' = "idle" /\ closed' = TRUE /\ eof' = TRUE
    /\ UNCHANGED <<asmVars, chanVars, size, current, lossReported, first, taken,
                   losses, lostAt, left>>

\* Close forgets what is left and goes on to take batches from the channel.
Close ==
    /\ Closes /\ rd = "idle"
    /\ rd' = "close" /\ current' = <<>> /\ closed' = TRUE /\ left' = TRUE
    /\ UNCHANGED <<asmVars, chanVars, size, lossReported, first, taken, eof, losses, lostAt>>

CloseReceive ==
    /\ rd = "close" /\ asm = "send"
    /\ rd' = "closeSignal" /\ asm' = "wait"
    /\ UNCHANGED <<ret, batches, given, skips, chanVars, readVars>>

CloseSignal ==
    /\ rd = "closeSignal" /\ asm = "wait"
    /\ rd' = "close" /\ asm' = "idle"
    /\ UNCHANGED <<ret, batches, given, skips, chanVars, readVars>>

CloseReturn ==
    /\ rd = "close" /\ reassembledClosed
    /\ rd' = "idle"
    /\ UNCHANGED <<asmVars, chanVars, readVars>>

-----------------------------------------------------------------------------
ReadCall == \E n \in ReadSizes : ReadCurrent(n) \/ ReadEOF(n) \/ ReadMore(n)

Reader == ReadCall \/ SignalDone \/ Receive \/ ReceiveClosed
Closer == CloseReceive \/ CloseSignal \/ CloseReturn

Next ==
    \/ \E b \in Batches : Reassembled(b)
    \/ ReassemblyComplete \/ CloseDone
    \/ Reader \/ Close \/ Closer

\* The owner keeps reading ("you MUST read ALL BYTES from it"), whatever
\* sizes it asks for, and the Assembler ends the stream at last.
Spec == /\ Init /\ [][Next]_vars
        /\ WF_vars(Reader) /\ WF_vars(Closer)
        /\ WF_vars(ReassemblyComplete) /\ WF_vars(CloseDone)

-----------------------------------------------------------------------------
(***************************************************************************)
(* Properties                                                              *)
(***************************************************************************)

Told == [from : Nat, len : Nat, skip : BOOLEAN]

\* Every variable has its type; no length of what is left to read is negative.
TypeOK ==
    /\ asm \in {"idle", "send", "wait", "closing", "done"}
    /\ rd \in {"idle", "signal", "receive", "close", "closeSignal"}
    /\ ret \in Seq(Told) /\ current \in Seq(Told)
    /\ reassembledClosed \in BOOLEAN /\ doneClosed \in BOOLEAN
    /\ closed \in BOOLEAN /\ lossReported \in BOOLEAN /\ first \in BOOLEAN
    /\ eof \in BOOLEAN /\ left \in BOOLEAN
    /\ batches \in Nat /\ given \in Nat /\ taken \in Nat /\ losses \in Nat
    /\ size \in Nat
    /\ skips \subseteq Told /\ lostAt \subseteq Nat

\* No goroutine sends on a channel that was closed, which would panic:
\* ReassemblyComplete never comes between the receipt of a batch and the
\* signal that it is done with.
NoPanic == rd \in {"signal", "closeSignal"} => asm = "wait" /\ ~doneClosed

\* The bytes of a batch are only looked at inside the Reassembled call that
\* passed it ("Reassembly objects are reused after each Reassembled call").
NotUsedAfterReturn == stripEmpty(current) # <<>> => asm = "wait"

\* The bytes in front of which a loss is reported: the first ones of those
\* Reassembly objects with a Skip that have bytes.
Due == {r.from : r \in {s \in skips : s.len > 0}}

\* With LossErrors, DataLost is returned once for each Reassembly with a Skip
\* and with bytes, before the first of them, and never for one without bytes,
\* such as that of a FIN after a gap: stripEmpty drops it unreported.
LossReported ==
    LossErrors => /\ \A b \in Due : b < taken => b \in lostAt
                  /\ lostAt \subseteq Due /\ losses = Cardinality(lostAt)

\* Before a Close, Read returns exactly the bytes passed in and in order:
\* the next one is that at the front of current, and none is outstanding
\* once Reassembled has returned or io.EOF was returned; with LossErrors,
\* DataLost is returned once for each Reassembly with a Skip and with bytes,
\* before the first of them, and at no other time (LossReported).
ReadsAll ==
    /\ TypeOK
    /\ LossReported
    /\ ~left =>
        /\ stripEmpty(current) # <<>> => stripEmpty(current)[1].from = taken
        /\ asm \in {"idle", "closing", "done"} => taken = given
        /\ eof => asm \in {"closing", "done"}

\* An owner that reads on and never calls Close has all bytes and io.EOF in
\* the end, and every Reassembled call returned.
ReadToEnd == [](~left) => <>[](asm = "done" /\ eof /\ taken = given)
=============================================================================
