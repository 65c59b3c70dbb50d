# TLA+ verification of gopacket

gopacket decodes packets and puts streams back together. Most of its source is
pure decoding (`layers/`) and tables. What is stateful, concurrent or driven by
an unreliable network or kernel is what this project models: the reassembly of
TCP streams, of IP datagrams and of LCM messages, the way of a packet from a
capture handle or ring to its consumer, its lazy decoding, and the buffers that
packets are built in and sent from.

## 1. Inventory

| Component | State | Operations | Hard behaviour | What makes it correct |
|---|---|---|---|---|
| `tcpassembly` sequence numbers | 32-bit numbers in an int64, `-1` for "none" | `Difference`, `Add` | wrap-around | `Difference` is the distance of any two numbers less than a quarter of the space apart |
| `tcpassembly.Assembler` | connections with `nextSeq` and a list of pages, page cache, `a.ret` | `AssembleWithTimestamp`, `FlushWithOptions`, `FlushOlderThan`, `FlushAll` | lost, duplicated, reordered, re-segmented packets; buffer limits; flush times | a stream is told its bytes in order and once, skips are exact, counters do not drift, flushing and closing do what they promise |
| `tcpassembly.StreamPool` | map of connections, free list, per-connection mutexes, one page cache per Assembler | `getConnection`, `newConnection`, `remove`, `connections` | goroutines that look an object up before it is closed and reused | one completion per stream, nothing after it, one goroutine at a time, no object both free and in use, no stream lost or fed another flow |
| `tcpreader.ReaderStream` | two unbuffered channels, the current batch, flags | `Reassembled`, `ReassemblyComplete`, `Read`, `Close` | rendezvous of two goroutines, closing of channels | every byte once and in order, no send on a closed channel, no use of a batch after its call returned, nobody left waiting |
| `reassembly.Assembler` | two halves per connection with queued and saved pages, page cache, the ScatterGather | `AssembleWithContext`, `KeepFrom`, `FlushWithOptions`, `FlushCloseOlderThan`, `FlushAll` | overlaps of new with queued and told data, kept bytes, limits | as `tcpassembly`, kept bytes come again, one completion when both halves closed |
| `reassembly.StreamPool` | map of connections, free list | `getConnection`, `remove` | both directions created at once, removal by key | as `tcpassembly.StreamPool` |
| `reassembly` TCP checks | connection state machine, option and MSS state | `CheckState`, `Accept` | half close, close by both at once, resets, a capture that starts late | no packet with data or a FIN refused |
| `ip4defrag` | map of fragment lists with 16-bit counters | `DefragIPv4WithTimestamp`, `DiscardOlderThan` | order, duplicates, overflow, list used outside of the lock | a returned datagram is the one sent, and is returned once |
| `lcmdefrag` | packets under construction, time of the last fragment | `Defrag` | duplicates, timeout | as above |
| `packet.go` | layers decoded so far, next decoder; the channel of a `PacketSource` | lazy and eager access, `Packets` | decoding on demand, errors, a consumer that stops | lazy and eager decoding agree; no packet lost, no end too early |
| `parser.go`, `layers_decoder.go` | container of decoders, the caller's slice | `AddDecodingLayer`, `DecodeLayers` | error paths, state of the last packet | the layers are those of a `Packet`, in every container |
| `writer.go` | one byte array filled from both ends | `PrependBytes`, `AppendBytes`, `Clear`, `SerializeLayers`, `SerializePacket` | array bounds, moves, reuse | the bytes are the layers around each other; a second round is free |
| `pcap` | handle, mutex, stop flag | read, `Close` | Close against a blocked reader | no use after close, Close returns |
| `afpacket` | ring of blocks shared with the kernel, cursor | `ZeroCopyReadPacketData`, `Close` | ownership of blocks, timeouts, empty blocks | each packet once, none overwritten while in use, none forgotten |
| `rawsend.Batch` | fixed slots, their lengths and addresses | `Add`, `Flush` | partial sends and errors | each accepted packet once, whole, in order |
| `pcapgo`, `bsdbpf`, `pfring` | files, buffers, handles of libraries | read, write | - | - |
| `layers`, `macs`, `flows`, `routing`, `bytediff`, registries | none between calls | pure functions | - | - |

A packet reaches a user this way: a handle or ring reads it, a `PacketSource`
sends it through a channel, a `Packet` or a `DecodingLayerParser` decodes it,
`ip4defrag` may join its fragments, an `Assembler` looks its connection up in
a `StreamPool` that other Assemblers share, puts its payload in place and calls
the user's `Stream`, for which `ReaderStream` is a ready-made implementation
that hands the bytes to another goroutine. On the way out, layers are written
into a `SerializeBuffer` and packets collected in a `Batch`.

`PROJECT.json` lists every component, also those that are left out and why,
and under `hazards` what in this code a test would hardly reach.

## 2. Plan

1. `TcpSequence`, `TcpAssembly`: one Assembler, the core algorithm. *Done, with proofs.*
2. `StreamPool`: several Assemblers over one pool, with the bytes abstracted. *Done, with proofs.*
3. `TcpReader`: the protocol of `ReaderStream`. *Done, with proofs.*
4. `IPv4Defrag` and `LcmDefrag`, both shown to implement `Datagram`. *Done, with proofs.*
5. `Reassembly` (overlap, scatter-gather, `KeepFrom`) and `TcpCheck`. *Done, with
   proofs of all but what is said about bytes.* Left: the pool of `reassembly` (`memory.go`) and the option checks of `tcpcheck.go`.
6. `PacketDecoding` (lazy against eager), `LayerParser`, `SerializeBuffer` as an
   implementation of `Wrapping`. *Done, with proofs.*
7. `PcapHandle` composed with `PacketSource`, `AfpacketRing`, `RawBatch`. *Done, with
   proofs.* Left: the pcapng reader and the loading of libraries.
8. Proofs still worth having: what `Reassembly` says about bytes.

## 3. Modules

Operators commented "Mutant" are plausible bugs that the properties are tried on;
no specification uses them. The `MC` modules instantiate the others for TLC.

### TcpSequence

`Quarter` is `uint32Size/4`; everything is stated for any positive `Quarter`
(the code's is 2^30), so that TLC can work with a space of 28 numbers and wrap.

### TcpAssembly

One Assembler and its flows. The environment is a sender per flow that writes
`StreamLen` bytes after its initial sequence number, and a network that passes the
Assembler any segments of that stream in any order and as often as it likes.
A payload is an interval of offsets in the sender's stream, so slicing in the
code is slicing of intervals and a property can say *which* bytes were delivered.

| Model | Code |
|---|---|
| `conns`, `free` | `StreamPool.conns`, the reused objects of `StreamPool.free` with the one field `reset` leaves (`lastSeen`) |
| `conns[k].list`, `pages` | the list `first` .. `last`, `conn.pages` |
| `used`, `ret` | `a.pc.used`, `a.ret` |
| `streams[k]` | what the caller's `Stream` was told; `pos` is where a reader of it believes the stream to be |
| `AssembleNothing`, `AssembleWithTimestamp` | the packet up to `sendToConnection` |
| `AddContiguous`, `SendToConnection` | one round of `addContiguous`; delivery and `closeConnection` |
| `FlushStart`, `FlushNext`, `SkipFlush`, `FlushClose`, `FlushLeave`, `FlushReturn` | the loops of `FlushWithOptions` and `FlushAll` |

Each helper of the code (`byteSpan`, `pagesFromTCP`, `traverseConn`, `pushBetween`,
`addNextFromConn`, `insertIntoConn`, `closeConnection`) is an operator of the same
name. Go's doubly linked list is a sequence; the page cache is the number of pages
in use (pages are plain values here, so growth of the cache is invisible).

### StreamPool

Goroutines, each with an Assembler, over one pool. A step is a critical section of
the pool's mutex or a piece of a handler under a connection's mutex. Connection
objects have identity, because goroutines keep pointers to them while they are
closed, freed and reset for another flow. What `TcpAssembly` says about bytes is
abstracted: a packet is buffered (`Buffer`) or delivered (`Send`) with any number of
buffered pages, and a batch may end the stream. Whether a buffered page carries End
is not tracked, so a batch with buffered pages may end the stream or not.
`reset` runs without the mutex of the object, so in the code its writes race with a
goroutine that reads the object; the model takes `reset` as one step, which is what
a reader sees that only looks at `closed`, the field written last.

### TcpReader

The Assembler's goroutine and the owner's, with an operation on an unbuffered
channel as one step of both. Bytes are numbered as they are passed in. `skips` is the set
of the Reassembly objects with a Skip, and `Due` are the first bytes of those among them that have
bytes: the places where a DataLost has to come.

### Datagram, IPv4Defrag, LcmDefrag

`Datagram` is what a defragmenter promises: the parts of a datagram arrive in any
order, repeatedly or never; the call that brings the last missing part returns
the whole, and no other call returns anything. Parts get lost in two ways only. The parts in
`Refused` are never taken. And the parts of a flow in `old` are forgotten all at once, also
together with a part that just arrives and does not complete the datagram (`Lose`). A flow of
`Once` is not returned once a part that is kept came again (`twice`), until it is forgotten.

`IPv4Defrag` has a call of `DefragIPv4WithTimestamp` in three steps, as the code
takes the lock twice: `Lookup` (under the lock), `Insert` (outside of it; the call
ends here unless the datagram was built or the list is full), and `Flush` (under the lock). `PassThrough` and
`Reject` are the early returns of `dontDefrag` and `securityChecks`,
`DiscardOlderThan` runs between any two steps. `lists[f]` is the fragment list
with its `Highest` and `Current`, computed modulo `W` as uint16s are; `ipFlows` is the
domain of the map. A list that was dropped from the map while a goroutine holds
it lives on in that goroutine's call. Assumed are that each flow is fed by one
goroutine, as hashing by flow does, and that the fragments of a datagram do not
overlap (`CutUp`): with two goroutines on one flow the unlocked `insert` is a data race, and
with overlaps `build` advances by the wrong amount (section 4).
`LcmDefrag` is one goroutine's `Defrag`, with a fragment or nil, and time that passes.
Their `Abstract` and `Message` instances of `Datagram` give the refinement mapping: the
parts in the list are `got`, and what the last call for a flow returned is `returned`.
For `IPv4Defrag`, `Refused` are the fragments that `securityChecks` turns down (`Untaken`), `Once` is empty, and
`old` are the flows whose list is not of the latest time, is full or has left the map (`Silent`).
For `LcmDefrag`, nothing is refused, `old` are the messages that have timed out, and every message is in `Once`,
because `append` counts a fragment again that comes again: `recFrags` is then ahead of the
fragments, and the call that completes the message does not find them equal.

### Reassembly

One bidirectional connection of `reassembly`. `half[d]` has the fields of a
`halfconnection` (queue, saved pages, `nextSeq`, `closed`) and three of the
environment: which bytes came in, which the Stream waits for, and which it asked to
keep. A packet is ignored (`Ignore`), stored because it is ahead (`Queue`) or told
(`Deliver`), which is `AssembleWithContext` up to the call of `ReassembledSG`;
`CleanSG` is what follows: what is kept, what goes back to the page cache, closing.
`checkOverlap` is split along its cases (`Behind`, `Before`, `Covered`, `LosesEnd`,
`LosesStart`, `Surrounds`); as in the code the queue is walked from its end. A page that is taken
from the pool still has the `end` of its earlier use, and only the last page of a packet
sets it, so `convertToPages` takes that stale value from its environment.
`StartFlush`, `SkipFlush`, `FlushClose`, `FlushLeave` and `FlushReturn` are the loops of
the flushes. The Stream accepts or refuses any packet and may force a start.

### TcpCheck

`TCPSimpleFSM` of `tcpcheck.go`. `CheckState` is `figureState`, the guess at the state of a
connection whose start was not captured, followed by `accept`, the `switch` over the state;
a packet is the set of its flags, with "data" if it has a payload. Client and server are
external, and so is the capture: it sees the packets of each side in order, as
`TCPSimpleFSM` demands, and those of the two sides in any order that agrees with what
each had received. A side may close while the other goes on sending, both may close at
once, and either may reset. `MCReassembly` runs it beside `Reassembly`, in behaviours of
its own.

### PacketDecoding, LayerParser

Decoders are external: a frame is the sequence of what they will find (a layer,
its role, truncation, and how the decoder ends: with a next decoder, without, with
nil, an error before or after `AddLayer`, or a panic). `initialDecode` is the eager
packet; the variable `lazy` is the lazy one, on which the accessors `RoleLayer`,
`LayerClass`, `ErrorLayer` and `Layers` are called in any order, each decoding as far
as it needs. A frame has at least one byte to decode (`FramesAssumption`; section 4 has the
case of none). `LayerParser` runs `DecodeLayers` on frame after frame, with
`AddDecodingLayer` in between, and keeps the three containers side by side.

### Wrapping, SerializeBuffer

`Wrapping` is the promise: each layer puts its head before the bytes so far and its
tail behind them. `SerializeBuffer` is the array with `start`, `len`, `prepended` and
`appended`, grown at the front (which moves the bytes) or at the back, and cleared
for the next packet. `SerializeLayers` and `SerializePacket` begin a packet,
`SerializeTo` writes one layer, `SerializeToFails` leaves the buffer half full.

### PcapHandle, PacketSource

`PcapHandle`: handles in four modes (file; positive, negative and zero timeout),
a reader that holds the mutex around libpcap and poll, and `Close`, which sets `stop`
before it asks for the mutex. Only handles with a positive timeout are non-blocking
(`pcap.go:169-177`); with a negative one libpcap may return when its own timeout is over
(`NextTimeoutForever`) or hold the reader until there is a packet, with zero it does the
latter. Any handle may give an error (`NextError`). `Blocked` is a reader that libpcap
holds. `PacketSource` extends it with
`ConcatFinitePacketDataSources`, the goroutine of `Packets` with its classes of
errors, the channel, and a consumer that may give up.

### AfpacketRing

The ring and the TPacket's cursor (`offset`, `current`, `used`,
`shouldReleasePacket`, `headerNextNeeded`). The kernel is external: packets arrive or
are dropped (`Arrive`), a block is handed over when it is full or its timer ends, also empty
(`Retire`), and the kernel waits at a block that was not given back (`Thaw`). A block that is
opened again keeps the first header of its last use until a packet is written over it (`left`):
`PollReady` looks at the length in that header, as line 304 does, and so takes a block without packets for
empty only if its first place was never used; otherwise it returns the packet that was
left there. Whether the kernel hands over blocks without packets at all is chosen in Init
(`kernel.empties`).

### RawBatch

The slots of a Batch with their stale contents. `Add` queues a packet, or begins
the Flush that makes room; `SendSome`, `SendRest` and `SendFails` are what sendmmsg may
do, and `keepUnsent` moves what is left to the front.

## 4. Runs

| Run | Shows |
|---|---|
| `AssemblyOrder` | four packets and a flush of a stream of four bytes, packets of up to three bytes, one byte per page (so packets need several pages), with and without a wrap, and the limit per connection in force: bytes in order and once (`InOrder`), nothing that arrived is lost (`NoByteLost`), `panic("wtf")` is out of reach (`HeadBlocked`), every loop ends (`HandlersReturn`) |
| `AssemblyFlush` | four packets on two flows whose ports may be used again, two times, both limits in force: counters agree with lists and limits hold between calls (`BufferLimits`), a flush leaves no first page that is older than its time and `FlushAll` nothing at all (`FlushLeavesNothingOld`); `FlushWithOptions` closes a connection only if `CloseAll` is set and it is drained and stale, or because the data it pushed end with a FIN or RST (`FlushSparesActive`) |
| `PoolShared` | two Assemblers on the same flows with a flush: one completion and nothing after it (`CompleteIsLast`), serial delivery (`Serial`), a sound free list (`FreeListSound`) |
| `PoolReturns` | one Assembler with all three packets, another that flushes beside it: no stream is fed another flow (`RightStream`) or lost (`AllCompleted`), every call returns (`CallsReturn`) |
| `ReaderStream` | any batches, slice sizes, loss errors, Close at any time: no panic (`NoPanic`), no use of a batch after its call (`NotUsedAfterReturn`), every byte in order, and with `LossErrors` one DataLost in front of the bytes of each Reassembly with a Skip (`ReadsAll`); an owner that keeps reading gets everything and io.EOF (`ReadToEnd`) |
| `Defrag` | two goroutines with datagrams of three, of the largest size, of too short and of too many fragments, or an LCM defragmenter with fragments that may come twice: both implement `Datagram`, with the exceptions that section 3 names and no other (`Refines`, `LcmRefines`), and nothing that is done stays in the map (`NothingLeftOver`) |
| `Serialize` | packets of up to three layers in one buffer, one after the other, with failures: the buffer implements `Wrapping` (`Wraps`), and a round that fits allocates nothing (`SecondRoundIsFree`); a batch with a kernel that takes all, some or none: each packet once, whole, in order (`SentInOrder`), and at last (`AllSent`) |
| `Decode` | a lazy packet answers every sequence of questions as the eager one would (`LazyAsEager`); a parser used for packet after packet reports the layers that a packet has, in every container (`ParserAsPacket`) |
| `Capture` | two handles in each pair of modes behind a PacketSource, closed at any time: no use after close (`NoUseAfterClose`), no packet lost and no end too early (`Complete`), Close returns unless libpcap holds the reader (`CloseReturns`), the consumer's loop ends (`RangeEnds`) |
| `Ring` | with a kernel that hands over empty blocks and with one that does not: packets in order, the cursors of reader and kernel in step, and a packet returned again only from an empty block in which its header was left (`InOrder`), none overwritten while in use (`DataIntact`), none forgotten (`AllRead`) |
| `Reassembly` | bytes in order and once (`InOrder`), kept bytes come again (`SavedAgain`), nothing lost, the queue sorted, disjoint and blocked (`NoByteLost`), the page count covers what is held (`UsedCovers`), a half ends where its stream does and the Stream completes once (`EndIsEnd`), flushes leave nothing old (`FlushLeavesNothingOld`); the state machine of `tcpcheck.go` refuses no data and no FIN unless the connection was reset (`DataAccepted`) |
| `ReassemblyWrap` | *violated*: `Difference` of `reassembly` adds `uint32Max` where the space has one number more (`reassembly/tcpassembly.go:68`), so when the byte with the largest sequence number is missing, the next one counts as contiguous and no skip is told |

### Disagreements met while modelling

The models have the code's behaviour, so the properties are stated, or the
runs bounded, so that they hold of it; these are the cases that this leaves out.

`tcpassembly`:
* Data in a SYN is one number off for `byteSpan` (`assembly.go:616`): a repeated SYN
  with data delivers a byte twice, against lines 174-176. The runs have `SynLen = 0`.
* `reset` does not set `lastSeen` (:388), against lines 228-230: a reused object may keep a stale
  connection open.
* End on a Reassembly that is not the last of a batch does not complete the
  stream (:633, against 182-184).
* Between `getConnection` and the lock an object may be reused, and the packet be delivered
  to another flow's stream (:562, against 548-550); two goroutines that create one flow
  lose a stream (:508, against 169-172). Both need packets in two Assemblers; `PoolReturns`
  shows that one Assembler with packets, and any number of flushes, is safe, and
  `StreamPoolProofs` proves it.
* `FlushWithOptions` closes a stale connection only if `CloseAll` is set (:258), against
  "the connection will be closed" (:228-230) and "Regardless of the CloseAll setting" (:233); and
  with `CloseAll` only if it is stale, against "ALL connections are closed post flush" (:209)
  and "it will close out connections that have been drained" (:232). `skipFlush` of an old page
  with a FIN or RST closes the connection however recently it was passed a packet (:250-256).
  `FlushSparesActive` says what the code does: these two reasons for closing, and no other.
* A packet of several pages exceeds `MaxBufferedPagesPerConnection`, since one page is
  popped (:723); `BufferLimits` is about packets of one page, the data of a SYN included.
* `pagesFromTCP` does receive SYNs when ports are used again (:589, against "should
  NEVER receive a SYN", :733); an object that is reused before `closeConnection`
  returned its pages takes them with it (:675).
* `ReaderStream.Close` after a `Read` that got bytes deadlocks with the Assembler
  (`reader.go:207`, against 200-202): `current` is dropped without a signal, and each
  side waits for the other. `ReadToEnd` is about owners that do not call Close.
* `stripEmpty` drops a Reassembly without bytes that has a Skip, such as that of a FIN behind
  a gap, and no DataLost is returned for it (`reader.go:154-159`), against "whenever it
  determines data has been lost" (:120-122) and "when it encounters a Reassembly with Skip != 0"
  (:161-162). `ReadsAll` demands a DataLost for each Skip with bytes, and none for the others.

`reassembly` (`tcpassembly.go`):
* A FIN on a packet that makes the queue run over its limit advances `nextSeq`
  though the FIN was not reached (:730). The run has no FINs when there is a limit.
* `KeepFrom(k)` with k behind the first byte of a live packet that is followed by pages
  loses saved bytes (:1076-1083). The run keeps from offset 0.
* `half.pages` drifts when bytes are kept (against the comment at :409), and
  `closeHalfConnection` gives only the first page back (:1204, `p.next` was cleared) and
  never saved ones; `pc.used` therefore only drifts upwards, which `UsedCovers` says.
* A start that is forced while pages are queued leaves pages behind `nextSeq`
  that nothing tells; a FIN is lost with the page it is on when that is overwritten; a bare
  FIN out of order is not queued.
* `CaptureInfo` of a page that is not the first of its packet dereferences a nil context.
* `memory.go`: two goroutines that create the two directions of one connection run into
  a panic (:199); `remove` looks up the key and not the object (:126).

`ip4defrag` (`defrag.go`): a last fragment of less than eight bytes is refused, so its datagram is
never built (:177, against "if the IPv4 layer is the last fragment needed", :54-56); in
`Refines` such fragments are `Refused`, and the flow `short` of the run has one; IP options are not subtracted from
the length (:251); the sum at :190 is a uint16 and the comparison never true; the
advance after an overlap is wrong (:296); a fragment below `Highest` and behind all others, which
only overlaps make possible, is counted and not inserted (:221); a duplicate does not refresh `LastSeen`.

`lcmdefrag` (`lcmdefrag.go`): a fragment that comes again is counted again (:58-62), so `recFrags`
equals `TotalFragments` one fragment too early, when `assemble` fails, and no longer when the last
one comes (:140): the message is returned by no call, against "In case in was the last missing
fragment, out will be the defragmented packet" (:107-109), until the timeout drops it. In
`LcmRefines` it is `twice`.

Packets: an eager packet decodes a packet of no bytes, a lazy one does not; `Truncated` of a lazy
packet is as late as its decoding; `DecodeLayers` does not truncate the slice
when the first type has no decoder (`parser.go:248-250` says it does);
`DecodingLayerSparse` panics on negative types. `packetsToChannel` retries unknown errors, against
"terminates when a non-temporary error" (`packet.go:812-814`), blocks for ever when the
consumer gives up with the channel full (:815), and `Packets` is not synchronised.

`pcap`: a negative timeout is documented as a loop over timeout errors (`doc.go:98-101`), but such
handles are left blocking (`pcap.go:169-177`), and the comment in the loop says that
`pcap_next_ex` blocks until there is a packet (:332-334). With a timeout of 0 or below, `Close` may therefore
wait for a packet (:379): the model has both outcomes for a negative timeout, and `CloseReturns` does not
speak of a reader that libpcap holds; `Stats`, `Error` and `WritePacketData` use the handle without the mutex;
`Resolution` is inverted (:725); `< -1` in `setNonBlocking` is never true
(`pcap_unix.go:877`).

`afpacket`: `Close` does not take the mutex (`afpacket.go:206`); `ReadPacketData` copies
after it released it (:410-419), so two readers may get each other's bytes; a
block without packets is known by a length (:304, "We received an empty block") that may be
of an earlier lap, and then a packet of that lap is returned again, which the model has and `InOrder`
confines to such blocks; the first lap reads `Offset_to_first_pkt` of blocks the kernel
has not opened (`header.go:140`). The model has one reader, and every block has its first
packet in the same place.

`rawsend`: `Add` returns the error of the Flush that its own packet triggered, though
the packet is queued (`batch_linux.go:125`; the error at :111 means it is not), so a caller that
repeats a failed Add may send twice; a packet longer than a slot is cut silently (:119).

### Bounds

`Quarter = 7` leaves room for streams of up to five bytes on either side
of the wrap. Four packets suffice for an overlap of three buffered packets and one
that releases them, and to reach the limits of `AssemblyFlush` (three pages of a
connection, four in all) after buffers with two gaps. In the pool, three packets and a
flush suffice for two goroutines to create, look up, close, reuse and deliver; the
safety properties of `PoolShared` are proved without bounds. `MaxStreams` of `PoolReturns` is large
enough that `factory.New` is never refused.

`Defrag` scales the numbers of the code down together: uint16s are modulo 16, a unit is two
bytes, a header two, and lists hold three fragments, so that the largest datagram, the
minimum size and the limit are all reached; packets of a flow come in any order and
number. `Serialize` has layers with heads and tails of up to three bytes, initial sizes
below, at and above what is needed, and a batch of three slots of two bytes with five packets of one to
three. `Decode` has all frames of up to three of eight kinds of layers. `Capture`
has two packets per handle and a channel of one, so that it is full. `Ring` has three
blocks of two packets and five packets, which may be spread over five blocks or fill the
ring; with empty blocks the number of laps is not bounded. `Reassembly` has four bytes in packets of up to three, pages of two bytes, a space of
16 numbers, no limits or two pages per connection and three in all; instances with two
timestamps, or with bytes in both directions, of up to 2.3 million states were
checked once and show the same. For `TcpCheck`, each side has up to three packets under
way (`MaxWire`); how many it sends in all is not bounded.

The counters of packets, flushes, batches and streams only bound the runs; no property
of safety mentions them. `AssemblyFlush` uses the symmetry of the flows and `PoolShared`
that of Assemblers, flows and objects, which no definition tells apart; neither has a
liveness property. Deadlock checking is off where a bounded run stops when its packets
are used up, or a ring, handle or connection is closed; that nobody waits for ever is
checked by the liveness properties.

### Fairness

* `TcpAssembly`: a handler that has started goes on (it is sequential
  code; the caller's `Stream` methods are taken to return).
* `StreamPool`: every goroutine inside a call takes its next step if it can; weak
  fairness is enough for the mutexes because goroutines call a bounded number of times,
  and Go's mutexes do not starve waiters.
* `TcpReader`: the owner keeps reading, as the type's documentation
  demands, and the Assembler ends the stream at last (FIN, RST or a flush).
* `PacketSource`: the goroutine and the consumer go on, libpcap returns when it has a packet, at the
  end of a file and on handles with a positive timeout, which are non-blocking, poll returns when its timeout
  is over, and a mutex that is free again and again is got in the end (strong
  fairness of `CloseFinish`, which Go's mutexes grant). That libpcap returns on any other handle
  without a packet, or returns an error, is possible and not assumed (`NextUnsure`). Nobody has to close a handle, and no packet
  has to arrive.
* `AfpacketRing`: the kernel's block timer ends, it looks again at a block that was given back,
  and the reader keeps calling until it closes the ring.
* `RawBatch`: the owner flushes again what is left, and sendmmsg does not fail each time
  (strong fairness of its success, since success and failure take turns).

### Refinements

`IPv4Defrag` and `LcmDefrag` implement `Datagram`, and `SerializeBuffer` implements `Wrapping`;
all three are model-checked and proved.

## 5. Proofs

All proofs are checked by TLAPS and hold for every value of the constants that
satisfies the named assumptions.

* `TcpAssemblyProofs`, in four parts.
  Sequence numbers: `DifferenceIsDistance` and `DifferenceAntisymmetric`, from linear
  arithmetic in `Quarter`.
  Order: `InOrderHolds`, for any number of flows, stream length below a quarter of the
  sequence space, page size and limits, assuming no data in SYNs and no reuse of ports
  (a SYN with data delivers a byte twice, see above; the SYN of another connection has a
  number that means nothing in this one). `InOrder` alone is not inductive: the invariant
  `IInv` also says that every page and `nextSeq` stand for an offset of the sender's
  stream, `Add(isn, offset + 1)`, that this offset is where the reader of the stream will
  be, and that a page's bytes are those of its sequence number. Each helper has a lemma
  that it preserves this, and `DifferenceIsDistance` turns its comparisons into
  comparisons of offsets.
  Books: `TypeCorrect`, `HeadsBlocked`, `LimitsHold`, `FlushesComplete` and `ActiveSpared`,
  for any packets whatever, data in SYNs and reused ports included. The invariant
  `BookInv` has the counters equal to the lengths of the lists (the cache's to the
  number of all pages, so an update is one of a cardinality), the limits in the form
  in which each handler finds them, the head of every list ahead of `nextSeq` except
  where a delivery is under way, and, for the flushes, which connections a flush may
  still have work with: those on its list, the one in its hands, and no other with an
  old first page. `ActiveSpared` needs `lastSeen` to be no earlier than the last packet of the
  connection, also in an object that was used before, and that no other step of a flush closes anything. The proof of `LimitsHold` found that the limits need the data of
  a SYN to fit a page as well; `BufferLimits` now says so.
  Bytes: `EveryByteKept`, with the assumptions of `InOrderHolds` and on top of both
  invariants. Pages of overlapping packets are not sorted, since `traverseConn` looks at the
  first page of a packet only, so the order that the list does keep had to be found:
  a page that leaves a gap behind everything before it, and behind the reader, starts
  no later than any page after it (`Orderly`). It is why taking pages from the front
  never moves the reader past a byte that is further down. `ByteInv` adds that what arrived
  is told, in the batch or buffered, and told if the reader is past it.
* `StreamPoolProofs`: `CompletesLast`, `SeriallyFed`, `FreeListIsSound`, `TypeCorrect`,
  `FedItsOwnFlow` and `EveryStreamCompleted`, for any number of Assemblers, flows and objects.
  The invariant is in three layers. `PoolInv`: a goroutine past a lock holds the mutex
  of its object, what is about to be removed is closed and not yet free, the free
  list is without repetition and disjoint from the map, the map leads to objects by
  their own keys. `StreamInv`: objects in use, and streams waiting for one, are
  pairwise distinct, and a stream was told of its end exactly if its object is closed.
  `FlowInv`, for the last two theorems: the map leads to every open object, an object's stream
  was made for the object's flow, and what a goroutine has looked up stays an object
  of its packet's flow. This needs the hypothesis `Divided`: no two Assemblers are passed
  packets of one flow, and either nobody flushes or all packets go to one
  Assembler (the instance of `PoolReturns`). Without it both properties are false (section 4).
* `TcpReaderProofs`: `NeverPanics`, `NeverUsedAfterReturn` and `ReadsEverything`, for batches
  and slices of any number and size. The first invariant says where the two goroutines can
  be: an owner that has read before and is outside of the channels holds up an Assembler
  inside `Reassembled`. `ReadInv`, on top of it, says which bytes are outstanding
  (`current` and what the Assembler still offers cover exactly those from `taken` to
  `given`), that the Skips with bytes announced in them are those not yet reported, the flag
  `lossReported` taken into account, and that nothing is outstanding at the end.
* `ReassemblyProofs`, on `Reassembly`: `UsedCoversPages`, `FlushesLeaveNothing` and `CompletesOnce`, for any
  lengths, sequence space, page size, limits, timestamps, resets and parts that the Stream keeps.
  `UsedCovers` says nothing while the Stream looks at a ScatterGather, which is where pages change
  hands; `Counted` therefore also says that `used` then covers the pages in the ScatterGather
  instead of those that are saved, and that at most one of its containers is a live packet. Each handler
  is an exchange between queue, saved pages, ScatterGather and the pool (`BuildStep`, `CountedKeeps`, `KeptIs`,
  `CloseStep`); the proof needs no fact about the bytes, so it does not depend on `Difference` being right.
  `FlushOK` says which halves a flush has settled, and that its ScatterGather is of the half that it is at, so
  that closing one half does not undo what was done to the other.
* `ReassemblyProofs`, on `TcpCheck`: `DataIsAccepted`, for any `MaxWire`. The invariant relates the three places
  where the state of a connection is: the ends, the packets on their way to the capture, and
  the state machine. A side that is not yet open, or that has sent its FIN, has only certain
  packets on the wire, in a certain order, and each state of the machine says which
  packets have already been seen.
* `CaptureProofs`: `ClosedHandlesUnused` and `NothingIsLost`, for any number of handles and
  packets and any channel. `HandleInv` says what the mutex protects: a reader inside of it
  has a live handle, and a handle is given back only after `stop` was set. `SourceInv` says
  that the handles before the one in turn have ended and those behind it are untouched,
  and that received, buffered, decoded and just read packets together are all that
  were taken.
* `CaptureProofs`, on `PacketDecoding`: `PacketLazyAsEager`, for frames of any length and any
  decoders, of which there has to be one. `initialDecode` is a loop, and so is every accessor; what
  relates them is the `Chain` of packets that `decodeNextLayer` goes through from the new
  packet on. `DecodeInv` says that the lazy packet is one of its members. A member that has nothing left to
  decode is the eager packet (`EagerIsLast`, by walking both loops in step); each member
  is a beginning of the next (`StepSound`, `FollowsStep`), so that a layer, a role or a failure, once
  found, stays the first one; and an accessor stops at a member that has what it asks for, or at the
  last (`Walk`).
* `CaptureProofs`, on `LayerParser`: `ParserImplements`, for any decoding layers and types. `ContainerInv`
  says what the three containers have in common, with the shape that each needs for it: the array has
  each type once, the sparse one is indexed from 0. `Outcome` relates the loop of `LayersDecoder` to that of the
  eager packet after the same number of layers. What an earlier packet left in the parser does
  not occur in it.
* `AfpacketRingProofs`: `SlicesIntact` and `ReadInOrder`, for any number and size of blocks and kernels
  with and without empty blocks. The
  invariant gives every block from the reader's offset up to the kernel's its place in
  the sequence of packets that were kept, by a function from the distance around the ring;
  an empty block has the same place as the next. Each step of reader and kernel
  extends, shortens or leaves this function. `Spent`, on top of it (`LeftWasRead`), says that a header that
  was left in a block is of a packet that was read, so that what an empty block yields is never new.
* `DefragProofs`: `LcmImplements`, that `LcmDefrag` implements `Datagram`, for any messages and
  timeout. Under the mapping of `Message`, a call with a fragment is a `Receive` that also
  forgets what has timed out, a call with nil a `Forget`, a tick an `Age`. The refinement
  needs one invariant: `recFrags`, a counter, is at least the number of fragments that are there,
  and more than it exactly if one of them came again, from then on until the message has timed out.
* `DefragProofs`, on `IPv4Defrag`: `DefragImplements` and `DefragLeavesNothing`, for any flows, goroutines and
  limits and any datagrams whose fragments satisfy `CutUp`. `DefragInv` says which fragments a list
  has and what its counters say about them (`Tallies`): `Current` is the number of bytes that
  the fragments cover, `Highest` where the last of them ends, and neither has wrapped. Two numbers being
  equal therefore means that the fragments cover everything up to `Highest`, and with the
  last fragment among them that none is missing; `build` then finds each fragment where the one before
  it ends. A fragment that is `Untaken` never gets as far as a list, and a list that is full is
  `Silent`, which is all that the abstract flow may lose. The sums over fragments are cardinalities of sets of bytes, so no induction over the list is
  needed for them; for the loop of `build`, the least number of fragments at which it goes
  wrong is shown not to exist. A list that was dropped from the map while its goroutine works on it
  has lost nothing that the abstract flow still has.
* `OutputProofs`, on `SerializeBuffer`: `IndicesStayInside` (`BufferOK`), `NoSecondAllocation` and
  `BufferWraps`, for layers of any sizes and any number, and any initial sizes. The
  invariant says that the array is as large as `prepended` and `appended` together, that
  `start` and `len` follow from what was used on each side, and that the array was grown for at
  least the peaks of earlier rounds. One lemma each for growing at the front, growing
  at the back, writing and clearing says what they do to `Bytes`; the refinement then maps
  each action to one of `Wrapping` or to a stutter.
* `OutputProofs`, on `RawBatch`: `SendsInOrder` and `StaysInSlots` (`BatchTypeOK`), for any size of batch,
  slots and packets. The invariant adds the types of the slots to `SentInOrder`; the lemmas split
  the queue where sendmmsg stopped, and show that `keepUnsent` moves message by
  message although it copies over slots that are still to be moved.

Only model-checked:
* everything about liveness (`HandlersReturn`, `CallsReturn`, `ReadToEnd`, `AllSent`,
  `CloseReturns`, `RangeEnds`, `AllRead`), which the prover does not handle;
* what `Reassembly` says about bytes: `InOrder`, `SavedAgain`, `NoByteLost` and where a half ends (the first
  part of `EndIsEnd`). They hold only where `Difference`, which is off by one across the wrap, is not
  used there (`ReassemblyWrap`), and only for some of what a Stream may keep.

## 6. Not modelled

* `reassembly.StreamPool` (`memory.go`): its protocol is that of `tcpassembly` without the
  loop that looks a closed connection up again, and with the defects named above, which
  make the guarantees of `StreamPool` false there; what one Assembler does with its
  own connection is in `Reassembly`.
* `TCPOptionCheck` of `tcpcheck.go`: in `Reassembly` the Stream accepts and refuses freely,
  which covers every answer. Repeated data and FINs are left out of `TcpCheck`, whose code
  asks for packets in order. What `DataAccepted` does not promise: the bare
  acknowledgements that follow when both sides close at once are refused.
* In `Reassembly`: data in a SYN, statistics and acknowledgements.
* In `pcap`: opening, filters, statistics, writing; the Windows layer. In `afpacket`: options,
  statistics, fanout and writing. In `rawsend`: the single `Sender`, which is one system call.
* `pcapgo`, `bsdbpf`, `pfring`, `routing`, library loading: cursors over files and
  buffers or thin layers over system libraries, without concurrency of their own.
* Decoders (`layers/`), tables (`macs/`, `iana_ports.go`), registries, `bytediff`, examples:
  pure functions and data, which are most of the repository's lines.

Timestamps are small numbers that are only compared. Logging is left out. The memory
of `tcpassembly`'s pages (a page is returned to the cache while `a.ret` still refers to its
buffer, which is safe because no page is taken before the delivery) is not modelled:
pages are values.
