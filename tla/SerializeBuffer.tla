--------------------------- MODULE SerializeBuffer ---------------------------
(***************************************************************************)
(* writer.go: the serializeBuffer, which keeps the bytes of a packet in    *)
(* the middle of one backing array so that layers can be put around them,  *)
(* and SerializeLayers and SerializePacket, which fill it layer by layer,  *)
(* from the innermost one out, and use it again for the next packet.       *)
(*                                                                         *)
(* A byte is the type of the layer that wrote it; what nobody wrote yet,   *)
(* or what an earlier packet left, is Junk.  Layers are external: one      *)
(* takes a number of bytes in front of its payload and a number behind it, *)
(* and may fail.                                                           *)
(***************************************************************************)
EXTENDS Integers, Sequences

CONSTANTS
    Layers,      \* records [type, head, tail, ok]; ok: it is a SerializableLayer
    MaxBytes,    \* the most bytes that a layer takes on one side
    MaxLayers,   \* bound: the layers of a packet
    Expected     \* pairs passed to NewSerializeBufferExpectedSize

ASSUME BufferAssumption ==
    /\ \A l \in Layers : l.head \in 0..MaxBytes /\ l.tail \in 0..MaxBytes /\ l.ok \in BOOLEAN
    /\ Expected \subseteq Nat \X Nat
    /\ MaxLayers \in Nat /\ MaxBytes \in Nat

VARIABLES
    b,        \* the serializeBuffer; b.data is the backing array, up to its cap
    layers,   \* the types that PushLayer was called with
    todo,     \* the layers that SerializeLayers has still to write
    used,     \* bytes prepended and appended since the last Clear
    peak      \* the largest numbers of them before any Clear

vars == <<b, layers, todo, used, peak>>

Junk == "junk"
MaxOf(m, n) == IF m < n THEN n ELSE m

cap(w) == Len(w.data)

\* data[start:]
Bytes(w) == SubSeq(w.data, w.start + 1, w.len)

\* A new array, with the bytes of w.data[start:len] from index at on.
Copied(w, size, at) ==
    [i \in 1..size |-> IF i > at /\ i <= at + w.len - w.start
                       THEN w.data[w.start + i - at] ELSE Junk]

\* The caller writes tok to the bytes data[from:from+num] it is given.
Written(data, from, num, tok) ==
    [i \in 1..Len(data) |-> IF i > from /\ i <= from + num THEN tok ELSE data[i]]

\* Mutant: the bytes keep their place in the larger array.
growFrontKeepingPlace(w, num) ==
    LET toPrepend == MaxOf(w.prepended, num) IN
    [data |-> Copied(w, cap(w) + toPrepend, w.start),
     len |-> w.len + toPrepend, start |-> w.start + toPrepend,
     prepended |-> w.prepended + toPrepend, appended |-> w.appended]

\* Mutant: what the array was grown by is not remembered for Clear.
growFrontForgotten(w, num) ==
    [data |-> Copied(w, cap(w) + num, w.start + num), len |-> w.len + num,
     start |-> w.start + num, prepended |-> w.prepended, appended |-> w.appended]

growFront(w, num) ==
    LET toPrepend == MaxOf(w.prepended, num) IN
    [data |-> Copied(w, cap(w) + toPrepend, w.start + toPrepend),
     len |-> w.len + toPrepend, start |-> w.start + toPrepend,
     prepended |-> w.prepended + toPrepend, appended |-> w.appended]

PrependBytes(w, num, tok) ==
    LET g == IF w.start < num THEN growFront(w, num) ELSE w IN
    [data |-> Written(g.data, g.start - num, num, tok),
     len |-> g.len, start |-> g.start - num,
     prepended |-> g.prepended, appended |-> g.appended]

growBack(w, num) ==
    LET toAppend == MaxOf(w.appended, num) IN
    [data |-> Copied(w, cap(w) + toAppend, w.start), len |-> w.len, start |-> w.start,
     prepended |-> w.prepended, appended |-> w.appended + toAppend]

AppendBytes(w, num, tok) ==
    LET g == IF cap(w) - w.len < num THEN growBack(w, num) ELSE w IN
    [data |-> Written(g.data, g.len, num, tok), len |-> g.len + num, start |-> g.start,
     prepended |-> g.prepended, appended |-> g.appended]

Clear(w) ==
    [data |-> [i \in 1..Len(w.data) |-> Junk], len |-> w.prepended, start |-> w.prepended,
     prepended |-> w.prepended, appended |-> w.appended]

-----------------------------------------------------------------------------
NewSerializeBufferExpectedSize(p, a) ==
    [data |-> [i \in 1..(p + a) |-> Junk], len |-> p, start |-> p,
     prepended |-> p, appended |-> a]

Init ==
    /\ \E e \in Expected : b = NewSerializeBufferExpectedSize(e[1], e[2])
    /\ layers = <<>> /\ todo = <<>>
    /\ used = <<0, 0>> /\ peak = <<0, 0>>

\* The packets: sequences of layers, the outermost first.
Packets == UNION {[1..n -> Layers] : n \in 1..MaxLayers}

\* SerializeLayers clears the buffer first.
SerializeLayers(ls) ==
    /\ todo = <<>>
    /\ \A i \in DOMAIN ls : ls[i].ok
    /\ b' = Clear(b)
    /\ layers' = <<>> /\ todo' = ls
    /\ used' = <<0, 0>>
    /\ peak' = <<MaxOf(peak[1], used[1]), MaxOf(peak[2], used[2])>>

\* SerializePacket with a layer that cannot be serialized: nothing happens.
SerializePacket(ls) ==
    /\ todo = <<>>
    /\ \E i \in DOMAIN ls : ~ls[i].ok
    /\ UNCHANGED vars

\* SerializeTo of the innermost layer that is left, and PushLayer.
SerializeTo ==
    /\ todo # <<>>
    /\ LET l == todo[Len(todo)] IN
        /\ b' = AppendBytes(PrependBytes(b, l.head, l.type), l.tail, l.type)
        /\ layers' = Append(layers, l.type)
        /\ used' = <<used[1] + l.head, used[2] + l.tail>>
    /\ todo' = SubSeq(todo, 1, Len(todo) - 1)
    /\ UNCHANGED peak

\* SerializeTo returns an error, perhaps after it took its bytes in front.
SerializeToFails ==
    /\ todo # <<>>
    /\ LET l == todo[Len(todo)] IN
        \E num \in {0, l.head} :
            /\ b' = PrependBytes(b, num, l.type)
            /\ used' = <<used[1] + num, used[2]>>
    /\ todo' = <<>>
    /\ UNCHANGED <<layers, peak>>

Next ==
    \/ \E ls \in Packets : SerializeLayers(ls) \/ SerializePacket(ls)
    \/ SerializeTo
    \/ SerializeToFails

Spec == Init /\ [][Next]_vars

-----------------------------------------------------------------------------
\* The type invariant, and what keeps every slice expression of the buffer
\* within its array: the array is exactly as large as the numbers of bytes it
\* was grown for, and the bytes lie where Clear will look for them.
BufferOK ==
    /\ b.prepended \in Nat /\ b.appended \in Nat
    /\ cap(b) = b.prepended + b.appended
    /\ used[1] \in 0..b.prepended /\ used[2] \in 0..b.appended
    /\ b.start = b.prepended - used[1]
    /\ b.len = b.prepended + used[2]

\* "if you make a set of Prepend/Append calls, then clear, then make the same
\* calls with the same sizes, the second round shouldn't allocate any new
\* memory": no step allocates before it needs more than every round before.
\* (SerializeBuffer, Clear)
SecondRoundIsFree ==
    [][used'[1] <= peak[1] /\ used'[2] <= peak[2] => cap(b') = cap(b)]_vars

\* The bytes of the buffer are the layers around each other, whatever was in
\* the array before and however often it moved (SerializeLayers).
Bytestring == INSTANCE Wrapping WITH
    bytes <- Bytes(b),
    Tokens <- {l.type : l \in Layers}
Wraps == Bytestring!Spec
=============================================================================
