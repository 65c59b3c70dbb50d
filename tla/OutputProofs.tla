---------------------------- MODULE OutputProofs ----------------------------
(***************************************************************************)
(* Proofs about the way out of the library.  For layers of any number and  *)
(* size, and any expected sizes: the indices of a SerializeBuffer stay in  *)
(* its array, a second round with the same sizes does not allocate, and    *)
(* the buffer implements Wrapping.  For batches of any size and packets of *)
(* any length: a Batch stays within its slots, and sends what it accepted  *)
(* once, whole and in order.                                               *)
(***************************************************************************)
EXTENDS SerializeBuffer, RawBatch, SequenceTheorems, TLAPS

Token == {Junk} \cup {l.type : l \in Layers}

Buffer == [data : Seq(Token), len : Nat, start : Nat, prepended : Nat, appended : Nat]

\* The inductive invariant: BufferOK, the types, and that the array has had
\* room for the most that a round took at either end.
Room(w, u) ==
    /\ w \in Buffer
    /\ Len(w.data) = w.prepended + w.appended
    /\ u[1] \in 0..w.prepended /\ u[2] \in 0..w.appended
    /\ w.start = w.prepended - u[1]
    /\ w.len = w.prepended + u[2]

IInv ==
    /\ Room(b, used)
    /\ used \in Nat \X Nat /\ peak \in Nat \X Nat
    /\ peak[1] <= b.prepended /\ peak[2] <= b.appended
    /\ todo \in Seq(Layers)

\* What stands in an array of tokens: a function over 1..n is a sequence.
LEMMA ArraySeq ==
    ASSUME NEW n \in Nat, NEW f \in [1..n -> Token]
    PROVE  f \in Seq(Token) /\ Len(f) = n /\ DOMAIN f = 1..n
  OBVIOUS

\* The bytes of a buffer, one by one (serializeBuffer.Bytes).
LEMMA BytesAre ==
    ASSUME NEW w \in Buffer, w.start <= w.len, w.len <= Len(w.data)
    PROVE  /\ Bytes(w) \in Seq(Token)
           /\ Len(Bytes(w)) = w.len - w.start
           /\ \A i \in 1..(w.len - w.start) : Bytes(w)[i] = w.data[w.start + i]
  <1>1. w.data \in Seq(Token) /\ w.start \in Nat /\ w.len \in Nat
    BY DEF Buffer
  <1>2. Bytes(w) = [i \in 1..(w.len - w.start) |-> w.data[w.start + i]]
    BY <1>1, SubSeqProperties DEF Bytes
  <1>3. \A i \in 1..(w.len - w.start) : w.data[w.start + i] \in Token
    BY <1>1, ElementOfSeq
  <1>4. Bytes(w) \in [1..(w.len - w.start) -> Token] /\ w.len - w.start \in Nat
    BY <1>1, <1>2, <1>3
  <1> QED
    BY <1>2, <1>4, ArraySeq

\* A larger array with the old bytes in the middle (Copied).
LEMMA CopiedArray ==
    ASSUME NEW w \in Buffer, w.start <= w.len, w.len <= Len(w.data),
           NEW size \in Nat, NEW at \in Nat, at + w.len - w.start <= size
    PROVE  /\ Copied(w, size, at) \in Seq(Token)
           /\ Len(Copied(w, size, at)) = size
           /\ \A i \in 1..(w.len - w.start) :
                 Copied(w, size, at)[at + i] = w.data[w.start + i]
  <1>1. w.data \in Seq(Token) /\ w.start \in Nat /\ w.len \in Nat /\ Len(w.data) \in Nat
    BY DEF Buffer
  <1>2. \A i \in 1..size : i > at /\ i <= at + w.len - w.start =>
            w.data[w.start + i - at] \in Token
    BY <1>1, ElementOfSeq
  <1>3. Junk \in Token
    BY DEF Token
  <1>4. Copied(w, size, at) \in [1..size -> Token]
    BY <1>2, <1>3 DEF Copied
  <1>5. \A i \in 1..(w.len - w.start) : Copied(w, size, at)[at + i] = w.data[w.start + i]
    <2> SUFFICES ASSUME NEW i \in 1..(w.len - w.start)
                 PROVE  Copied(w, size, at)[at + i] = w.data[w.start + i]
      OBVIOUS
    <2>1. at + i \in 1..size /\ at + i > at /\ at + i <= at + w.len - w.start
      BY <1>1
    <2>2. w.start + (at + i) - at = w.start + i
      BY <1>1
    <2> QED
      BY <2>1, <2>2 DEF Copied
  <1> QED
    BY <1>4, <1>5, ArraySeq

\* Two buffers with the same bytes at different places have equal Bytes.
LEMMA SameBytes ==
    ASSUME NEW w \in Buffer, w.start <= w.len, w.len <= Len(w.data),
           NEW g \in Buffer, g.start <= g.len, g.len <= Len(g.data),
           g.len - g.start = w.len - w.start,
           \A i \in 1..(w.len - w.start) : g.data[g.start + i] = w.data[w.start + i]
    PROVE  Bytes(g) = Bytes(w)
  <1>1. /\ Bytes(w) \in Seq(Token) /\ Len(Bytes(w)) = w.len - w.start
        /\ \A i \in 1..(w.len - w.start) : Bytes(w)[i] = w.data[w.start + i]
    BY BytesAre
  <1>2. /\ Bytes(g) \in Seq(Token) /\ Len(Bytes(g)) = g.len - g.start
        /\ \A i \in 1..(g.len - g.start) : Bytes(g)[i] = g.data[g.start + i]
    BY BytesAre
  <1>3. \A i \in 1..Len(Bytes(g)) : Bytes(g)[i] = Bytes(w)[i]
    BY <1>1, <1>2
  <1> QED
    BY <1>1, <1>2, <1>3, SeqEqual


\* Where the bytes stand in the array, in numbers.
LEMMA RoomNumbers ==
    ASSUME NEW w, NEW u \in Nat \X Nat, Room(w, u)
    PROVE  \E p, a, x, y \in Nat :
              /\ w \in Buffer /\ w.data \in Seq(Token)
              /\ u = <<x, y>> /\ x <= p /\ y <= a
              /\ w.prepended = p /\ w.appended = a
              /\ w.start = p - x /\ w.len = p + y /\ Len(w.data) = p + a
  <1>1. /\ w \in Buffer /\ w.data \in Seq(Token) /\ u[1] \in Nat /\ u[2] \in Nat
        /\ w.prepended \in Nat /\ w.appended \in Nat
    BY DEF Room, Buffer
  <1>2. u = <<u[1], u[2]>>
    OBVIOUS
  <1>3. /\ Len(w.data) = w.prepended + w.appended
        /\ u[1] <= w.prepended /\ u[2] <= w.appended
        /\ w.start = w.prepended - u[1] /\ w.len = w.prepended + u[2]
    BY <1>1 DEF Room
  <1> QED
    BY <1>1, <1>2, <1>3

\* Growing in front makes room there and moves the bytes (PrependBytes).
LEMMA GrowFront ==
    ASSUME NEW w, NEW u \in Nat \X Nat, Room(w, u), NEW num \in Nat
    PROVE  /\ Room(growFront(w, num), u)
           /\ growFront(w, num).start >= num
           /\ growFront(w, num).prepended >= w.prepended
           /\ growFront(w, num).appended = w.appended
           /\ Bytes(growFront(w, num)) = Bytes(w)
  <1>1. PICK p, a, x, y \in Nat :
              /\ w \in Buffer /\ w.data \in Seq(Token)
              /\ u = <<x, y>> /\ x <= p /\ y <= a
              /\ w.prepended = p /\ w.appended = a
              /\ w.start = p - x /\ w.len = p + y /\ Len(w.data) = p + a
    BY RoomNumbers
  <1>2. PICK more \in Nat : more = MaxOf(p, num) /\ more >= num
    BY DEF MaxOf
  <1>m. more >= num /\ x <= p /\ y <= a
    BY <1>1, <1>2
  <1>3. w.start <= w.len /\ w.len <= Len(w.data)
    BY <1>1
  <1>4. PICK arr : /\ arr = Copied(w, p + a + more, p - x + more)
        /\ arr \in Seq(Token) /\ Len(arr) = p + a + more
        /\ \A i \in 1..(x + y) : arr[p - x + more + i] = w.data[p - x + i]
    <2>1. PICK size, at \in Nat : size = p + a + more /\ at = p - x + more /\ at + (x + y) <= size
      BY <1>1
    <2>2. at + w.len - w.start <= size /\ w.len - w.start = x + y
      BY <1>1, <2>1
    <2>3. /\ Copied(w, size, at) \in Seq(Token) /\ Len(Copied(w, size, at)) = size
          /\ \A i \in 1..(w.len - w.start) : Copied(w, size, at)[at + i] = w.data[w.start + i]
      BY <1>1, <1>3, <2>2, CopiedArray
    <2> QED
      BY <1>1, <2>1, <2>2, <2>3
  <1>5. PICK g : g = growFront(w, num) /\ g = [data |-> arr, len |-> p + y + more, start |-> p - x + more,
             prepended |-> p + more, appended |-> a]
    BY <1>1, <1>2, <1>4 DEF growFront, cap
  <1>f. /\ g.data = arr /\ g.prepended = p + more /\ g.appended = a
        /\ g.len = p + y + more /\ g.start = p - x + more
    BY <1>5
  <1>n. /\ p + more \in Nat /\ p + y + more \in Nat /\ p - x + more \in Nat
        /\ p - x + more = (p + more) - x /\ p + y + more = (p + more) + y
        /\ p + a + more = (p + more) + a
        /\ x \in 0..(p + more) /\ y \in 0..a /\ p - x + more >= num /\ p + more >= p
    BY <1>m
  <1>6. g \in Buffer
    BY <1>n, <1>4, <1>5 DEF Buffer
  <1>7. Room(g, u) /\ g.start >= num /\ g.prepended >= w.prepended /\ g.appended = w.appended
    BY <1>1, <1>n, <1>4, <1>f, <1>6 DEF Room
  <1>8. /\ g.start <= g.len /\ g.len <= Len(g.data) /\ g.len - g.start = w.len - w.start
        /\ \A i \in 1..(w.len - w.start) : g.data[g.start + i] = w.data[w.start + i]
    <2>1. w.len - w.start = x + y /\ g.len - g.start = x + y
      BY <1>1, <1>2, <1>f
    <2>2. g.start <= g.len /\ g.len <= Len(g.data)
      <3>1. p - x + more <= p + y + more /\ p + y + more <= p + a + more
        BY <1>m
      <3> QED
        BY <3>1, <1>4, <1>f
    <2> QED
      BY <1>1, <1>4, <1>f, <2>1, <2>2
  <1>9. Bytes(g) = Bytes(w)
    BY <1>1, <1>3, <1>6, <1>8, SameBytes
  <1> QED
    BY <1>5, <1>7, <1>9

\* Growing at the end makes room there and moves nothing (AppendBytes).
LEMMA GrowBack ==
    ASSUME NEW w, NEW u \in Nat \X Nat, Room(w, u), NEW num \in Nat
    PROVE  /\ Room(growBack(w, num), u)
           /\ growBack(w, num).appended - u[2] >= num
           /\ growBack(w, num).prepended = w.prepended
           /\ growBack(w, num).appended >= w.appended
           /\ Bytes(growBack(w, num)) = Bytes(w)
  <1>1. PICK p, a, x, y \in Nat :
              /\ w \in Buffer /\ w.data \in Seq(Token)
              /\ u = <<x, y>> /\ x <= p /\ y <= a
              /\ w.prepended = p /\ w.appended = a
              /\ w.start = p - x /\ w.len = p + y /\ Len(w.data) = p + a
    BY RoomNumbers
  <1>2. PICK more \in Nat : more = MaxOf(a, num) /\ more >= num
    BY DEF MaxOf
  <1>m. more >= num /\ x <= p /\ y <= a
    BY <1>1, <1>2
  <1>3. w.start <= w.len /\ w.len <= Len(w.data)
    BY <1>1
  <1>4. PICK arr : /\ arr = Copied(w, p + a + more, p - x)
        /\ arr \in Seq(Token) /\ Len(arr) = p + a + more
        /\ \A i \in 1..(x + y) : arr[p - x + i] = w.data[p - x + i]
    <2>1. PICK size, at \in Nat : size = p + a + more /\ at = p - x /\ at + (x + y) <= size
      BY <1>m
    <2>2. at + w.len - w.start <= size /\ w.len - w.start = x + y
      BY <1>1, <2>1
    <2>3. /\ Copied(w, size, at) \in Seq(Token) /\ Len(Copied(w, size, at)) = size
          /\ \A i \in 1..(w.len - w.start) : Copied(w, size, at)[at + i] = w.data[w.start + i]
      BY <1>1, <1>3, <2>2, CopiedArray
    <2>4. \A i \in 1..(x + y) : Copied(w, size, at)[at + i] = w.data[at + i]
      BY <1>1, <2>1, <2>2, <2>3
    <2>5. PICK arr : arr = Copied(w, size, at)
      OBVIOUS
    <2> QED
      BY <2>1, <2>3, <2>4, <2>5
  <1>5. PICK g : g = growBack(w, num) /\ g = [data |-> arr, len |-> p + y, start |-> p - x,
             prepended |-> p, appended |-> a + more]
    BY <1>1, <1>2, <1>4 DEF growBack, cap
  <1>f. /\ g.data = arr /\ g.prepended = p /\ g.appended = a + more
        /\ g.len = p + y /\ g.start = p - x
    BY <1>5
  <1>n. /\ a + more \in Nat /\ p + y \in Nat /\ p - x \in Nat
        /\ p + a + more = p + (a + more)
        /\ x \in 0..p /\ y \in 0..(a + more) /\ a + more - y >= num /\ a + more >= a
    BY <1>m
  <1>6. g \in Buffer
    BY <1>n, <1>4, <1>5 DEF Buffer
  <1>7. /\ Room(g, u) /\ g.appended - u[2] >= num
        /\ g.prepended = w.prepended /\ g.appended >= w.appended
    BY <1>1, <1>n, <1>4, <1>f, <1>6 DEF Room
  <1>8. /\ g.start <= g.len /\ g.len <= Len(g.data) /\ g.len - g.start = w.len - w.start
        /\ \A i \in 1..(w.len - w.start) : g.data[g.start + i] = w.data[w.start + i]
    <2>1. w.len - w.start = x + y /\ g.len - g.start = x + y
      BY <1>1, <1>2, <1>f
    <2>2. g.start <= g.len /\ g.len <= Len(g.data)
      <3>1. p - x <= p + y /\ p + y <= p + a + more
        BY <1>m
      <3> QED
        BY <3>1, <1>4, <1>f
    <2> QED
      BY <1>1, <1>4, <1>f, <2>1, <2>2
  <1>9. Bytes(g) = Bytes(w)
    BY <1>1, <1>3, <1>6, <1>8, SameBytes
  <1> QED
    BY <1>5, <1>7, <1>9

\* A sequence is the concatenation of two if it is that element by element.
LEMMA Joined ==
    ASSUME NEW s \in Seq(Token), NEW t \in Seq(Token), NEW r \in Seq(Token),
           Len(r) = Len(s) + Len(t),
           \A i \in 1..Len(s) : r[i] = s[i],
           \A i \in 1..Len(t) : r[Len(s) + i] = t[i]
    PROVE  r = s \o t
  <1>0. PICK m, n \in Nat : Len(s) = m /\ Len(t) = n
    OBVIOUS
  <1>1. s \o t \in Seq(Token) /\ Len(s \o t) = m + n
    BY <1>0, ConcatProperties
  <1>2. ASSUME NEW i \in 1..(m + n) PROVE r[i] = (s \o t)[i]
    <2>1. CASE i <= m
      <3>1. i \in 1..m /\ (s \o t)[i] = s[i]
        BY <1>0, <2>1, ConcatProperties
      <3> QED
        BY <1>0, <3>1
    <2>2. CASE ~(i <= m)
      <3>1. (s \o t)[i] = t[i - m]
        BY <1>0, <2>2, ConcatProperties
      <3>2. PICK j \in 1..n : i = m + j /\ j = i - m
        BY <2>2
      <3> QED
        BY <1>0, <3>1, <3>2
    <2> QED
      BY <2>1, <2>2
  <1> QED
    BY <1>0, <1>1, <1>2, SeqEqual

Rep(tok, num) == [i \in 1..num |-> tok]

\* The bytes that the caller of PrependBytes writes stand in front of the others.
LEMMA WriteFront ==
    ASSUME NEW w, NEW u \in Nat \X Nat, Room(w, u), NEW num \in Nat, num <= w.start,
           NEW tok \in Token, NEW g,
           g = [data |-> Written(w.data, w.start - num, num, tok),
                len |-> w.len, start |-> w.start - num,
                prepended |-> w.prepended, appended |-> w.appended]
    PROVE  /\ Room(g, <<u[1] + num, u[2]>>)
           /\ g.prepended = w.prepended /\ g.appended = w.appended
           /\ Bytes(g) = [i \in 1..num |-> tok] \o Bytes(w)
  <1>1. PICK p, a, x, y \in Nat :
              /\ w \in Buffer /\ w.data \in Seq(Token)
              /\ u = <<x, y>> /\ x <= p /\ y <= a
              /\ w.prepended = p /\ w.appended = a
              /\ w.start = p - x /\ w.len = p + y /\ Len(w.data) = p + a
    BY RoomNumbers
  <1>m. x <= p /\ y <= a /\ num <= p - x
    BY <1>1
  <1>2. PICK at, n \in Nat : at = p - x - num /\ n = p + a
    BY <1>m
  <1>3. PICK arr : arr = [i \in 1..n |-> IF i > at /\ i <= at + num THEN tok ELSE w.data[i]]
    OBVIOUS
  <1>4. arr \in Seq(Token) /\ Len(arr) = n
    <2>1. \A i \in 1..n : w.data[i] \in Token
      BY <1>1, <1>2, ElementOfSeq
    <2>2. arr \in [1..n -> Token]
      BY <1>3, <2>1
    <2> QED
      BY <2>2, ArraySeq
  <1>5. g = [data |-> arr, len |-> p + y, start |-> at, prepended |-> p, appended |-> a]
    BY <1>1, <1>2, <1>3 DEF Written
  <1>f. /\ g.data = arr /\ g.prepended = p /\ g.appended = a
        /\ g.len = p + y /\ g.start = at
    BY <1>5
  <1>n. /\ p + y \in Nat /\ x + num \in Nat /\ at = p - (x + num)
        /\ x + num \in 0..p /\ y \in 0..a /\ at <= p + y /\ p + y <= n
        /\ (p + y) - at = num + (x + y)
    BY <1>m, <1>2
  <1>6. g \in Buffer
    BY <1>n, <1>4, <1>5 DEF Buffer
  <1>7. /\ Room(g, <<u[1] + num, u[2]>>)
        /\ g.prepended = w.prepended /\ g.appended = w.appended
    BY <1>1, <1>2, <1>n, <1>4, <1>f, <1>6 DEF Room
  <1>k. PICK k \in Nat : k = x + y
    OBVIOUS
  <1>8. /\ Bytes(g) \in Seq(Token) /\ Len(Bytes(g)) = num + k
        /\ \A i \in 1..(num + k) : Bytes(g)[i] = arr[at + i]
    <2>1. g.start <= g.len /\ g.len <= Len(g.data) /\ g.len - g.start = num + k
      BY <1>4, <1>f, <1>n, <1>k
    <2>2. /\ Bytes(g) \in Seq(Token) /\ Len(Bytes(g)) = g.len - g.start
          /\ \A i \in 1..(g.len - g.start) : Bytes(g)[i] = g.data[g.start + i]
      BY <1>6, <2>1, BytesAre
    <2> QED
      BY <1>f, <2>1, <2>2
  <1>9. /\ Bytes(w) \in Seq(Token) /\ Len(Bytes(w)) = k
        /\ \A i \in 1..k : Bytes(w)[i] = w.data[p - x + i]
    <2>1. w.start <= w.len /\ w.len <= Len(w.data) /\ w.len - w.start = k
      BY <1>1, <1>k
    <2> QED
      BY <1>1, <2>1, BytesAre
  <1>10. PICK rep : rep = [i \in 1..num |-> tok] /\ rep \in Seq(Token) /\ Len(rep) = num
    BY ArraySeq
  <1>11. ASSUME NEW i \in 1..num PROVE Bytes(g)[i] = rep[i]
    <2>1. at + i \in 1..n /\ at + i > at /\ at + i <= at + num /\ i \in 1..(num + k)
      BY <1>n, <1>m, <1>2
    <2>2. arr[at + i] = tok
      BY <2>1, <1>3
    <2> QED
      BY <2>1, <2>2, <1>8, <1>10
  <1>12. ASSUME NEW i \in 1..k PROVE Bytes(g)[num + i] = Bytes(w)[i]
    <2>1. PICK j \in 1..n : /\ j = at + (num + i) /\ j = p - x + i /\ ~(j <= at + num)
                            /\ num + i \in 1..(num + k)
      BY <1>n, <1>m, <1>2, <1>k
    <2>2. arr[j] = w.data[j]
      BY <2>1, <1>3
    <2> QED
      BY <2>1, <2>2, <1>8, <1>9
  <1>13. Bytes(g) = rep \o Bytes(w)
    <2>1. PICK r, t \in Seq(Token) : /\ r = Bytes(g) /\ t = Bytes(w)
                                     /\ Len(r) = num + k /\ Len(t) = k
      BY <1>8, <1>9
    <2>2. \A i \in 1..num : r[i] = rep[i]
      BY <2>1, <1>11
    <2>3. \A i \in 1..k : r[num + i] = t[i]
      BY <2>1, <1>12
    <2>4. rep \in Seq(Token) /\ Len(rep) = num /\ Len(r) = num + k /\ Len(t) = k
      BY <2>1, <1>10
    <2>5. /\ rep \in Seq(Token) /\ Len(r) = Len(rep) + Len(t)
          /\ \A i \in 1..Len(rep) : r[i] = rep[i]
          /\ \A i \in 1..Len(t) : r[Len(rep) + i] = t[i]
      BY <2>2, <2>3, <2>4
    <2>6. r = rep \o t
      BY <2>5, Joined, Zenon
    <2> QED
      BY <2>1, <2>6
  <1> QED
    BY <1>7, <1>10, <1>13

\* What AppendBytes promises of its result g.
Attached(g, w, u, num, tok) ==
    /\ Room(g, <<u[1], u[2] + num>>)
    /\ g.prepended = w.prepended /\ g.appended >= w.appended
    /\ u[2] + num <= w.appended => g.appended = w.appended
    /\ Bytes(g) = Bytes(w) \o Rep(tok, num)

\* The buffer after AppendBytes, where there is room.
Behind(w, num, tok) ==
    [data |-> Written(w.data, w.len, num, tok), len |-> w.len + num, start |-> w.start,
     prepended |-> w.prepended, appended |-> w.appended]

\* The bytes that the caller of AppendBytes writes stand behind the others.
LEMMA WriteBack ==
    ASSUME NEW w, NEW u \in Nat \X Nat, Room(w, u), NEW num \in Nat,
           w.len + num <= Len(w.data), NEW tok \in Token, NEW g,
           g = Behind(w, num, tok)
    PROVE  Attached(g, w, u, num, tok)
  <1>1. PICK p, a, x, y \in Nat :
              /\ w \in Buffer /\ w.data \in Seq(Token)
              /\ u = <<x, y>> /\ x <= p /\ y <= a
              /\ w.prepended = p /\ w.appended = a
              /\ w.start = p - x /\ w.len = p + y /\ Len(w.data) = p + a
    BY RoomNumbers
  <1>m. x <= p /\ y <= a /\ num <= a - y
    BY <1>1
  <1>2. PICK at, n \in Nat : at = p + y /\ n = p + a
    BY <1>m
  <1>3. PICK arr : arr = [i \in 1..n |-> IF i > at /\ i <= at + num THEN tok ELSE w.data[i]]
    OBVIOUS
  <1>4. arr \in Seq(Token) /\ Len(arr) = n
    <2>1. \A i \in 1..n : w.data[i] \in Token
      BY <1>1, <1>2, ElementOfSeq
    <2>2. arr \in [1..n -> Token]
      BY <1>3, <2>1
    <2> QED
      BY <2>2, ArraySeq
  <1>5. g = [data |-> arr, len |-> at + num, start |-> p - x, prepended |-> p, appended |-> a]
    BY <1>1, <1>2, <1>3 DEF Written, Behind
  <1>f. /\ g.data = arr /\ g.prepended = p /\ g.appended = a
        /\ g.len = at + num /\ g.start = p - x
    BY <1>5
  <1>n. /\ at + num \in Nat /\ p - x \in Nat /\ y + num \in Nat /\ at + num = p + (y + num)
        /\ x \in 0..p /\ y + num \in 0..a /\ p - x <= at + num /\ at + num <= n
        /\ (at + num) - (p - x) = (x + y) + num
    BY <1>m, <1>2
  <1>6. g \in Buffer
    BY <1>n, <1>4, <1>5 DEF Buffer
  <1>7. /\ Room(g, <<u[1], u[2] + num>>)
        /\ g.prepended = w.prepended /\ g.appended = w.appended
    BY <1>1, <1>2, <1>n, <1>4, <1>f, <1>6 DEF Room
  <1>k. PICK k \in Nat : k = x + y
    OBVIOUS
  <1>8. /\ Bytes(g) \in Seq(Token) /\ Len(Bytes(g)) = k + num
        /\ \A i \in 1..(k + num) : Bytes(g)[i] = arr[p - x + i]
    <2>1. g.start <= g.len /\ g.len <= Len(g.data) /\ g.len - g.start = k + num
      BY <1>4, <1>f, <1>n, <1>k
    <2>2. /\ Bytes(g) \in Seq(Token) /\ Len(Bytes(g)) = g.len - g.start
          /\ \A i \in 1..(g.len - g.start) : Bytes(g)[i] = g.data[g.start + i]
      BY <1>6, <2>1, BytesAre
    <2> QED
      BY <1>f, <2>1, <2>2
  <1>9. /\ Bytes(w) \in Seq(Token) /\ Len(Bytes(w)) = k
        /\ \A i \in 1..k : Bytes(w)[i] = w.data[p - x + i]
    <2>1. w.start <= w.len /\ w.len <= Len(w.data) /\ w.len - w.start = k
      BY <1>1, <1>k
    <2> QED
      BY <1>1, <2>1, BytesAre
  <1>10. PICK rep : rep = [i \in 1..num |-> tok] /\ rep \in Seq(Token) /\ Len(rep) = num
    BY ArraySeq
  <1>11. ASSUME NEW i \in 1..k PROVE Bytes(g)[i] = Bytes(w)[i]
    <2>1. PICK j \in 1..n : j = p - x + i /\ ~(j > at) /\ i \in 1..(k + num)
      BY <1>n, <1>m, <1>2, <1>k
    <2>2. arr[j] = w.data[j]
      BY <2>1, <1>3
    <2> QED
      BY <2>1, <2>2, <1>8, <1>9
  <1>12. ASSUME NEW i \in 1..num PROVE Bytes(g)[k + i] = rep[i]
    <2>1. PICK j \in 1..n : /\ j = p - x + (k + i) /\ j > at /\ j <= at + num
                            /\ k + i \in 1..(k + num)
      BY <1>n, <1>m, <1>2, <1>k
    <2>2. arr[j] = tok
      BY <2>1, <1>3
    <2> QED
      BY <2>1, <2>2, <1>8, <1>10
  <1>13. Bytes(g) = Bytes(w) \o rep
    <2>1. PICK r, t \in Seq(Token) : /\ r = Bytes(g) /\ t = Bytes(w)
                                     /\ Len(r) = k + num /\ Len(t) = k
      BY <1>8, <1>9
    <2>2. \A i \in 1..k : r[i] = t[i]
      BY <2>1, <1>11
    <2>3. \A i \in 1..num : r[k + i] = rep[i]
      BY <2>1, <1>12
    <2>4. rep \in Seq(Token) /\ Len(rep) = num /\ Len(r) = k + num /\ Len(t) = k
      BY <2>1, <1>10
    <2>5. /\ rep \in Seq(Token) /\ Len(r) = Len(t) + Len(rep)
          /\ \A i \in 1..Len(t) : r[i] = t[i]
          /\ \A i \in 1..Len(rep) : r[Len(t) + i] = rep[i]
      BY <2>2, <2>3, <2>4
    <2>6. r = t \o rep
      BY <2>5, Joined, Zenon
    <2> QED
      BY <2>1, <2>6
  <1>14. g.appended >= w.appended
    BY <1>1, <1>f
  <1> QED
    BY <1>7, <1>10, <1>13, <1>14 DEF Attached, Rep

\* PrependBytes adds its bytes in front, and grows the array only if they
\* are more than it has been grown for.
LEMMA Prepend ==
    ASSUME NEW w, NEW u \in Nat \X Nat, Room(w, u), NEW num \in Nat, NEW tok \in Token,
           NEW g, g = PrependBytes(w, num, tok)
    PROVE  /\ Room(g, <<u[1] + num, u[2]>>)
           /\ g.prepended >= w.prepended /\ g.appended = w.appended
           /\ u[1] + num <= w.prepended => g.prepended = w.prepended
           /\ Bytes(g) = Rep(tok, num) \o Bytes(w)
  <1>1. /\ w.prepended \in Nat /\ w.start \in Nat /\ u[1] \in Nat
        /\ w.start = w.prepended - u[1]
    BY DEF Room, Buffer
  <1>2. PICK v : v = (IF w.start < num THEN growFront(w, num) ELSE w)
    OBVIOUS
  <1>3. g = [data |-> Written(v.data, v.start - num, num, tok),
             len |-> v.len, start |-> v.start - num,
             prepended |-> v.prepended, appended |-> v.appended]
    BY <1>2 DEF PrependBytes
  <1>4. /\ Room(v, u) /\ num <= v.start
        /\ v.prepended >= w.prepended /\ v.appended = w.appended
        /\ Bytes(v) = Bytes(w)
    <2>1. CASE w.start < num
      <3>1. v = growFront(w, num)
        BY <1>2, <2>1
      <3> QED
        BY <3>1, GrowFront
    <2>2. CASE ~(w.start < num)
      <3>1. v = w
        BY <1>2, <2>2
      <3> QED
        BY <1>1, <2>2, <3>1
    <2> QED
      BY <2>1, <2>2
  <1>5. u[1] + num <= w.prepended => v = w
    BY <1>1, <1>2
  <1>6. /\ Room(g, <<u[1] + num, u[2]>>)
        /\ g.prepended = v.prepended /\ g.appended = v.appended
        /\ Bytes(g) = [i \in 1..num |-> tok] \o Bytes(v)
    BY <1>3, <1>4, WriteFront
  <1> QED
    BY <1>4, <1>5, <1>6 DEF Rep

\* AppendBytes adds its bytes behind, and grows the array only if they are
\* more than it has been grown for.
LEMMA Attach ==
    ASSUME NEW w, NEW u \in Nat \X Nat, Room(w, u), NEW num \in Nat, NEW tok \in Token,
           NEW g, g = AppendBytes(w, num, tok)
    PROVE  Attached(g, w, u, num, tok)
  <1>1. /\ w.prepended \in Nat /\ w.appended \in Nat /\ u[2] \in Nat
        /\ w.len = w.prepended + u[2] /\ cap(w) = w.prepended + w.appended
    BY DEF Room, Buffer, cap
  <1>2. PICK v : v = (IF cap(w) - w.len < num THEN growBack(w, num) ELSE w)
    OBVIOUS
  <1>3. g = Behind(v, num, tok)
    BY <1>2 DEF AppendBytes, Behind
  <1>n. cap(w) - w.len < num <=> w.appended - u[2] < num
    BY <1>1
  <1>4. /\ Room(v, u) /\ num <= v.appended - u[2]
        /\ v.prepended = w.prepended /\ v.appended >= w.appended
        /\ Bytes(v) = Bytes(w)
    <2>1. CASE cap(w) - w.len < num
      <3>1. v = growBack(w, num)
        BY <1>2, <2>1
      <3>2. v.appended \in Nat /\ v.appended - u[2] >= num
        BY <3>1, GrowBack DEF Room, Buffer
      <3> QED
        BY <1>1, <3>1, <3>2, GrowBack
    <2>2. CASE ~(cap(w) - w.len < num)
      <3>1. v = w
        BY <1>2, <2>2
      <3> QED
        BY <1>1, <1>n, <2>2, <3>1
    <2> QED
      BY <2>1, <2>2
  <1>5. u[2] + num <= w.appended => v = w
    BY <1>1, <1>2, <1>n
  <1>6. Attached(g, v, u, num, tok)
    <2>r. Room(v, u)
      BY <1>4
    <2>1. v.len + num <= Len(v.data)
      <3>1. PICK p, a, x, y \in Nat :
              /\ v \in Buffer /\ v.data \in Seq(Token)
              /\ u = <<x, y>> /\ x <= p /\ y <= a
              /\ v.prepended = p /\ v.appended = a
              /\ v.start = p - x /\ v.len = p + y /\ Len(v.data) = p + a
        BY <2>r, RoomNumbers, Zenon
      <3> QED
        BY <1>4, <3>1
    <2> QED
      BY <1>3, <2>r, <2>1, WriteBack
  <1>7. /\ v.appended \in Nat /\ g.appended \in Nat /\ g.appended >= w.appended
        /\ u[2] + num <= w.appended => g.appended = w.appended
    <2>1. /\ Room(g, <<u[1], u[2] + num>>) /\ g.appended >= v.appended
          /\ u[2] + num <= v.appended => g.appended = v.appended
      BY <1>6 DEF Attached
    <2>2. v.appended \in Nat
      BY <1>4 DEF Room, Buffer
    <2>3. g.appended \in Nat
      BY <2>1 DEF Room, Buffer
    <2>4. v.appended >= w.appended
      BY <1>4
    <2>5. g.appended >= w.appended
      BY <2>1, <2>2, <2>3, <2>4, <1>1
    <2>6. u[2] + num <= w.appended => g.appended = w.appended
      BY <2>1, <1>5
    <2> QED
      BY <2>2, <2>3, <2>5, <2>6
  <1> QED
    BY <1>4, <1>6, <1>7 DEF Attached

\* Clear empties the buffer in the middle of its array.
LEMMA Cleared ==
    ASSUME NEW w, NEW u \in Nat \X Nat, Room(w, u)
    PROVE  /\ Room(Clear(w), <<0, 0>>)
           /\ Clear(w).prepended = w.prepended /\ Clear(w).appended = w.appended
           /\ Bytes(Clear(w)) = <<>>
  <1>1. PICK p, a \in Nat : w.prepended = p /\ w.appended = a /\ Len(w.data) = p + a
    BY DEF Room, Buffer
  <1>2. PICK arr : arr = [i \in 1..(p + a) |-> Junk] /\ arr \in Seq(Token) /\ Len(arr) = p + a
    <2>1. Junk \in Token /\ p + a \in Nat
      BY DEF Token
    <2>2. [i \in 1..(p + a) |-> Junk] \in [1..(p + a) -> Token]
      BY <2>1
    <2> QED
      BY <2>1, <2>2, ArraySeq
  <1>3. PICK g : /\ g = Clear(w)
                 /\ g = [data |-> arr, len |-> p, start |-> p, prepended |-> p, appended |-> a]
    BY <1>1, <1>2 DEF Clear
  <1>4. g \in Buffer
    BY <1>2, <1>3 DEF Buffer
  <1>5. g.data = arr /\ g.len = p /\ g.start = p /\ g.prepended = p /\ g.appended = a
    BY <1>3
  <1>6. Room(g, <<0, 0>>)
    BY <1>2, <1>4, <1>5 DEF Room
  <1>7. Bytes(g) = <<>>
    BY <1>2, <1>5, SubSeqProperties DEF Bytes
  <1> QED
    BY <1>1, <1>3, <1>5, <1>6, <1>7

-----------------------------------------------------------------------------
\* A new buffer is empty, in the middle of its array (NewSerializeBufferExpectedSize).
LEMMA Fresh ==
    ASSUME NEW p \in Nat, NEW a \in Nat, NEW g, g = NewSerializeBufferExpectedSize(p, a)
    PROVE  Room(g, <<0, 0>>) /\ Bytes(g) = <<>>
  <1>1. PICK arr : arr = [i \in 1..(p + a) |-> Junk] /\ arr \in Seq(Token) /\ Len(arr) = p + a
    <2>1. Junk \in Token /\ p + a \in Nat
      BY DEF Token
    <2>2. [i \in 1..(p + a) |-> Junk] \in [1..(p + a) -> Token]
      BY <2>1
    <2> QED
      BY <2>1, <2>2, ArraySeq
  <1>2. g = [data |-> arr, len |-> p, start |-> p, prepended |-> p, appended |-> a]
    BY <1>1 DEF NewSerializeBufferExpectedSize
  <1>3. g \in Buffer
    BY <1>1, <1>2 DEF Buffer
  <1>4. g.data = arr /\ g.len = p /\ g.start = p /\ g.prepended = p /\ g.appended = a
    BY <1>2
  <1>5. Room(g, <<0, 0>>)
    BY <1>1, <1>3, <1>4 DEF Room
  <1>6. Bytes(g) = <<>>
    BY <1>1, <1>4, SubSeqProperties DEF Bytes
  <1> QED
    BY <1>5, <1>6

\* The buffer with a layer's bytes in front, and with those behind as well.
Headed(h, l, head) ==
    /\ Room(h, <<used[1] + head, used[2]>>)
    /\ Bytes(h) = Rep(l.type, head) \o Bytes(b)
    /\ h.prepended >= b.prepended /\ h.appended = b.appended
    /\ used[1] + head <= b.prepended => h.prepended = b.prepended

Wrapped(g, h, l, head, tail) ==
    /\ Room(g, <<used[1] + head, used[2] + tail>>)
    /\ Bytes(g) = Rep(l.type, head) \o Bytes(b) \o Rep(l.type, tail)
    /\ g.prepended = h.prepended /\ g.appended >= b.appended
    /\ used[2] + tail <= b.appended => g.appended = b.appended

\* What a layer does to the buffer, on either path of SerializeTo.
LEMMA LayerStep ==
    ASSUME IInv, NEW l \in Layers, NEW head \in Nat, NEW tail \in Nat,
           NEW h, h = PrependBytes(b, head, l.type)
    PROVE  /\ Headed(h, l, head)
           /\ \A g : g = AppendBytes(h, tail, l.type) => Wrapped(g, h, l, head, tail)
  <1>1. Room(b, used) /\ used \in Nat \X Nat /\ l.type \in Token
    BY DEF IInv, Token
  <1>2. /\ Room(h, <<used[1] + head, used[2]>>)
        /\ Bytes(h) = Rep(l.type, head) \o Bytes(b)
        /\ h.prepended >= b.prepended /\ h.appended = b.appended
        /\ used[1] + head <= b.prepended => h.prepended = b.prepended
    BY <1>1, Prepend
  <1>3. PICK v \in Nat \X Nat : v = <<used[1] + head, used[2]>> /\ v[1] = used[1] + head /\ v[2] = used[2]
    <2>1. used[1] \in Nat /\ used[2] \in Nat
      BY <1>1
    <2>2. PICK m, n \in Nat : m = used[1] + head /\ n = used[2]
      BY <2>1
    <2>3. <<m, n>> \in Nat \X Nat /\ <<m, n>>[1] = m /\ <<m, n>>[2] = n
      OBVIOUS
    <2> QED
      BY <2>2, <2>3
  <1>4. ASSUME NEW g, g = AppendBytes(h, tail, l.type)
        PROVE  /\ Room(g, <<used[1] + head, used[2] + tail>>)
               /\ Bytes(g) = Rep(l.type, head) \o Bytes(b) \o Rep(l.type, tail)
               /\ g.prepended = h.prepended /\ g.appended >= b.appended
               /\ used[2] + tail <= b.appended => g.appended = b.appended
    <2>1. Room(h, v)
      BY <1>2, <1>3
    <2>2. /\ Room(g, <<v[1], v[2] + tail>>)
          /\ g.prepended = h.prepended /\ g.appended >= h.appended
          /\ v[2] + tail <= h.appended => g.appended = h.appended
          /\ Bytes(g) = Bytes(h) \o Rep(l.type, tail)
      <3>1. PICK tok \in Token : tok = l.type
        BY <1>1
      <3>2. g = AppendBytes(h, tail, tok)
        BY <1>4, <3>1
      <3>3. Attached(g, h, v, tail, tok)
        BY <2>1, <3>2, Attach
      <3> QED
        BY <3>1, <3>3 DEF Attached
    <2> QED
      BY <1>2, <1>3, <2>2
  <1> QED
    BY <1>2, <1>4 DEF Headed, Wrapped

\* The sizes of a layer.
LEMMA LayerSizes ==
    ASSUME NEW l \in Layers
    PROVE  l.head \in Nat /\ l.tail \in Nat /\ l.head \in 0..MaxBytes /\ l.tail \in 0..MaxBytes
  BY BufferAssumption

\* The innermost layer that is left is one of the packet's.
LEMMA Innermost ==
    ASSUME todo \in Seq(Layers), todo # <<>>
    PROVE  todo[Len(todo)] \in Layers /\ SubSeq(todo, 1, Len(todo) - 1) \in Seq(Layers)
  <1>1. Len(todo) \in 1..Len(todo) /\ Len(todo) - 1 \in 0..Len(todo)
    BY EmptySeq
  <1> QED
    BY <1>1, ElementOfSeq, SubSeqProperties

\* The invariant holds of a new buffer.
LEMMA InitIInv == Init => IInv /\ Bytes(b) = <<>>
  <1> SUFFICES ASSUME Init PROVE IInv /\ Bytes(b) = <<>>
    OBVIOUS
  <1>1. PICK e \in Nat \X Nat : b = NewSerializeBufferExpectedSize(e[1], e[2])
    BY BufferAssumption DEF Init
  <1>2. e[1] \in Nat /\ e[2] \in Nat
    OBVIOUS
  <1>3. Room(b, <<0, 0>>) /\ Bytes(b) = <<>>
    BY <1>1, <1>2, Fresh
  <1>4. used = <<0, 0>> /\ peak = <<0, 0>> /\ todo = <<>>
    BY DEF Init
  <1>5. b.prepended \in Nat /\ b.appended \in Nat
    BY <1>3 DEF Room, Buffer
  <1> QED
    BY <1>3, <1>4, <1>5 DEF IInv

\* The invariant, what becomes of the bytes, and that a step which stays below
\* the peak does not allocate: for the start of a round (SerializeLayers).
LEMMA SerializeLayersStep ==
    ASSUME IInv, NEW ls \in Packets, SerializeLayers(ls)
    PROVE  IInv' /\ cap(b') = cap(b) /\ Bytes(b)' = <<>>
  <1>1. /\ Room(b, used) /\ used \in Nat \X Nat /\ peak \in Nat \X Nat
        /\ peak[1] <= b.prepended /\ peak[2] <= b.appended
    BY DEF IInv
  <1>2. /\ Room(b', <<0, 0>>) /\ b'.prepended = b.prepended /\ b'.appended = b.appended
        /\ Bytes(b') = <<>>
    BY <1>1, Cleared DEF SerializeLayers
  <1>3. /\ used' = <<0, 0>> /\ todo' = ls
        /\ peak' = <<MaxOf(peak[1], used[1]), MaxOf(peak[2], used[2])>>
    BY DEF SerializeLayers
  <1>4. todo' \in Seq(Layers)
    BY <1>3, BufferAssumption DEF Packets
  <1>5. /\ b.prepended \in Nat /\ b.appended \in Nat
        /\ used[1] \in 0..b.prepended /\ used[2] \in 0..b.appended
        /\ peak[1] \in Nat /\ peak[2] \in Nat /\ cap(b) = b.prepended + b.appended
    BY <1>1 DEF Room, Buffer, cap
  <1>6. PICK m, n \in Nat : /\ m = MaxOf(peak[1], used[1]) /\ n = MaxOf(peak[2], used[2])
                            /\ m <= b.prepended /\ n <= b.appended
    BY <1>1, <1>5 DEF MaxOf
  <1>7. peak' \in Nat \X Nat /\ peak'[1] <= b'.prepended /\ peak'[2] <= b'.appended
    BY <1>2, <1>3, <1>6
  <1>8. cap(b') = cap(b)
    BY <1>2, <1>5 DEF Room, cap
  <1> QED
    BY <1>2, <1>3, <1>4, <1>7, <1>8 DEF IInv, Bytes

\* The same for a layer that was written (SerializeTo).
LEMMA SerializeToStep ==
    ASSUME IInv, SerializeTo
    PROVE  /\ IInv'
           /\ used'[1] <= peak[1] /\ used'[2] <= peak[2] => cap(b') = cap(b)
           /\ \E l \in Layers : Bytes(b)' = Rep(l.type, l.head) \o Bytes(b) \o Rep(l.type, l.tail)
  <1>1. /\ Room(b, used) /\ used \in Nat \X Nat /\ peak \in Nat \X Nat
        /\ peak[1] <= b.prepended /\ peak[2] <= b.appended /\ todo \in Seq(Layers)
    BY DEF IInv
  <1>2. PICK l \in Layers : l = todo[Len(todo)] /\ todo' \in Seq(Layers)
    BY <1>1, Innermost DEF SerializeTo
  <1>3. PICK h : h = PrependBytes(b, l.head, l.type)
    OBVIOUS
  <1>4. /\ b' = AppendBytes(h, l.tail, l.type)
        /\ used' = <<used[1] + l.head, used[2] + l.tail>> /\ peak' = peak
    BY <1>2, <1>3 DEF SerializeTo
  <1>5. /\ h.prepended >= b.prepended /\ h.appended = b.appended
        /\ used[1] + l.head <= b.prepended => h.prepended = b.prepended
        /\ Room(b', <<used[1] + l.head, used[2] + l.tail>>)
        /\ Bytes(b') = Rep(l.type, l.head) \o Bytes(b) \o Rep(l.type, l.tail)
        /\ b'.prepended = h.prepended /\ b'.appended >= b.appended
        /\ used[2] + l.tail <= b.appended => b'.appended = b.appended
    <2>1. PICK hd, tl \in Nat : hd = l.head /\ tl = l.tail
      BY LayerSizes
    <2>2. h = PrependBytes(b, hd, l.type) /\ b' = AppendBytes(h, tl, l.type)
      BY <1>3, <1>4, <2>1
    <2>3. Headed(h, l, hd) /\ Wrapped(b', h, l, hd, tl)
      BY <2>2, LayerStep
    <2> QED
      BY <2>1, <2>3 DEF Headed, Wrapped
  <1>6. PICK x, y, hd, tl, pk1, pk2, p, a \in Nat :
          /\ x = used[1] /\ y = used[2] /\ hd = l.head /\ tl = l.tail
          /\ pk1 = peak[1] /\ pk2 = peak[2] /\ p = b.prepended /\ a = b.appended
    BY <1>1, LayerSizes DEF Room, Buffer
  <1>7. PICK pp, aa \in Nat : pp = b'.prepended /\ aa = b'.appended
    BY <1>5 DEF Room, Buffer
  <1>8. cap(b) = p + a /\ cap(b') = pp + aa
    BY <1>1, <1>5, <1>6, <1>7 DEF Room, cap
  <1>9. /\ pk1 <= p /\ pk2 <= a /\ pp >= p /\ aa >= a
        /\ x + hd <= p => pp = p
        /\ y + tl <= a => aa = a
    BY <1>1, <1>5, <1>6, <1>7
  <1>10. used' \in Nat \X Nat /\ used'[1] = x + hd /\ used'[2] = y + tl
    BY <1>4, <1>6
  <1>11. pk1 <= pp /\ pk2 <= aa
    BY <1>9
  <1>12. IInv'
    BY <1>1, <1>2, <1>4, <1>5, <1>6, <1>7, <1>10, <1>11 DEF IInv
  <1>13. x + hd <= pk1 /\ y + tl <= pk2 => pp = p /\ aa = a
    BY <1>9
  <1>14. used'[1] <= peak[1] /\ used'[2] <= peak[2] => cap(b') = cap(b)
    BY <1>6, <1>8, <1>10, <1>13
  <1> QED
    BY <1>5, <1>12, <1>14 DEF Bytes

\* The same for a layer that failed (SerializeTo returning an error).
LEMMA SerializeToFailsStep ==
    ASSUME IInv, SerializeToFails
    PROVE  /\ IInv'
           /\ used'[1] <= peak[1] /\ used'[2] <= peak[2] => cap(b') = cap(b)
           /\ \E l \in Layers, num \in 0..MaxBytes : Bytes(b)' = Rep(l.type, num) \o Bytes(b)
  <1>1. /\ Room(b, used) /\ used \in Nat \X Nat /\ peak \in Nat \X Nat
        /\ peak[1] <= b.prepended /\ peak[2] <= b.appended /\ todo \in Seq(Layers)
    BY DEF IInv
  <1>2. PICK l \in Layers : l = todo[Len(todo)]
    BY <1>1, Innermost DEF SerializeToFails
  <1>3. PICK num \in {0, l.head} : /\ b' = PrependBytes(b, num, l.type)
                                   /\ used' = <<used[1] + num, used[2]>>
    BY <1>2 DEF SerializeToFails
  <1>4. num \in Nat /\ num \in 0..MaxBytes
    BY <1>3, LayerSizes, BufferAssumption
  <1>5. peak' = peak /\ todo' = <<>>
    BY DEF SerializeToFails
  <1>6. /\ Room(b', <<used[1] + num, used[2]>>)
        /\ Bytes(b') = Rep(l.type, num) \o Bytes(b)
        /\ b'.prepended >= b.prepended /\ b'.appended = b.appended
        /\ used[1] + num <= b.prepended => b'.prepended = b.prepended
    <2>1. 0 \in Nat
      OBVIOUS
    <2>2. Headed(b', l, num)
      BY <1>3, <1>4, <2>1, LayerStep
    <2> QED
      BY <2>2 DEF Headed
  <1>7. PICK x, y, pk1, pk2, p, a \in Nat :
          /\ x = used[1] /\ y = used[2]
          /\ pk1 = peak[1] /\ pk2 = peak[2] /\ p = b.prepended /\ a = b.appended
    BY <1>1 DEF Room, Buffer
  <1>8. PICK pp, aa \in Nat : pp = b'.prepended /\ aa = b'.appended
    BY <1>6 DEF Room, Buffer
  <1>9. cap(b) = p + a /\ cap(b') = pp + aa
    BY <1>1, <1>6, <1>7, <1>8 DEF Room, cap
  <1>10. /\ pk1 <= p /\ pk2 <= a /\ pp >= p /\ aa = a
         /\ x + num <= p => pp = p
    BY <1>1, <1>6, <1>7, <1>8
  <1>11. used' \in Nat \X Nat /\ used'[1] = x + num /\ used'[2] = y
    BY <1>3, <1>4, <1>7
  <1>12. pk1 <= pp /\ pk2 <= aa
    BY <1>10
  <1>13. IInv'
    BY <1>1, <1>3, <1>5, <1>6, <1>7, <1>8, <1>11, <1>12 DEF IInv
  <1>14. x + num <= pk1 => pp = p /\ aa = a
    BY <1>4, <1>10
  <1>15. used'[1] <= peak[1] /\ used'[2] <= peak[2] => cap(b') = cap(b)
    BY <1>7, <1>9, <1>11, <1>14
  <1> QED
    BY <1>4, <1>6, <1>13, <1>15 DEF Bytes

\* The three facts for every step of the buffer and its callers.
LEMMA NextStep ==
    ASSUME IInv, [Next]_vars
    PROVE  /\ IInv'
           /\ used'[1] <= peak[1] /\ used'[2] <= peak[2] => cap(b') = cap(b)
           /\ [Bytestring!Next]_(Bytes(b))
  <1>1. ASSUME NEW ls \in Packets, SerializeLayers(ls)
        PROVE  /\ IInv' /\ cap(b') = cap(b) /\ Bytestring!Next
    BY <1>1, SerializeLayersStep DEF Bytestring!Next, Bytestring!Clear
  <1>2. CASE SerializeTo
    <2>1. PICK l \in Layers : Bytes(b)' = Rep(l.type, l.head) \o Bytes(b) \o Rep(l.type, l.tail)
      BY <1>2, SerializeToStep
    <2>2. Bytestring!Wrap(l.type, l.head, l.tail)
      BY <2>1 DEF Bytestring!Wrap, Bytestring!Repeat, Rep
    <2>3. Bytestring!Next
      BY <2>2, LayerSizes DEF Bytestring!Next
    <2> QED
      BY <1>2, <2>3, SerializeToStep
  <1>3. CASE SerializeToFails
    <2>1. PICK l \in Layers, num \in 0..MaxBytes : Bytes(b)' = Rep(l.type, num) \o Bytes(b)
      BY <1>3, SerializeToFailsStep
    <2>2. Rep(l.type, 0) = <<>>
      BY DEF Rep
    <2>3. Rep(l.type, num) \o Bytes(b) \in Seq(Token)
      <3>1. Bytes(b) \in Seq(Token)
        <4>1. b \in Buffer /\ b.start <= b.len /\ b.len <= Len(b.data)
          BY DEF IInv, Room, Buffer
        <4> QED
          BY <4>1, BytesAre
      <3>2. Rep(l.type, num) \in Seq(Token)
        <4>1. l.type \in Token /\ num \in Nat
          BY BufferAssumption DEF Token
        <4>2. Rep(l.type, num) \in [1..num -> Token]
          BY <4>1 DEF Rep
        <4> QED
          BY <4>1, <4>2, ArraySeq
      <3> QED
        BY <3>1, <3>2, ConcatProperties
    <2>4. Rep(l.type, num) \o Bytes(b) \o Rep(l.type, 0) = Rep(l.type, num) \o Bytes(b)
      BY <2>2, <2>3, ConcatEmptySeq
    <2>5. Bytestring!Wrap(l.type, num, 0)
      BY <2>1, <2>4 DEF Bytestring!Wrap, Bytestring!Repeat, Rep
    <2>6. Bytestring!Next
      BY <2>5, BufferAssumption DEF Bytestring!Next
    <2> QED
      BY <1>3, <2>6, SerializeToFailsStep
  <1>4. CASE UNCHANGED vars
    BY <1>4 DEF vars, IInv, Bytes
  <1>5. ASSUME NEW ls \in Packets, SerializePacket(ls) PROVE UNCHANGED vars
    BY <1>5 DEF SerializePacket
  <1> QED
    BY <1>1, <1>2, <1>3, <1>4, <1>5 DEF Next

\* The inductive invariant of the buffer holds always.
LEMMA Inductive == Spec => []IInv
  <1>1. Init => IInv
    BY InitIInv
  <1>2. IInv /\ [Next]_vars => IInv'
    BY NextStep
  <1> QED
    BY <1>1, <1>2, PTL DEF Spec

\* No slice expression of PrependBytes, AppendBytes, Bytes or Clear ever leaves
\* the backing array, for layers of any number and size.
THEOREM IndicesStayInside == Spec => []BufferOK
  <1>1. IInv => BufferOK
    BY DEF IInv, Room, Buffer, BufferOK, cap
  <1> QED
    BY <1>1, Inductive, PTL

\* A round that needs no more than the rounds before it allocates nothing
\* (PrependBytes and AppendBytes after Clear).
THEOREM NoSecondAllocation == Spec => SecondRoundIsFree
  <1>1. IInv /\ [Next]_vars =>
            [used'[1] <= peak[1] /\ used'[2] <= peak[2] => cap(b') = cap(b)]_vars
    BY NextStep
  <1> QED
    BY <1>1, Inductive, PTL DEF Spec, SecondRoundIsFree

\* The buffer implements Wrapping: its bytes are the layers around each other,
\* wherever in however many arrays they stood (SerializeLayers).
THEOREM BufferWraps == Spec => Wraps
  <1>1. Init => Bytestring!Init
    BY InitIInv DEF Bytestring!Init
  <1>2. IInv /\ [Next]_vars => [Bytestring!Next]_(Bytes(b))
    BY NextStep
  <1> QED
    BY <1>1, <1>2, Inductive, PTL DEF Spec, Wraps, Bytestring!Spec

-----------------------------------------------------------------------------
(* The Batch of rawsend.                                                   *)

Dsts == {Unused} \cup {pkt.dst : pkt \in Offered}
Packet == [bytes : Seq(Nat), dst : Dsts]

\* The slots have their sizes and types.
SlotsOK ==
    /\ pkts \in [Slots -> [1..maxPktLen -> Nat]]
    /\ pktLens \in [Slots -> 0..maxPktLen]
    /\ addrs \in [Slots -> Dsts]

\* The inductive invariant.
BInv ==
    /\ BatchTypeOK
    /\ SlotsOK
    /\ pc = "drain" => offer \in Offered
    /\ accepted \in Seq(Packet) /\ wire \in Seq(Packet)
    /\ SentInOrder

\* The messages that are queued behind the first from of them.
Queue(from, upto) == [k \in 1..(upto - from) |-> Message(from + k)]

\* A function over 1..n is a sequence.
LEMMA FunctionSeq ==
    ASSUME NEW S, NEW n \in Nat, NEW f \in [1..n -> S]
    PROVE  f \in Seq(S) /\ Len(f) = n /\ DOMAIN f = 1..n
  OBVIOUS

\* The beginning of a slot is a sequence of bytes.
LEMMA Beginning ==
    ASSUME NEW slot \in [1..maxPktLen -> Nat], NEW n \in 0..maxPktLen
    PROVE  /\ SubSeq(slot, 1, n) \in Seq(Nat) /\ Len(SubSeq(slot, 1, n)) = n
           /\ \A j \in 1..n : SubSeq(slot, 1, n)[j] = slot[j]
  <1>1. slot \in Seq(Nat) /\ Len(slot) = maxPktLen
    BY BatchAssumption, FunctionSeq
  <1> QED
    BY <1>1, BatchAssumption, SubSeqProperties

\* A message is a packet (Message).
LEMMA MessageType ==
    ASSUME SlotsOK, NEW i \in Slots
    PROVE  /\ Message(i) \in Packet /\ Len(Message(i).bytes) = pktLens[i]
           /\ Message(i).bytes = SubSeq(pkts[i], 1, pktLens[i])
           /\ Message(i).dst = addrs[i]
  <1>1. /\ pkts[i] \in [1..maxPktLen -> Nat] /\ pktLens[i] \in 0..maxPktLen
        /\ addrs[i] \in Dsts
    BY DEF SlotsOK
  <1>2. /\ SubSeq(pkts[i], 1, pktLens[i]) \in Seq(Nat)
        /\ Len(SubSeq(pkts[i], 1, pktLens[i])) = pktLens[i]
    BY <1>1, Beginning
  <1> QED
    BY <1>1, <1>2 DEF Message, Packet

\* What was copied to the front of a slot is found there (copy).
LEMMA OverlaidFront ==
    ASSUME NEW slot \in [1..maxPktLen -> Nat], NEW data \in Seq(Nat), Len(data) <= maxPktLen
    PROVE  /\ Overlaid(slot, data) \in [1..maxPktLen -> Nat]
           /\ SubSeq(Overlaid(slot, data), 1, Len(data)) = data
  <1>1. Len(data) \in 0..maxPktLen
    BY BatchAssumption
  <1>2. Overlaid(slot, data) \in [1..maxPktLen -> Nat]
    BY ElementOfSeq, BatchAssumption DEF Overlaid
  <1>3. PICK s : /\ s = SubSeq(Overlaid(slot, data), 1, Len(data))
                 /\ s \in Seq(Nat) /\ Len(s) = Len(data)
                 /\ \A j \in 1..Len(data) : s[j] = Overlaid(slot, data)[j]
    BY <1>1, <1>2, Beginning
  <1>4. \A j \in 1..Len(data) : s[j] = data[j]
    BY <1>1, <1>3, BatchAssumption DEF Overlaid
  <1> QED
    BY <1>2, <1>3, <1>4, SeqEqual

\* What Add copies fits into a slot.
LEMMA CopiedFits ==
    ASSUME NEW pkt \in Offered
    PROVE  copied(pkt.bytes) \in Seq(Nat) /\ Len(copied(pkt.bytes)) <= maxPktLen
  <1>1. pkt.bytes \in Seq(Nat) /\ maxPktLen \in Nat
    BY BatchAssumption
  <1>2. PICK n \in 0..Len(pkt.bytes) :
            n = (IF Len(pkt.bytes) < maxPktLen THEN Len(pkt.bytes) ELSE maxPktLen) /\ n <= maxPktLen
    BY <1>1
  <1>3. SubSeq(pkt.bytes, 1, n) \in Seq(Nat) /\ Len(SubSeq(pkt.bytes, 1, n)) = n
    BY <1>1, <1>2, SubSeqProperties
  <1> QED
    BY <1>2, <1>3 DEF copied

\* The queue is a sequence of packets.
LEMMA QueueType ==
    ASSUME SlotsOK, NEW from \in Nat, NEW upto \in Nat, from <= upto, upto <= batchSize
    PROVE  Queue(from, upto) \in Seq(Packet) /\ Len(Queue(from, upto)) = upto - from
  <1>1. \A k \in 1..(upto - from) : from + k \in Slots
    BY BatchAssumption DEF Slots
  <1>2. \A k \in 1..(upto - from) : Message(from + k) \in Packet
    BY <1>1, MessageType
  <1>3. upto - from \in Nat /\ Queue(from, upto) \in [1..(upto - from) -> Packet]
    BY <1>2 DEF Queue
  <1> QED
    BY <1>3, FunctionSeq

\* A sequence is the concatenation of two if it is that element by element.
LEMMA Concatenation ==
    ASSUME NEW s \in Seq(Packet), NEW t \in Seq(Packet), NEW r \in Seq(Packet),
           Len(r) = Len(s) + Len(t),
           \A i \in 1..Len(s) : r[i] = s[i],
           \A i \in 1..Len(t) : r[Len(s) + i] = t[i]
    PROVE  r = s \o t
  <1>0. PICK m, n \in Nat : Len(s) = m /\ Len(t) = n
    OBVIOUS
  <1>1. s \o t \in Seq(Packet) /\ Len(s \o t) = m + n
    BY <1>0, ConcatProperties
  <1>2. ASSUME NEW i \in 1..(m + n) PROVE r[i] = (s \o t)[i]
    <2>1. CASE i <= m
      <3>1. i \in 1..m /\ (s \o t)[i] = s[i]
        BY <1>0, <2>1, ConcatProperties
      <3> QED
        BY <1>0, <3>1
    <2>2. CASE ~(i <= m)
      <3>1. (s \o t)[i] = t[i - m]
        BY <1>0, <2>2, ConcatProperties
      <3>2. PICK j \in 1..n : i = m + j /\ j = i - m
        BY <2>2
      <3> QED
        BY <1>0, <3>1, <3>2
    <2> QED
      BY <2>1, <2>2
  <1> QED
    BY <1>0, <1>1, <1>2, SeqEqual

\* The queue splits at any place (Flush after a partial send).
LEMMA QueueSplits ==
    ASSUME SlotsOK, NEW a \in Nat, NEW m \in Nat, NEW z \in Nat,
           a <= m, m <= z, z <= batchSize
    PROVE  Queue(a, z) = Queue(a, m) \o Queue(m, z)
  <1>1. PICK r, s, t \in Seq(Packet) :
           /\ r = Queue(a, z) /\ s = Queue(a, m) /\ t = Queue(m, z)
           /\ Len(r) = z - a /\ Len(s) = m - a /\ Len(t) = z - m
    <2>1. a <= z /\ m <= batchSize
      BY BatchAssumption
    <2> QED
      BY <2>1, QueueType
  <1>2. \A i \in 1..Len(s) : r[i] = s[i]
    BY <1>1 DEF Queue
  <1>3. \A i \in 1..Len(t) : r[Len(s) + i] = t[i]
    <2> SUFFICES ASSUME NEW i \in 1..(z - m) PROVE r[(m - a) + i] = t[i]
      BY <1>1
    <2>1. (m - a) + i \in 1..(z - a) /\ a + ((m - a) + i) = m + i
      OBVIOUS
    <2> QED
      BY <1>1, <2>1 DEF Queue
  <1>4. Len(r) = Len(s) + Len(t)
    BY <1>1
  <1>5. r = s \o t
    BY <1>2, <1>3, <1>4, Concatenation, Zenon
  <1> QED
    BY <1>1, <1>5

\* The packet that Put stores stands behind the others (Add).
LEMMA PutStep ==
    ASSUME SlotsOK, NEW pkt \in Offered, NEW held \in Nat, held < batchSize, Put(pkt, held)
    PROVE  /\ SlotsOK'
           /\ \E msg \in Packet :
                 /\ accepted' = Append(accepted, msg)
                 /\ [k \in 1..(held + 1) |-> Message(k)'] = Append(Queue(0, held), msg)
  <1>1. PICK data \in Seq(Nat) : data = copied(pkt.bytes) /\ Len(data) <= maxPktLen
    BY CopiedFits
  <1>2. PICK at \in Slots : at = held + 1
    BY BatchAssumption DEF Slots
  <1>3. /\ pkts' = [pkts EXCEPT ![at] = Overlaid(pkts[at], data)]
        /\ pktLens' = [pktLens EXCEPT ![at] = Len(data)]
        /\ addrs' = [addrs EXCEPT ![at] = pkt.dst]
        /\ accepted' = Append(accepted, [bytes |-> data, dst |-> pkt.dst])
    BY <1>1, <1>2 DEF Put
  <1>4. /\ pkts \in [Slots -> [1..maxPktLen -> Nat]]
        /\ pktLens \in [Slots -> 0..maxPktLen] /\ addrs \in [Slots -> Dsts]
    BY DEF SlotsOK
  <1>5. /\ Overlaid(pkts[at], data) \in [1..maxPktLen -> Nat]
        /\ SubSeq(Overlaid(pkts[at], data), 1, Len(data)) = data
    <2>1. pkts[at] \in [1..maxPktLen -> Nat]
      BY <1>4
    <2> QED
      BY <1>1, <2>1, OverlaidFront
  <1>6. Len(data) \in 0..maxPktLen /\ pkt.dst \in Dsts
    BY <1>1, BatchAssumption DEF Dsts
  <1>7. SlotsOK'
    <2>1. pkts' \in [Slots -> [1..maxPktLen -> Nat]]
      BY <1>3, <1>4, <1>5
    <2>2. pktLens' \in [Slots -> 0..maxPktLen]
      BY <1>3, <1>4, <1>6
    <2>3. addrs' \in [Slots -> Dsts]
      BY <1>3, <1>4, <1>6
    <2> QED
      BY <2>1, <2>2, <2>3 DEF SlotsOK, Slots
  <1>8. PICK msg \in Packet : msg = [bytes |-> data, dst |-> pkt.dst]
    BY <1>6 DEF Packet
  <1>9. Message(at)' = msg
    <2>1. pkts'[at] = Overlaid(pkts[at], data) /\ pktLens'[at] = Len(data) /\ addrs'[at] = pkt.dst
      BY <1>3, <1>4
    <2> QED
      BY <1>5, <1>8, <2>1 DEF Message
  <1>10. \A k \in 1..held : Message(k)' = Message(k)
    <2> SUFFICES ASSUME NEW k \in 1..held PROVE Message(k)' = Message(k)
      OBVIOUS
    <2>1. k \in Slots /\ k # at
      BY <1>2, BatchAssumption DEF Slots
    <2>2. pkts'[k] = pkts[k] /\ pktLens'[k] = pktLens[k] /\ addrs'[k] = addrs[k]
      BY <1>3, <1>4, <2>1
    <2> QED
      BY <2>2 DEF Message
  <1>11. [k \in 1..(held + 1) |-> Message(k)'] = Append(Queue(0, held), msg)
    <2>1. PICK q \in Seq(Packet) : q = Queue(0, held) /\ Len(q) = held
      BY BatchAssumption, QueueType
    <2>2. \A k \in 1..held : q[k] = Message(k)
      BY <2>1 DEF Queue
    <2>3. PICK r : r = [k \in 1..(held + 1) |-> IF k <= held THEN q[k] ELSE msg]
      OBVIOUS
    <2>4. Append(q, msg) = r
      <3>1. /\ Append(q, msg) \in Seq(Packet) /\ Len(Append(q, msg)) = held + 1
            /\ \A k \in 1..held : Append(q, msg)[k] = q[k]
            /\ Append(q, msg)[held + 1] = msg
        BY <2>1, AppendProperties
      <3>2. r \in [1..(held + 1) -> Packet]
        BY <2>1, <2>3, ElementOfSeq
      <3>3. r \in Seq(Packet) /\ Len(r) = held + 1
        BY <3>2, FunctionSeq
      <3>4. \A k \in 1..(held + 1) : Append(q, msg)[k] = r[k]
        BY <2>3, <3>1
      <3> QED
        BY <3>1, <3>3, <3>4, SeqEqual
    <2>5. \A k \in 1..(held + 1) : Message(k)' = r[k]
      <3> SUFFICES ASSUME NEW k \in 1..(held + 1) PROVE Message(k)' = r[k]
        OBVIOUS
      <3>1. CASE k <= held
        BY <3>1, <1>10, <2>2, <2>3
      <3>2. CASE ~(k <= held)
        <4>1. k = at
          BY <3>2, <1>2
        <4> QED
          BY <3>2, <4>1, <1>9, <2>3
      <3> QED
        BY <3>1, <3>2
    <2> QED
      BY <2>1, <2>3, <2>4, <2>5
  <1> QED
    BY <1>3, <1>7, <1>8, <1>11

\* keepUnsent moves the queue to the front, message by message.
LEMMA KeepStep ==
    ASSUME SlotsOK, count \in 0..batchSize, sent \in 0..count, keepUnsent
    PROVE  /\ SlotsOK'
           /\ \A k \in 1..(count - sent) : Message(k)' = Message(sent + k)
  <1>1. PICK c, f \in Nat : c = count /\ f = sent /\ f <= c /\ c <= batchSize
    BY BatchAssumption
  <1> DEFINE moved(i) == IF i <= c - f THEN i + f ELSE i
  <1>2. \A i \in Slots : moved(i) \in Slots
    BY <1>1, BatchAssumption DEF Slots
  <1>3. /\ pkts' = [i \in Slots |-> Overlaid(pkts[i], Message(moved(i)).bytes)]
        /\ pktLens' = [i \in Slots |-> pktLens[moved(i)]]
        /\ addrs' = [i \in Slots |-> addrs[moved(i)]]
    BY <1>1 DEF keepUnsent
  <1>4. ASSUME NEW i \in Slots, NEW j \in Slots
        PROVE  /\ Overlaid(pkts[i], Message(j).bytes) \in [1..maxPktLen -> Nat]
               /\ SubSeq(Overlaid(pkts[i], Message(j).bytes), 1, pktLens[j]) = Message(j).bytes
               /\ pktLens[j] \in 0..maxPktLen /\ addrs[j] \in Dsts
    <2>1. /\ Message(j).bytes \in Seq(Nat) /\ Len(Message(j).bytes) = pktLens[j]
      BY MessageType DEF Packet
    <2>2. /\ pkts[i] \in [1..maxPktLen -> Nat] /\ pktLens[j] \in 0..maxPktLen /\ addrs[j] \in Dsts
      BY DEF SlotsOK
    <2>3. PICK data \in Seq(Nat) : data = Message(j).bytes /\ Len(data) = pktLens[j] /\ Len(data) <= maxPktLen
      BY <2>1, <2>2, BatchAssumption
    <2>4. /\ Overlaid(pkts[i], data) \in [1..maxPktLen -> Nat]
          /\ SubSeq(Overlaid(pkts[i], data), 1, Len(data)) = data
      BY <2>2, <2>3, OverlaidFront
    <2> QED
      BY <2>2, <2>3, <2>4
  <1> HIDE DEF moved
  <1>5. SlotsOK'
    <2>1. pkts' \in [Slots -> [1..maxPktLen -> Nat]]
      BY <1>2, <1>3, <1>4
    <2>2. pktLens' \in [Slots -> 0..maxPktLen] /\ addrs' \in [Slots -> Dsts]
      BY <1>2, <1>3, <1>4
    <2> QED
      BY <2>1, <2>2 DEF SlotsOK, Slots
  <1>6. ASSUME NEW k \in 1..(c - f) PROVE Message(k)' = Message(f + k)
    <2>1. PICK j \in Slots : k \in Slots /\ j = moved(k) /\ j = f + k
      <3>1. k \in Slots /\ k + f = f + k /\ k <= c - f
        BY <1>1, BatchAssumption DEF Slots
      <3>2. moved(k) = f + k
        BY <3>1 DEF moved
      <3> QED
        BY <3>1, <3>2, <1>2
    <2>2. /\ pkts'[k] = Overlaid(pkts[k], Message(j).bytes)
          /\ pktLens'[k] = pktLens[j] /\ addrs'[k] = addrs[j]
      BY <1>3, <2>1
    <2>3. Message(k)' = [bytes |-> Message(j).bytes, dst |-> addrs[j]]
      BY <1>4, <2>1, <2>2 DEF Message
    <2> QED
      BY <2>1, <2>3 DEF Message
  <1> QED
    BY <1>1, <1>5, <1>6

-----------------------------------------------------------------------------
\* The invariant holds of a new batch (NewBatch).
LEMMA BatchInitInv == BatchInit => BInv
  <1> SUFFICES ASSUME BatchInit PROVE BInv
    OBVIOUS
  <1>1. SlotsOK
    BY BatchAssumption DEF BatchInit, SlotsOK, Dsts, Unused
  <1>2. BatchTypeOK
    BY BatchAssumption DEF BatchInit, BatchTypeOK
  <1>3. [k \in 1..0 |-> Message(0 + k)] = <<>>
    OBVIOUS
  <1>4. accepted = <<>> /\ wire = <<>> /\ count - sent = 0 /\ sent = 0 /\ pc = "idle"
    BY DEF BatchInit
  <1>5. SentInOrder
    <2>1. <<>> \o <<>> = <<>>
      OBVIOUS
    <2> QED
      BY <1>3, <1>4, <2>1 DEF SentInOrder
  <1> QED
    BY <1>1, <1>2, <1>4, <1>5 DEF BInv

\* What the invariant says of the queue.
LEMMA BInvQueue ==
    ASSUME BInv
    PROVE  \E c, f \in Nat :
              /\ c = count /\ f = sent /\ f <= c /\ c <= batchSize
              /\ pc = "idle" => f = 0
              /\ pc # "idle" => f < c
              /\ accepted = wire \o Queue(f, c)
              /\ Queue(f, c) \in Seq(Packet)
  <1>1. PICK c, f \in Nat : c = count /\ f = sent /\ f <= c /\ c <= batchSize
    BY BatchAssumption DEF BInv, BatchTypeOK
  <1>2. accepted = wire \o Queue(f, c)
    BY <1>1 DEF BInv, SentInOrder, Queue
  <1>3. Queue(f, c) \in Seq(Packet)
    BY <1>1, QueueType DEF BInv
  <1> QED
    BY <1>1, <1>2, <1>3 DEF BInv, BatchTypeOK

\* A packet that is put behind a queue which has all that is not on the wire.
LEMMA PutKeeps ==
    ASSUME BInv, NEW pkt \in Offered, NEW held \in Nat, held < batchSize, Put(pkt, held),
           wire' \in Seq(Packet), accepted = wire' \o Queue(0, held)
    PROVE  BInv'
  <1>1. SlotsOK /\ accepted \in Seq(Packet)
    BY DEF BInv
  <1>2. SlotsOK'
    BY <1>1, PutStep
  <1>3. PICK msg \in Packet : /\ accepted' = Append(accepted, msg)
                 /\ [k \in 1..(held + 1) |-> Message(k)'] = Append(Queue(0, held), msg)
    BY <1>1, PutStep
  <1>4. /\ count' = held + 1 /\ sent' = 0
        /\ pc' = IF held + 1 = batchSize THEN "flush" ELSE "idle"
    BY DEF Put
  <1>5. BatchTypeOK'
    BY <1>4, BatchAssumption DEF BatchTypeOK
  <1>6. accepted' \in Seq(Packet)
    BY <1>1, <1>3, AppendProperties
  <1>7. SentInOrder'
    <2>1. PICK q \in Seq(Packet) : q = Queue(0, held)
      BY <1>1, QueueType
    <2>2. Append(wire' \o q, msg) = wire' \o Append(q, msg)
      <3>1. PICK w \in Seq(Packet) : w = wire'
        OBVIOUS
      <3>2. Append(w \o q, msg) = (w \o q) \o <<msg>> /\ Append(q, msg) = q \o <<msg>>
        BY <2>1, <3>1, ConcatProperties, AppendIsConcat
      <3>3. (w \o q) \o <<msg>> = w \o (q \o <<msg>>)
        BY <2>1, <3>1, ConcatAssociative
      <3> QED
        BY <3>1, <3>2, <3>3
    <2>3. accepted' = wire' \o [k \in 1..(held + 1) |-> Message(k)']
      BY <1>3, <2>1, <2>2
    <2> QED
      BY <2>3, <1>4 DEF SentInOrder, Message
  <1> QED
    BY <1>2, <1>4, <1>5, <1>6, <1>7 DEF BInv

\* A part of the queue goes out (sendmmsg in Flush).
LEMMA TakenStep ==
    ASSUME BInv, NEW c \in Nat, NEW f \in Nat, NEW num \in Nat, c = count, f = sent,
           f + num <= c, Taken(num)
    PROVE  /\ wire' \in Seq(Packet) /\ wire' = wire \o Queue(f, f + num)
           /\ accepted = wire' \o Queue(f + num, c)
  <1>1. /\ SlotsOK /\ wire \in Seq(Packet) /\ c <= batchSize
        /\ f <= f + num /\ f + num \in Nat /\ f + num <= batchSize
    BY BatchAssumption DEF BInv, BatchTypeOK
  <1>2. PICK s, t \in Seq(Packet) : s = Queue(f, f + num) /\ t = Queue(f + num, c)
    BY <1>1, QueueType
  <1>3. wire' = wire \o s
    <2>1. Queue(f, f + num) = [k \in 1..num |-> Message(f + k)]
      BY DEF Queue
    <2> QED
      BY <1>2, <2>1 DEF Taken
  <1>4. Queue(f, c) = s \o t
    BY <1>1, <1>2, QueueSplits
  <1>5. accepted = wire \o (s \o t)
    BY <1>4, BInvQueue
  <1>6. wire \o (s \o t) = (wire \o s) \o t
    BY <1>1, ConcatAssociative
  <1> QED
    BY <1>1, <1>2, <1>3, <1>5, <1>6, ConcatProperties

\* Every step of a batch keeps the invariant.
LEMMA BatchInductive == BInv /\ [BatchNext]_batchVars => BInv'
  <1> SUFFICES ASSUME BInv, [BatchNext]_batchVars PROVE BInv'
    OBVIOUS
  <1>0. PICK c, f \in Nat :
              /\ c = count /\ f = sent /\ f <= c /\ c <= batchSize
              /\ pc = "idle" => f = 0
              /\ pc # "idle" => f < c
              /\ accepted = wire \o Queue(f, c)
              /\ Queue(f, c) \in Seq(Packet)
    BY BInvQueue
  <1>t. /\ SlotsOK /\ BatchTypeOK /\ wire \in Seq(Packet) /\ accepted \in Seq(Packet)
        /\ pc = "drain" => offer \in Offered
    BY DEF BInv
  <1>1. ASSUME NEW pkt \in Offered, Add(pkt) PROVE BInv'
    <2>1. pc = "idle" /\ f = 0
      BY <1>0, <1>1 DEF Add
    <2>2. CASE count < batchSize
      <3>1. Put(pkt, c) /\ wire' = wire
        BY <1>0, <1>1, <2>2, BatchAssumption DEF Add
      <3>2. c < batchSize /\ wire' \in Seq(Packet) /\ accepted = wire' \o Queue(0, c)
        BY <1>0, <1>t, <2>1, <2>2, <3>1
      <3> QED
        BY <3>1, <3>2, PutKeeps
    <2>3. CASE ~(count < batchSize)
      <3>1. /\ pc' = "drain" /\ offer' = pkt /\ sent' = 0
            /\ UNCHANGED <<pkts, pktLens, addrs, count, accepted, wire>>
        BY <1>1, <2>3, <1>0 DEF Add
      <3>2. BatchTypeOK'
        BY <1>0, <2>3, <3>1, BatchAssumption DEF BatchTypeOK
      <3>3. SentInOrder'
        BY <1>0, <2>1, <3>1 DEF BInv, SentInOrder, Message
      <3>4. SlotsOK'
        BY <1>t, <3>1 DEF SlotsOK, Slots
      <3> QED
        BY <1>t, <3>1, <3>2, <3>3, <3>4 DEF BInv
    <2> QED
      BY <2>2, <2>3
  <1>2. CASE Flush
    <2>1. /\ pc = "idle" /\ count > 0 /\ pc' = "flush" /\ sent' = 0 /\ f = 0
          /\ UNCHANGED <<pkts, pktLens, addrs, count, accepted, wire>>
      BY <1>0, <1>2 DEF Flush
    <2>2. BatchTypeOK'
      BY <1>0, <2>1, BatchAssumption DEF BatchTypeOK
    <2>3. SentInOrder'
      BY <1>0, <2>1 DEF BInv, SentInOrder, Message
    <2>4. SlotsOK'
      BY <1>t, <2>1 DEF SlotsOK, Slots
    <2> QED
      BY <1>t, <2>1, <2>2, <2>3, <2>4 DEF BInv
  <1>3. ASSUME NEW num \in Slots, SendSome(num) PROVE BInv'
    <2>1. /\ pc # "idle" /\ num < c - f /\ Taken(num) /\ sent' = f + num
          /\ UNCHANGED <<pkts, pktLens, addrs, count, pc, offer, accepted>>
      BY <1>0, <1>3 DEF SendSome
    <2>2. num \in Nat /\ f + num <= c /\ f + num < c
      BY <2>1, <1>0, BatchAssumption DEF Slots
    <2>3. wire' \in Seq(Packet) /\ accepted = wire' \o Queue(f + num, c)
      BY <1>0, <2>1, <2>2, TakenStep
    <2>4. BatchTypeOK'
      BY <1>0, <1>t, <2>1, <2>2, BatchAssumption DEF BatchTypeOK
    <2>5. SentInOrder'
      <3>1. PICK g \in Nat : g = f + num /\ sent' = g /\ count' = c
        BY <1>0, <2>1, <2>2
      <3>2. \A k \in 1..(c - g) : Message(g + k)' = Message(g + k)
        BY <2>1 DEF Message
      <3>3. accepted' = wire' \o [k \in 1..(c - g) |-> Message(g + k)']
        BY <2>1, <2>3, <3>1, <3>2 DEF Queue
      <3> QED
        BY <3>1, <3>3 DEF SentInOrder, Message
    <2>6. SlotsOK'
      BY <1>t, <2>1 DEF SlotsOK, Slots
    <2> QED
      BY <1>t, <2>1, <2>3, <2>4, <2>5, <2>6 DEF BInv
  <1>4. CASE SendRest
    <2>1. PICK num \in Nat : num = c - f /\ f + num = c
      BY <1>0
    <2>2. Taken(num) /\ pc # "idle"
      BY <1>0, <1>4, <2>1 DEF SendRest
    <2>3. Queue(c, c) = <<>>
      BY DEF Queue
    <2>4. wire' \in Seq(Packet) /\ accepted = wire' \o <<>> /\ accepted = wire'
      <3>1. f + num <= c
        BY <2>1, <1>0
      <3>2. wire' \in Seq(Packet) /\ accepted = wire' \o Queue(f + num, c)
        BY <1>0, <2>2, <3>1, TakenStep
      <3> QED
        BY <2>1, <2>3, <3>2, ConcatEmptySeq
    <2>5. CASE pc = "drain"
      <3>1. Put(offer, 0) /\ offer \in Offered
        BY <1>4, <1>t, <2>5 DEF SendRest
      <3>2. PICK pkt \in Offered : Put(pkt, 0)
        BY <3>1
      <3>3. Queue(0, 0) = <<>> /\ 0 < batchSize
        BY BatchAssumption DEF Queue
      <3> QED
        BY <2>4, <3>2, <3>3, PutKeeps
    <2>6. CASE pc = "flush"
      <3>1. /\ pc' = "idle" /\ count' = 0 /\ sent' = 0
            /\ UNCHANGED <<pkts, pktLens, addrs, offer, accepted>>
        BY <1>4, <2>6 DEF SendRest
      <3>2. BatchTypeOK'
        BY <3>1, BatchAssumption DEF BatchTypeOK
      <3>3. SentInOrder'
        <4>1. [k \in 1..(count - sent) |-> Message(sent + k)]' = <<>>
          BY <3>1
        <4> QED
          BY <2>4, <3>1, <4>1 DEF SentInOrder, Message
      <3>4. SlotsOK'
        BY <1>t, <3>1 DEF SlotsOK, Slots
      <3> QED
        BY <1>t, <2>4, <3>1, <3>2, <3>3, <3>4 DEF BInv
    <2> QED
      BY <2>2, <2>5, <2>6, <1>t DEF BatchTypeOK
  <1>5. CASE SendFails
    <2>1. /\ keepUnsent /\ pc' = "idle" /\ sent' = 0 /\ count' = c - f
          /\ UNCHANGED <<accepted, wire>>
      BY <1>0, <1>5 DEF SendFails, keepUnsent
    <2>2. count \in 0..batchSize /\ sent \in 0..count
      BY <1>t DEF BatchTypeOK
    <2>3. SlotsOK' /\ \A k \in 1..(c - f) : Message(k)' = Message(f + k)
      BY <1>0, <1>t, <2>1, <2>2, KeepStep
    <2>4. BatchTypeOK'
      BY <1>0, <2>1, BatchAssumption DEF BatchTypeOK
    <2>5. SentInOrder'
      <3>1. Queue(f, c) = [k \in 1..(c - f) |-> Message(k)']
        BY <2>3 DEF Queue
      <3>2. accepted' = wire' \o [k \in 1..(c - f) |-> Message(k)']
        BY <1>0, <2>1, <3>1
      <3> QED
        BY <1>0, <2>1, <3>2 DEF SentInOrder, Message
    <2> QED
      BY <1>t, <2>1, <2>3, <2>4, <2>5 DEF BInv
  <1>6. CASE UNCHANGED batchVars
    BY <1>6 DEF batchVars, BInv, BatchTypeOK, SlotsOK, SentInOrder, Message, Slots
  <1> QED
    BY <1>1, <1>2, <1>3, <1>4, <1>5, <1>6 DEF BatchNext

\* A Batch of any size sends every packet that Add accepted once, whole, to its
\* own address and in order, whatever sendmmsg takes or refuses.
THEOREM SendsInOrder == BatchSpec => []SentInOrder
  <1>1. BInv => SentInOrder
    BY DEF BInv
  <1> QED
    BY <1>1, BatchInitInv, BatchInductive, PTL DEF BatchSpec

\* A Batch of any size touches none but its own slots.
THEOREM StaysInSlots == BatchSpec => []BatchTypeOK
  <1>1. BInv => BatchTypeOK
    BY DEF BInv
  <1> QED
    BY <1>1, BatchInitInv, BatchInductive, PTL DEF BatchSpec
=============================================================================
