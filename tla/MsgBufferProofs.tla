---------------------------- MODULE MsgBufferProofs ----------------------------
(***************************************************************************)
(* Theorems about MsgBuffer, for any byte values, any chunks and any sizes.*)
(* Each operation is a function from buffer to buffer; one lemma for each  *)
(* says that it keeps the offsets within the vector and what it does to    *)
(* the readable bytes, and one that it keeps the memory within a bound.    *)
(***************************************************************************)
EXTENDS MsgBuffer, SequenceTheorems, TLAPS

-----------------------------------------------------------------------------
(* The invariant of one buffer.  Besides the offsets, the vector is never  *)
(* shorter than kBufferOffset, nor is the length it may be shrunk to:      *)
(* without that RetrieveAll would put the offsets beyond its end.          *)

Buffer == [head_ : Nat, tail_ : Nat, initCap_ : Nat, buffer_ : Seq(Bytes)]

Sound(m) ==
  /\ m \in Buffer
  /\ m.head_ <= m.tail_ /\ m.tail_ <= Size(m)
  /\ BufferOffset <= m.initCap_ /\ BufferOffset <= Size(m)

\* What the constructor is given is a length.
LEMMA SizeTypes ==
  /\ BufferOffset \in Nat /\ InitCap \in Nat /\ ExtBuffer \in Nat /\ MaxReadable \in Nat
  /\ InitCap >= BufferOffset
BY SizesAssumption

\* The larger one of two numbers.
LEMMA MaxOfTwo ==
  ASSUME NEW a \in Int, NEW b \in Int
  PROVE  Max({a, b}) \in {a, b} /\ Max({a, b}) >= a /\ Max({a, b}) >= b
<1>1. \E x \in {a, b} : \A y \in {a, b} : x >= y
  <2>1. CASE a >= b
    BY <2>1
  <2>2. CASE ~ (a >= b)
    BY <2>2
  <2> QED
    BY <2>1, <2>2
<1> QED
  BY <1>1 DEF Max

\* The fields of a sound buffer are numbers and a vector.
LEMMA Fields ==
  ASSUME NEW m, Sound(m)
  PROVE  /\ m.head_ \in Nat /\ m.tail_ \in Nat /\ m.initCap_ \in Nat /\ Size(m) \in Nat
         /\ m.buffer_ \in Seq(Bytes)
         /\ \A i \in 1 .. Size(m) : m.buffer_[i] \in Bytes
         /\ ReadableBytes(m) \in Nat /\ WritableBytes(m) \in Nat
         /\ ReadableBytes(m) = m.tail_ - m.head_ /\ WritableBytes(m) = Size(m) - m.tail_
<1>1. m \in Buffer /\ m.head_ <= m.tail_ /\ m.tail_ <= Size(m)
  BY DEF Sound
<1>2. m.head_ \in Nat /\ m.tail_ \in Nat /\ m.initCap_ \in Nat /\ m.buffer_ \in Seq(Bytes)
  BY <1>1 DEF Buffer
<1>3. Size(m) \in Nat /\ \A i \in 1 .. Size(m) : m.buffer_[i] \in Bytes
  BY <1>2, LenProperties, ElementOfSeq DEF Size
<1> QED
  BY <1>1, <1>2, <1>3 DEF ReadableBytes, WritableBytes

\* The readable bytes, one by one.
LEMMA ReadableType ==
  ASSUME NEW m, Sound(m)
  PROVE  /\ Readable(m) \in Seq(Bytes)
         /\ Len(Readable(m)) = ReadableBytes(m)
         /\ \A i \in 1 .. ReadableBytes(m) : Readable(m)[i] = m.buffer_[m.head_ + i]
<1> DEFINE h == m.head_  t == m.tail_  b == m.buffer_
<1>1. /\ h \in Nat /\ t \in Nat /\ h <= t /\ t <= Size(m) /\ Size(m) \in Nat
      /\ \A i \in 1 .. Size(m) : b[i] \in Bytes
      /\ ReadableBytes(m) = t - h
  BY Fields DEF Sound
<1> HIDE DEF h, t, b
<1>2. \A i \in h + 1 .. t : b[i] \in Bytes
  BY <1>1
<1>3. /\ SubSeq(b, h + 1, t) \in Seq(Bytes)
      /\ Len(SubSeq(b, h + 1, t)) = IF h + 1 <= t THEN t - (h + 1) + 1 ELSE 0
      /\ \A i \in 1 .. t - (h + 1) + 1 : SubSeq(b, h + 1, t)[i] = b[h + 1 + i - 1]
  <2>1. h + 1 \in Int /\ t \in Int
    BY <1>1
  <2> QED
    BY <1>2, <2>1, SubSeqProperties
<1>4. Readable(m) = SubSeq(b, h + 1, t)
  BY DEF Readable, h, t, b
<1>5. Len(SubSeq(b, h + 1, t)) = t - h
  BY <1>1, <1>3
<1>6. \A i \in 1 .. t - h : SubSeq(b, h + 1, t)[i] = b[h + i]
  BY <1>1, <1>3
<1> QED
  BY <1>1, <1>3, <1>4, <1>5, <1>6 DEF h, t, b

\* A sequence that has the bytes between the offsets is what is readable.
LEMMA ReadableIs ==
  ASSUME NEW m, Sound(m), NEW s \in Seq(Bytes), Len(s) = ReadableBytes(m),
         \A i \in 1 .. ReadableBytes(m) : s[i] = m.buffer_[m.head_ + i]
  PROVE  Readable(m) = s
BY ReadableType, SeqEqual

\* memcpy changes the bytes it copies and no other, nor the length of the vector.
LEMMA MemcpyType ==
  ASSUME NEW v \in Seq(Bytes), NEW to \in Nat, NEW s \in Seq(Bytes)
  PROVE  /\ Memcpy(v, to, s) \in Seq(Bytes)
         /\ Len(Memcpy(v, to, s)) = Len(v)
         /\ \A i \in 1 .. Len(v) :
              Memcpy(v, to, s)[i] = IF i \in to + 1 .. to + Len(s) THEN s[i - to] ELSE v[i]
<1>1. Len(v) \in Nat /\ Len(s) \in Nat
  BY LenProperties
<1> DEFINE w == [i \in 1 .. Len(v) |-> IF i \in to + 1 .. to + Len(s) THEN s[i - to] ELSE v[i]]
<1>2. \A i \in 1 .. Len(v) : w[i] \in Bytes
  <2> SUFFICES ASSUME NEW i \in 1 .. Len(v) PROVE w[i] \in Bytes
    OBVIOUS
  <2>1. CASE i \in to + 1 .. to + Len(s)
    <3>1. i - to \in 1 .. Len(s)
      BY <1>1, <2>1
    <3> QED
      BY <2>1, <3>1, ElementOfSeq
  <2>2. CASE i \notin to + 1 .. to + Len(s)
    BY <2>2, ElementOfSeq
  <2> QED
    BY <2>1, <2>2
<1>3. w \in [1 .. Len(v) -> Bytes]
  BY <1>2
<1>4. w \in Seq(Bytes)
  BY <1>1, <1>3, SeqDef
<1>5. Len(w) = Len(v)
  <2>1. DOMAIN w = 1 .. Len(w) /\ Len(w) \in Nat
    BY <1>4, LenProperties
  <2> QED
    BY <1>1, <2>1
<1>6. Memcpy(v, to, s) = w
  BY DEF Memcpy
<1> HIDE DEF w
<1>7. \A i \in 1 .. Len(v) :
        w[i] = IF i \in to + 1 .. to + Len(s) THEN s[i - to] ELSE v[i]
  BY DEF w
<1> QED
  BY <1>4, <1>5, <1>6, <1>7

\* A byte that memcpy copies.
LEMMA CopiedByte ==
  ASSUME NEW v \in Seq(Bytes), NEW to \in Nat, NEW s \in Seq(Bytes), NEW j \in 1 .. Len(v),
         j \in to + 1 .. to + Len(s)
  PROVE  Memcpy(v, to, s)[j] = s[j - to]
BY MemcpyType

\* A byte that it does not copy.
LEMMA NotCopiedByte ==
  ASSUME NEW v \in Seq(Bytes), NEW to \in Nat, NEW s \in Seq(Bytes), NEW j \in 1 .. Len(v),
         j \notin to + 1 .. to + Len(s)
  PROVE  Memcpy(v, to, s)[j] = v[j]
BY MemcpyType

-----------------------------------------------------------------------------
(* The operators from which the operations are built.                      *)

\* A new buffer is empty and has the room it is given.
LEMMA NewSound ==
  ASSUME NEW len \in Nat, len >= BufferOffset
  PROVE  /\ Sound(New(len))
         /\ Readable(New(len)) = <<>> /\ ReadableBytes(New(len)) = 0
         /\ WritableBytes(New(len)) = len /\ Size(New(len)) = len + BufferOffset
         /\ New(len).head_ = BufferOffset /\ New(len).initCap_ = len
<1> DEFINE v == [i \in 1 .. len + BufferOffset |-> Zero]
<1>1. v \in Seq(Bytes) /\ Len(v) = len + BufferOffset
  <2>1. len + BufferOffset \in Nat
    BY SizeTypes
  <2>2. v \in [1 .. len + BufferOffset -> Bytes]
    BY BytesAssumption
  <2>3. v \in Seq(Bytes)
    BY <2>1, <2>2, SeqDef
  <2>4. DOMAIN v = 1 .. Len(v) /\ Len(v) \in Nat
    BY <2>3, LenProperties
  <2> QED
    BY <2>1, <2>3, <2>4
<1>2. New(len) = [head_ |-> BufferOffset, tail_ |-> BufferOffset, initCap_ |-> len, buffer_ |-> v]
  BY DEF New
<1> HIDE DEF v
<1>3. /\ New(len) \in Buffer /\ Size(New(len)) = len + BufferOffset
      /\ New(len).head_ = BufferOffset /\ New(len).tail_ = BufferOffset
      /\ New(len).initCap_ = len
  BY <1>1, <1>2, SizeTypes DEF Buffer, Size
<1>4. Sound(New(len)) /\ ReadableBytes(New(len)) = 0 /\ WritableBytes(New(len)) = len
  BY <1>3, SizeTypes DEF Sound, ReadableBytes, WritableBytes
<1>5. Readable(New(len)) = <<>>
  <2>1. Readable(New(len)) \in Seq(Bytes) /\ Len(Readable(New(len))) = 0
    BY <1>4, ReadableType
  <2> QED
    BY <2>1, EmptySeq
<1> QED
  BY <1>3, <1>4, <1>5

\* Bytes that fit in the empty part are added to the readable ones.
LEMMA WrittenSound ==
  ASSUME NEW m, Sound(m), NEW s \in Seq(Bytes), Len(s) <= WritableBytes(m)
  PROVE  /\ Sound(Written(m, s))
         /\ Readable(Written(m, s)) = Readable(m) \o s
         /\ WritableBytes(Written(m, s)) = WritableBytes(m) - Len(s)
         /\ ReadableBytes(Written(m, s)) = ReadableBytes(m) + Len(s)
<1> DEFINE w == Written(m, s)
<1>1. Len(s) \in Nat
  BY LenProperties
<1>2. /\ m.head_ \in Nat /\ m.tail_ \in Nat /\ m.initCap_ \in Nat /\ Size(m) \in Nat
      /\ m.buffer_ \in Seq(Bytes) /\ m \in Buffer
      /\ ReadableBytes(m) = m.tail_ - m.head_ /\ WritableBytes(m) = Size(m) - m.tail_
      /\ m.head_ <= m.tail_ /\ m.tail_ <= Size(m)
      /\ BufferOffset <= m.initCap_ /\ BufferOffset <= Size(m)
  BY Fields DEF Sound
<1>3. /\ w \in Buffer /\ w.head_ = m.head_ /\ w.tail_ = m.tail_ + Len(s)
      /\ w.initCap_ = m.initCap_ /\ w.buffer_ = Memcpy(m.buffer_, m.tail_, s)
  <2>1. Memcpy(m.buffer_, m.tail_, s) \in Seq(Bytes)
    BY <1>2, MemcpyType
  <2> QED
    BY <1>1, <1>2, <2>1 DEF Written, With, Buffer
<1>4. Size(w) = Size(m)
  BY <1>2, <1>3, MemcpyType DEF Size
<1>5. Sound(w)
  BY <1>1, <1>2, <1>3, <1>4 DEF Sound
<1>6. ReadableBytes(w) = ReadableBytes(m) + Len(s) /\ WritableBytes(w) = WritableBytes(m) - Len(s)
  BY <1>1, <1>2, <1>3, <1>4 DEF ReadableBytes, WritableBytes
<1> DEFINE t == Readable(m) \o s
<1>7. /\ t \in Seq(Bytes) /\ Len(t) = ReadableBytes(m) + Len(s)
      /\ \A i \in 1 .. ReadableBytes(m) + Len(s) :
           t[i] = IF i <= ReadableBytes(m) THEN Readable(m)[i] ELSE s[i - ReadableBytes(m)]
  BY ReadableType, ConcatProperties
<1> HIDE DEF t, w
<1>8. ASSUME NEW i \in 1 .. ReadableBytes(w)
      PROVE  t[i] = w.buffer_[w.head_ + i]
  <2>1. m.head_ + i \in 1 .. Len(m.buffer_)
    BY <1>1, <1>2, <1>6, <1>8 DEF Size
  <2>2. m.buffer_ \in Seq(Bytes) /\ m.tail_ \in Nat
    BY <1>2
  <2>3. CASE i <= ReadableBytes(m)
    <3>1. m.head_ + i \notin m.tail_ + 1 .. m.tail_ + Len(s) /\ i \in 1 .. ReadableBytes(m)
      BY <1>1, <1>2, <1>8, <1>6, <2>3
    <3>2. Memcpy(m.buffer_, m.tail_, s)[m.head_ + i] = m.buffer_[m.head_ + i]
      BY <2>1, <2>2, <3>1, NotCopiedByte
    <3> QED
      BY <1>3, <1>6, <1>7, <1>8, <2>3, <3>1, <3>2, ReadableType
  <2>4. CASE ~ (i <= ReadableBytes(m))
    <3>1. m.head_ + i \in m.tail_ + 1 .. m.tail_ + Len(s)
          /\ (m.head_ + i) - m.tail_ = i - ReadableBytes(m)
      BY <1>1, <1>2, <1>8, <1>6, <2>4
    <3>2. Memcpy(m.buffer_, m.tail_, s)[m.head_ + i] = s[(m.head_ + i) - m.tail_]
      BY <2>1, <2>2, <3>1, CopiedByte
    <3> QED
      BY <1>3, <1>6, <1>7, <1>8, <2>4, <3>1, <3>2
  <2> QED
    BY <2>3, <2>4
<1>9. Readable(w) = t
  BY <1>5, <1>6, <1>7, <1>8, ReadableIs
<1> QED
  BY <1>5, <1>6, <1>9 DEF w, t

\* A sound buffer with another vector and other offsets is sound when these fit.
LEMMA WithSound ==
  ASSUME NEW m, Sound(m), NEW v \in Seq(Bytes), NEW h \in Nat, NEW t \in Nat,
         h <= t, t <= Len(v), BufferOffset <= Len(v)
  PROVE  /\ Sound(With(m, v, h, t))
         /\ ReadableBytes(With(m, v, h, t)) = t - h
         /\ WritableBytes(With(m, v, h, t)) = Len(v) - t
         /\ With(m, v, h, t).buffer_ = v /\ With(m, v, h, t).head_ = h
<1> DEFINE w == With(m, v, h, t)
<1>1. m.initCap_ \in Nat /\ BufferOffset <= m.initCap_
  BY Fields DEF Sound
<1>2. /\ w \in Buffer /\ w.head_ = h /\ w.tail_ = t /\ w.buffer_ = v
      /\ w.initCap_ = m.initCap_ /\ Size(w) = Len(v)
  BY <1>1 DEF With, Buffer, Size
<1> HIDE DEF w
<1>3. Sound(w) /\ ReadableBytes(w) = t - h /\ WritableBytes(w) = Len(v) - t
  BY <1>1, <1>2 DEF Sound, ReadableBytes, WritableBytes
<1> QED
  BY <1>2, <1>3 DEF w

\* A copy of the readable bytes to where they fit.
LEMMA CopyType ==
  ASSUME NEW m, Sound(m), NEW to \in Nat, to + ReadableBytes(m) <= Size(m)
  PROVE  /\ Copy(m, to) \in Seq(Bytes) /\ Len(Copy(m, to)) = Size(m)
         /\ \A i \in 1 .. ReadableBytes(m) : Copy(m, to)[to + i] = Readable(m)[i]
<1>1. /\ m.buffer_ \in Seq(Bytes) /\ Readable(m) \in Seq(Bytes)
      /\ Len(Readable(m)) = ReadableBytes(m) /\ ReadableBytes(m) \in Nat
      /\ Size(m) \in Nat /\ Size(m) = Len(m.buffer_)
  BY Fields, ReadableType DEF Size
<1>2. Copy(m, to) = Memcpy(m.buffer_, to, Readable(m))
  BY DEF Copy
<1>3. ASSUME NEW i \in 1 .. ReadableBytes(m) PROVE Copy(m, to)[to + i] = Readable(m)[i]
  <2>1. to + i \in 1 .. Len(m.buffer_) /\ to + i \in to + 1 .. to + Len(Readable(m))
    BY <1>1, <1>3
  <2>2. Memcpy(m.buffer_, to, Readable(m))[to + i] = Readable(m)[(to + i) - to]
    BY <1>1, <2>1, CopiedByte
  <2> QED
    BY <1>2, <1>3, <2>2
<1> QED
  BY <1>1, <1>2, <1>3, MemcpyType

\* EnsureWritableBytes makes the room that it is asked for and keeps what is readable.
LEMMA EnsureSound ==
  ASSUME NEW m, Sound(m), NEW len \in Nat
  PROVE  /\ Sound(EnsureWritableBytes(m, len))
         /\ Readable(EnsureWritableBytes(m, len)) = Readable(m)
         /\ WritableBytes(EnsureWritableBytes(m, len)) >= len
<1> DEFINE w == EnsureWritableBytes(m, len)
<1>1. /\ m.head_ \in Nat /\ m.tail_ \in Nat /\ Size(m) \in Nat
      /\ ReadableBytes(m) \in Nat /\ WritableBytes(m) \in Nat
      /\ ReadableBytes(m) = m.tail_ - m.head_ /\ WritableBytes(m) = Size(m) - m.tail_
      /\ BufferOffset \in Nat /\ BufferOffset <= Size(m)
  BY Fields, SizeTypes DEF Sound
<1>2. /\ Readable(m) \in Seq(Bytes) /\ Len(Readable(m)) = ReadableBytes(m)
  BY ReadableType
<1>3. CASE WritableBytes(m) >= len
  <2>1. w = m
    BY <1>3 DEF EnsureWritableBytes
  <2> QED
    BY <1>3, <2>1
<1>4. CASE WritableBytes(m) < len /\ m.head_ + WritableBytes(m) >= len + BufferOffset
  <2> DEFINE v == Copy(m, BufferOffset)
  <2>1. w = With(m, v, BufferOffset, BufferOffset + ReadableBytes(m))
    BY <1>1, <1>4 DEF EnsureWritableBytes
  <2>2. BufferOffset + ReadableBytes(m) + len <= Size(m)
    BY <1>1, <1>4
  <2>3. /\ v \in Seq(Bytes) /\ Len(v) = Size(m)
        /\ \A i \in 1 .. ReadableBytes(m) : v[BufferOffset + i] = Readable(m)[i]
    BY <1>1, <2>2, CopyType
  <2> HIDE DEF v
  <2>4. /\ Sound(w) /\ ReadableBytes(w) = ReadableBytes(m)
        /\ WritableBytes(w) = Size(m) - (BufferOffset + ReadableBytes(m))
        /\ w.buffer_ = v /\ w.head_ = BufferOffset
    <3> DEFINE t == BufferOffset + ReadableBytes(m)
    <3>1. /\ t \in Nat /\ BufferOffset <= t /\ t <= Len(v) /\ t - BufferOffset = ReadableBytes(m)
          /\ v \in Seq(Bytes) /\ BufferOffset \in Nat /\ BufferOffset <= Len(v)
      BY <1>1, <2>2, <2>3
    <3> HIDE DEF t, w
    <3>2. w = With(m, v, BufferOffset, t)
      BY <2>1 DEF t
    <3>3. /\ Sound(w) /\ ReadableBytes(w) = t - BufferOffset /\ WritableBytes(w) = Len(v) - t
          /\ w.buffer_ = v /\ w.head_ = BufferOffset
      BY <3>1, <3>2, WithSound
    <3> QED
      BY <2>3, <3>1, <3>3 DEF t
  <2> HIDE DEF w
  <2>5. Readable(w) = Readable(m)
    BY <1>2, <2>3, <2>4, ReadableIs
  <2>6. WritableBytes(w) >= len
    BY <1>1, <2>2, <2>4
  <2> QED
    BY <2>4, <2>5, <2>6 DEF w
<1>5. CASE WritableBytes(m) < len /\ ~ (m.head_ + WritableBytes(m) >= len + BufferOffset)
  <2> DEFINE n == Max({Size(m) * 2, BufferOffset + ReadableBytes(m) + len})
  <2>1. w = Written(New(n), Readable(m))
    BY <1>1, <1>5 DEF EnsureWritableBytes
  <2>2. n \in Nat /\ n >= BufferOffset + ReadableBytes(m) + len
    <3> DEFINE a == Size(m) * 2  b == BufferOffset + ReadableBytes(m) + len
    <3>1. a \in Nat /\ b \in Nat
      BY <1>1
    <3> HIDE DEF a, b
    <3>2. Max({a, b}) \in {a, b} /\ Max({a, b}) >= b
      BY <3>1, MaxOfTwo
    <3> QED
      BY <3>1, <3>2 DEF a, b
  <2> HIDE DEF n
  <2>3. n >= BufferOffset /\ ReadableBytes(m) <= n
    BY <1>1, <2>2
  <2>4. Sound(New(n)) /\ Readable(New(n)) = <<>> /\ WritableBytes(New(n)) = n
    BY <2>2, <2>3, NewSound
  <2>5. /\ Sound(w) /\ Readable(w) = <<>> \o Readable(m)
        /\ WritableBytes(w) = n - ReadableBytes(m)
    BY <1>2, <2>1, <2>3, <2>4, WrittenSound
  <2>6. Readable(w) = Readable(m)
    BY <1>2, <2>5, ConcatEmptySeq
  <2> HIDE DEF w
  <2>7. WritableBytes(w) >= len
    BY <1>1, <2>2, <2>5
  <2> QED
    BY <2>5, <2>6, <2>7 DEF w
<1> QED
  BY <1>1, <1>3, <1>4, <1>5

\* Append adds bytes at the end, whatever has to be moved for them.
LEMMA AppendSound ==
  ASSUME NEW m, Sound(m), NEW s \in Seq(Bytes)
  PROVE  /\ Sound(AppendBytes(m, s))
         /\ Readable(AppendBytes(m, s)) = Readable(m) \o s
<1> DEFINE e == EnsureWritableBytes(m, Len(s))
<1>1. Len(s) \in Nat
  BY LenProperties
<1>2. Sound(e) /\ Readable(e) = Readable(m) /\ WritableBytes(e) >= Len(s)
  BY <1>1, EnsureSound
<1>3. AppendBytes(m, s) = Written(e, s)
  BY DEF AppendBytes
<1> HIDE DEF e
<1>4. WritableBytes(e) \in Nat
  BY <1>2, Fields
<1>5. Len(s) <= WritableBytes(e)
  BY <1>1, <1>2, <1>4
<1>6. Sound(Written(e, s)) /\ Readable(Written(e, s)) = Readable(e) \o s
  BY <1>2, <1>5, WrittenSound
<1> QED
  BY <1>2, <1>3, <1>6

\* AddInFront adds bytes before those that are readable: into the room before them, by
\* moving them, or in a new vector.
LEMMA FrontSound ==
  ASSUME NEW m, Sound(m), NEW s \in Seq(Bytes)
  PROVE  /\ Sound(PutInFront(m, s))
         /\ Readable(PutInFront(m, s)) = s \o Readable(m)
<1> DEFINE w == PutInFront(m, s)  r == ReadableBytes(m)  k == Len(s)  u == s \o Readable(m)
<1>1. /\ m.head_ \in Nat /\ m.tail_ \in Nat /\ Size(m) \in Nat /\ r \in Nat
      /\ r = m.tail_ - m.head_ /\ WritableBytes(m) = Size(m) - m.tail_
      /\ BufferOffset \in Nat /\ BufferOffset <= Size(m) /\ m.tail_ <= Size(m)
      /\ BufferOffset <= m.initCap_ /\ m.initCap_ \in Nat
      /\ m.buffer_ \in Seq(Bytes) /\ Len(m.buffer_) = Size(m) /\ k \in Nat
  BY Fields, SizeTypes, LenProperties DEF Sound, Size
<1>2. /\ Readable(m) \in Seq(Bytes) /\ Len(Readable(m)) = r
      /\ \A i \in 1 .. r : Readable(m)[i] = m.buffer_[m.head_ + i]
  BY ReadableType
<1>3. /\ u \in Seq(Bytes) /\ Len(u) = k + r
      /\ \A i \in 1 .. k + r : u[i] = IF i <= k THEN s[i] ELSE Readable(m)[i - k]
  <2>1. /\ u \in Seq(Bytes) /\ Len(u) = Len(s) + Len(Readable(m))
        /\ \A i \in 1 .. Len(s) + Len(Readable(m)) :
             u[i] = IF i <= Len(s) THEN s[i] ELSE Readable(m)[i - Len(s)]
    BY <1>2, ConcatProperties
  <2> QED
    BY <1>2, <2>1
<1> HIDE DEF r, k, u
<1>4. CASE m.head_ >= k
  <2> DEFINE h == m.head_ - k  v == Memcpy(m.buffer_, h, s)  t == m.tail_
  <2>1. w = With(m, v, h, t)
    BY <1>4 DEF PutInFront, k
  <2>2. h \in Nat /\ t \in Nat /\ h <= t /\ t - h = k + r /\ t <= Size(m) /\ m.head_ = h + k
    <3> DEFINE a == m.head_
    <3>1. /\ a \in Nat /\ t \in Nat /\ k \in Nat /\ r \in Nat /\ k <= a /\ r = t - a
          /\ t <= Size(m) /\ h = a - k
      BY <1>1, <1>4
    <3> HIDE DEF a, t, h
    <3>2. h \in Nat /\ h <= t /\ t - h = k + r /\ a = h + k
      BY <3>1
    <3> QED
      BY <3>1, <3>2 DEF a
  <2> HIDE DEF h, t
  <2>3. v \in Seq(Bytes) /\ Len(v) = Size(m)
    BY <1>1, <2>2, MemcpyType
  <2> HIDE DEF v
  <2>4. ASSUME NEW i \in 1 .. k + r PROVE u[i] = v[h + i]
    <3>1. h + i \in 1 .. Len(m.buffer_) /\ k = Len(s)
      BY <1>1, <2>2, <2>4 DEF k
    <3>2. CASE i <= k
      <4>1. h + i \in h + 1 .. h + Len(s) /\ (h + i) - h = i
        BY <1>1, <2>2, <2>4, <3>1, <3>2
      <4>2. v[h + i] = s[(h + i) - h]
        BY <1>1, <2>2, <3>1, <4>1, CopiedByte DEF v
      <4>3. u[i] = s[i]
        BY <1>3, <2>4, <3>2
      <4> QED
        BY <4>1, <4>2, <4>3
    <3>3. CASE ~ (i <= k)
      <4>1. /\ h + i \notin h + 1 .. h + Len(s) /\ i - k \in 1 .. r
            /\ m.head_ + (i - k) = h + i
        BY <1>1, <2>2, <2>4, <3>1, <3>3
      <4>2. v[h + i] = m.buffer_[h + i]
        BY <1>1, <2>2, <3>1, <4>1, NotCopiedByte DEF v
      <4>3. Readable(m)[i - k] = m.buffer_[m.head_ + (i - k)]
        BY <1>2, <4>1
      <4>4. u[i] = Readable(m)[i - k]
        BY <1>3, <2>4, <3>3
      <4> QED
        BY <4>1, <4>2, <4>3, <4>4
    <3> QED
      BY <3>2, <3>3
  <2> HIDE DEF w
  <2>5. t <= Len(v) /\ BufferOffset <= Len(v)
    BY <1>1, <2>2, <2>3
  <2>6. Sound(w) /\ ReadableBytes(w) = t - h /\ w.buffer_ = v /\ w.head_ = h
    BY <2>1, <2>2, <2>3, <2>5, WithSound
  <2>7. Readable(w) = u
    BY <1>3, <2>2, <2>4, <2>6, ReadableIs
  <2> QED
    BY <2>6, <2>7 DEF w, u
<1>5. CASE ~ (m.head_ >= k) /\ k <= WritableBytes(m)
  <2> DEFINE h == m.head_  to == h + k  c == Copy(m, to)  v == Memcpy(c, h, s)  t == m.tail_ + k
  <2>1. w = With(m, v, h, t)
    BY <1>5 DEF PutInFront, k
  <2>2. /\ h \in Nat /\ to \in Nat /\ t \in Nat /\ to + r <= Size(m) /\ to = h + k
        /\ h <= t /\ t - h = k + r /\ t <= Size(m)
    BY <1>1, <1>5
  <2> HIDE DEF h, to, t
  <2>3. c \in Seq(Bytes) /\ Len(c) = Size(m) /\ \A i \in 1 .. r : c[to + i] = Readable(m)[i]
    BY <2>2, CopyType DEF r
  <2> HIDE DEF c
  <2>4. v \in Seq(Bytes) /\ Len(v) = Size(m)
    BY <2>2, <2>3, MemcpyType
  <2> HIDE DEF v
  <2>5. ASSUME NEW i \in 1 .. k + r PROVE u[i] = v[h + i]
    <3>1. h + i \in 1 .. Len(c) /\ k = Len(s)
      BY <1>1, <2>2, <2>3, <2>5 DEF k
    <3>2. CASE i <= k
      <4>1. h + i \in h + 1 .. h + Len(s) /\ (h + i) - h = i
        BY <1>1, <2>2, <2>5, <3>1, <3>2
      <4>2. v[h + i] = s[(h + i) - h]
        BY <2>2, <2>3, <3>1, <4>1, CopiedByte DEF v
      <4>3. u[i] = s[i]
        BY <1>3, <2>5, <3>2
      <4> QED
        BY <4>1, <4>2, <4>3
    <3>3. CASE ~ (i <= k)
      <4>1. /\ h + i \notin h + 1 .. h + Len(s) /\ i - k \in 1 .. r
            /\ to + (i - k) = h + i
        <5>1. h \in Nat /\ k \in Nat /\ r \in Nat /\ i \in Nat /\ k < i /\ i <= k + r
          BY <1>1, <2>2, <2>5, <3>3
        <5>2. h + i \notin h + 1 .. h + k /\ i - k \in 1 .. r /\ (h + k) + (i - k) = h + i
          BY <5>1
        <5> QED
          BY <2>2, <3>1, <5>2
      <4>2. v[h + i] = c[h + i]
        BY <2>2, <2>3, <3>1, <4>1, NotCopiedByte DEF v
      <4>3. c[to + (i - k)] = Readable(m)[i - k]
        BY <2>3, <4>1
      <4>4. u[i] = Readable(m)[i - k]
        BY <1>3, <2>5, <3>3
      <4> QED
        BY <4>1, <4>2, <4>3, <4>4
    <3> QED
      BY <3>2, <3>3
  <2> HIDE DEF w
  <2>6. t <= Len(v) /\ BufferOffset <= Len(v)
    BY <1>1, <2>2, <2>4
  <2>7. Sound(w) /\ ReadableBytes(w) = t - h /\ w.buffer_ = v /\ w.head_ = h
    BY <2>1, <2>2, <2>4, <2>6, WithSound
  <2>8. Readable(w) = u
    BY <1>3, <2>2, <2>5, <2>7, ReadableIs
  <2> QED
    BY <2>7, <2>8 DEF w, u
<1>6. CASE ~ (m.head_ >= k) /\ ~ (k <= WritableBytes(m))
  <2> DEFINE a == m.initCap_  b == k + r  n == Max({a, b})  f == AppendBytes(New(n), s)
  <2>1. w = AppendBytes(f, Readable(m))
    BY <1>6 DEF PutInFront, k, r
  <2>2. a \in Nat /\ b \in Nat /\ BufferOffset <= a /\ BufferOffset \in Nat
    BY <1>1
  <2> HIDE DEF a, b
  <2>3. n \in {a, b} /\ n >= a
    <3>1. a \in Int /\ b \in Int
      BY <2>2
    <3> QED
      BY <3>1, MaxOfTwo
  <2> HIDE DEF n
  <2>4. n \in Nat /\ n >= BufferOffset
    BY <2>2, <2>3
  <2>5. Sound(New(n)) /\ Readable(New(n)) = <<>>
    BY <2>4, NewSound
  <2>6. Sound(f) /\ Readable(f) = <<>> \o s
    BY <2>5, AppendSound
  <2>7. Readable(f) = s
    BY <2>6, ConcatEmptySeq
  <2> HIDE DEF f
  <2>8. Sound(w) /\ Readable(w) = Readable(f) \o Readable(m)
    BY <1>2, <2>1, <2>6, AppendSound
  <2> QED
    BY <2>7, <2>8 DEF w, u
<1> QED
  BY <1>1, <1>4, <1>5, <1>6 DEF w, u

\* RetrieveAll leaves an empty buffer, the vector shrunk or not.
LEMMA EmptiedSound ==
  ASSUME NEW m, Sound(m)
  PROVE  Sound(Emptied(m)) /\ Readable(Emptied(m)) = <<>>
<1> DEFINE v == IF Size(m) > m.initCap_ * 2 THEN SubSeq(m.buffer_, 1, m.initCap_) ELSE m.buffer_
<1>1. /\ Size(m) \in Nat /\ m.initCap_ \in Nat /\ m.buffer_ \in Seq(Bytes)
      /\ Len(m.buffer_) = Size(m) /\ BufferOffset \in Nat
      /\ BufferOffset <= Size(m) /\ BufferOffset <= m.initCap_
      /\ \A i \in 1 .. Size(m) : m.buffer_[i] \in Bytes
  BY Fields, SizeTypes DEF Sound, Size
<1>2. v \in Seq(Bytes) /\ BufferOffset <= Len(v)
  <2>1. CASE Size(m) > m.initCap_ * 2
    <3> DEFINE b == m.buffer_  c == m.initCap_
    <3>1. c \in Nat /\ BufferOffset <= c /\ \A i \in 1 .. c : b[i] \in Bytes
      BY <1>1, <2>1
    <3>2. SubSeq(b, 1, c) \in Seq(Bytes) /\ Len(SubSeq(b, 1, c)) = IF 1 <= c THEN c - 1 + 1 ELSE 0
      <4> HIDE DEF b, c
      <4> QED
        BY <3>1, SubSeqProperties
    <3> QED
      BY <1>1, <2>1, <3>1, <3>2
  <2>2. CASE ~ (Size(m) > m.initCap_ * 2)
    BY <1>1, <2>2
  <2> QED
    BY <2>1, <2>2
<1>3. Emptied(m) = With(m, v, BufferOffset, BufferOffset)
  BY DEF Emptied
<1> HIDE DEF v
<1>4. Sound(Emptied(m)) /\ ReadableBytes(Emptied(m)) = 0
  BY <1>1, <1>2, <1>3, WithSound
<1>5. Readable(Emptied(m)) \in Seq(Bytes) /\ Len(Readable(Emptied(m))) = 0
  BY <1>4, ReadableType
<1> QED
  BY <1>4, <1>5, EmptySeq

\* Unwrite takes bytes back from the end.
LEMMA UnwriteSound ==
  ASSUME NEW m, Sound(m), NEW offset \in 1 .. ReadableBytes(m)
  PROVE  LET w == With(m, m.buffer_, m.head_, m.tail_ - offset)
         IN /\ Sound(w)
            /\ Readable(w) = SubSeq(Readable(m), 1, Len(Readable(m)) - offset)
<1> DEFINE h == m.head_  t == m.tail_ - offset  v == m.buffer_  w == With(m, v, h, t)
           q == Readable(m)  n == Len(q) - offset
<1>1. /\ h \in Nat /\ t \in Nat /\ h <= t /\ t <= Len(v) /\ BufferOffset <= Len(v)
      /\ v \in Seq(Bytes) /\ n \in Nat /\ t - h = n
      /\ q \in Seq(Bytes) /\ Len(q) \in Nat /\ n <= Len(q)
      /\ \A i \in 1 .. Len(q) : q[i] = v[h + i]
  <2> DEFINE e == m.tail_  r == ReadableBytes(m)  z == Len(v)
  <2>1. /\ h \in Nat /\ e \in Nat /\ z \in Nat /\ h <= e /\ e <= z /\ BufferOffset <= z
        /\ v \in Seq(Bytes) /\ r = e - h /\ r \in Nat
    BY Fields DEF Sound, Size
  <2>2. q \in Seq(Bytes) /\ Len(q) = r /\ \A i \in 1 .. r : q[i] = v[h + i]
    BY ReadableType
  <2>3. offset \in 1 .. r
    OBVIOUS
  <2> HIDE DEF e, r, z, h, v, q
  <2>4. e - offset \in Nat /\ h <= e - offset /\ e - offset <= z
        /\ (e - offset) - h = r - offset /\ r - offset \in Nat /\ r - offset <= r
    BY <2>1, <2>3
  <2> QED
    BY <2>1, <2>2, <2>4 DEF e, z
<1> HIDE DEF h, t, v, n, q
<1>2. Sound(w) /\ ReadableBytes(w) = t - h /\ w.buffer_ = v /\ w.head_ = h
  BY <1>1, WithSound
<1> HIDE DEF w
<1>3. \A i \in 1 .. n : q[i] \in Bytes
  BY <1>1, ElementOfSeq
<1>4. SubSeq(q, 1, n) \in Seq(Bytes) /\ Len(SubSeq(q, 1, n)) = n
      /\ \A i \in 1 .. n : SubSeq(q, 1, n)[i] = q[i]
  <2>1. /\ SubSeq(q, 1, n) \in Seq(Bytes)
        /\ Len(SubSeq(q, 1, n)) = IF 1 <= n THEN n - 1 + 1 ELSE 0
        /\ \A i \in 1 .. n - 1 + 1 : SubSeq(q, 1, n)[i] = q[1 + i - 1]
    BY <1>1, <1>3, SubSeqProperties
  <2> QED
    BY <1>1, <2>1
<1>5. \A i \in 1 .. n : SubSeq(q, 1, n)[i] = w.buffer_[w.head_ + i]
  BY <1>1, <1>2, <1>4
<1>6. Readable(w) = SubSeq(q, 1, n)
  BY <1>1, <1>2, <1>4, <1>5, ReadableIs
<1> QED
  BY <1>2, <1>6 DEF w, h, t, v, q, n

\* Retrieve takes bytes from the front.
LEMMA RetrieveSound ==
  ASSUME NEW m, Sound(m), NEW len \in 1 .. ReadableBytes(m)
  PROVE  LET w == IF len >= ReadableBytes(m) THEN Emptied(m)
                  ELSE With(m, m.buffer_, m.head_ + len, m.tail_)
         IN /\ Sound(w)
            /\ Readable(w) = SubSeq(Readable(m), len + 1, Len(Readable(m)))
<1> DEFINE q == Readable(m)  z == Len(q)
<1>1. q \in Seq(Bytes) /\ z = ReadableBytes(m) /\ z \in Nat /\ len \in 1 .. z
  BY ReadableType, Fields
<1>2. CASE len >= ReadableBytes(m)
  <2>1. Sound(Emptied(m)) /\ Readable(Emptied(m)) = <<>>
    BY EmptiedSound
  <2>2. SubSeq(q, len + 1, z) = <<>>
    <3>1. len + 1 > z /\ len + 1 \in Int /\ z \in Int
      BY <1>1, <1>2
    <3> HIDE DEF z, q
    <3> QED
      BY <3>1, SubSeqEmpty
  <2> QED
    BY <1>2, <2>1, <2>2
<1>3. CASE ~ (len >= ReadableBytes(m))
  <2> DEFINE h == m.head_ + len  t == m.tail_  v == m.buffer_  w == With(m, v, h, t)
  <2>1. /\ h \in Nat /\ t \in Nat /\ h <= t /\ t <= Len(v) /\ BufferOffset <= Len(v)
        /\ v \in Seq(Bytes) /\ t - h = z - len
        /\ \A i \in 1 .. z : q[i] = v[(h - len) + i]
    <3> DEFINE e == m.head_  r == ReadableBytes(m)  y == Len(v)
    <3>1. /\ e \in Nat /\ t \in Nat /\ y \in Nat /\ e <= t /\ t <= y /\ BufferOffset <= y
          /\ v \in Seq(Bytes) /\ r = t - e /\ r \in Nat
      BY Fields DEF Sound, Size
    <3>2. q \in Seq(Bytes) /\ Len(q) = r /\ \A i \in 1 .. r : q[i] = v[e + i]
      BY ReadableType
    <3>3. len \in 1 .. r
      OBVIOUS
    <3> HIDE DEF e, r, y, t, v, q
    <3>4. e + len \in Nat /\ e + len <= t /\ t - (e + len) = r - len /\ (e + len) - len = e
      BY <3>1, <3>3
    <3> QED
      BY <3>1, <3>2, <3>4 DEF e, y
  <2> HIDE DEF h, t, v, z, q
  <2>2. Sound(w) /\ ReadableBytes(w) = t - h /\ w.buffer_ = v /\ w.head_ = h
    BY <2>1, WithSound
  <2> HIDE DEF w
  <2> DEFINE p == SubSeq(q, len + 1, z)
  <2>3. /\ p \in Seq(Bytes) /\ Len(p) = z - len
        /\ \A i \in 1 .. z - len : p[i] = q[len + i]
    <3>1. \A i \in len + 1 .. z : q[i] \in Bytes
      BY <1>1, ElementOfSeq DEF z
    <3>2. /\ SubSeq(q, len + 1, z) \in Seq(Bytes)
          /\ Len(SubSeq(q, len + 1, z)) = IF len + 1 <= z THEN z - (len + 1) + 1 ELSE 0
          /\ \A i \in 1 .. z - (len + 1) + 1 :
               SubSeq(q, len + 1, z)[i] = q[len + 1 + i - 1]
      <4>1. len + 1 \in Int /\ z \in Int
        BY <1>1
      <4> QED
        BY <3>1, <4>1, SubSeqProperties
    <3> QED
      BY <1>1, <3>2
  <2> HIDE DEF p
  <2>4. ASSUME NEW i \in 1 .. ReadableBytes(w) PROVE p[i] = w.buffer_[w.head_ + i]
    <3>1. i \in 1 .. z - len /\ len + i \in 1 .. z /\ (h - len) + (len + i) = h + i
      BY <1>1, <2>1, <2>2, <2>4
    <3> QED
      BY <2>1, <2>2, <2>3, <3>1
  <2>5. Readable(w) = p
    BY <2>1, <2>2, <2>3, <2>4, ReadableIs
  <2> QED
    BY <1>3, <2>2, <2>5 DEF w, p, h, t, v, q, z
<1> QED
  BY <1>2, <1>3

\* ReadFd adds what was read, in one part or in two.
LEMMA ReadSound ==
  ASSUME NEW m, Sound(m), NEW s \in Seq(Bytes)
  PROVE  LET writable == WritableBytes(m)
             w == IF Len(s) <= writable THEN Written(m, s)
                  ELSE AppendBytes(Written(m, SubSeq(s, 1, writable)),
                                   SubSeq(s, writable + 1, Len(s)))
         IN Sound(w) /\ Readable(w) = Readable(m) \o s
<1> DEFINE n == WritableBytes(m)  s1 == SubSeq(s, 1, n)  s2 == SubSeq(s, n + 1, Len(s))
<1>1. CASE Len(s) <= n
  BY <1>1, WrittenSound
<1>2. CASE ~ (Len(s) <= n)
  <2> DEFINE f == Written(m, s1)
  <2>1. n \in Nat /\ Len(s) \in Nat /\ n \in 0 .. Len(s) /\ Len(s) \in n .. Len(s)
        /\ Len(s) > n
    BY <1>2, Fields, LenProperties
  <2>2. /\ s1 \in Seq(Bytes) /\ Len(s1) = n /\ s2 \in Seq(Bytes) /\ s1 \o s2 = s
    <3> DEFINE a == n
    <3> HIDE DEF a
    <3> DEFINE z == Len(s)  p1 == SubSeq(s, 1, a)  p2 == SubSeq(s, a + 1, z)
    <3>1. a \in Nat /\ z \in Nat /\ a < z /\ \A i \in 1 .. z : s[i] \in Bytes
      BY <2>1, ElementOfSeq DEF a
    <3> HIDE DEF z
    <3>2. p1 \in Seq(Bytes) /\ Len(p1) = a
      <4>1. a \in Int /\ 1 \in Int /\ \A i \in 1 .. a : s[i] \in Bytes
        BY <3>1
      <4>2. p1 \in Seq(Bytes) /\ Len(p1) = IF 1 <= a THEN a - 1 + 1 ELSE 0
        BY <4>1, SubSeqProperties
      <4> QED
        BY <3>1, <4>2
    <3>3. p2 \in Seq(Bytes)
      <4>1. a + 1 \in Int /\ z \in Int /\ \A i \in a + 1 .. z : s[i] \in Bytes
        BY <3>1
      <4> QED
        BY <4>1, SubSeqProperties
    <3>4. p1 \o p2 = s
      <4>1. 1 \in 1 .. Len(s) + 1 /\ a \in 1 - 1 .. Len(s) /\ z \in a .. Len(s)
        BY <3>1 DEF z
      <4>2. p1 \o p2 = SubSeq(s, 1, z)
        BY <4>1, ConcatAdjacentSubSeq
      <4> QED
        BY <4>2, SubSeqFull DEF z
    <3> QED
      BY <3>2, <3>3, <3>4 DEF a, z
  <2> HIDE DEF s1, s2
  <2>3. Len(s1) <= n
    BY <2>1, <2>2
  <2>4. Sound(f) /\ Readable(f) = Readable(m) \o s1
    BY <2>2, <2>3, WrittenSound
  <2> HIDE DEF f
  <2>5. Sound(AppendBytes(f, s2)) /\ Readable(AppendBytes(f, s2)) = Readable(f) \o s2
    BY <2>2, <2>4, AppendSound
  <2>6. Readable(m) \in Seq(Bytes)
    BY ReadableType
  <2>7. (Readable(m) \o s1) \o s2 = Readable(m) \o (s1 \o s2)
    <3> DEFINE q == Readable(m)
    <3>1. q \in Seq(Bytes) /\ s1 \in Seq(Bytes) /\ s2 \in Seq(Bytes)
      BY <2>2, <2>6
    <3> HIDE DEF q
    <3>2. (q \o s1) \o s2 = q \o (s1 \o s2)
      BY <3>1, ConcatAssociative
    <3> QED
      BY <3>2 DEF q
  <2> QED
    BY <1>2, <2>2, <2>4, <2>5, <2>7 DEF f, s1, s2
<1> QED
  BY <1>1, <1>2

-----------------------------------------------------------------------------
(* The buffers.  A step gives one buffer another value, of which Outcome   *)
(* says what it may be, or exchanges the values of two.                    *)

BufInv == buf \in [Buffers -> Buffer] /\ \A b \in Buffers : Sound(buf[b])

Outcome(b, w) ==
  LET q == Readable(buf[b])
  IN /\ Sound(w)
     /\ \/ \E s \in Chunks : Readable(w) = q \o s \/ Readable(w) = s \o q
        \/ \E c \in Buffers : Readable(w) = q \o Readable(buf[c])
        \/ \E n \in 0 .. Len(q) :
             Readable(w) = SubSeq(q, n + 1, Len(q)) \/ Readable(w) = SubSeq(q, 1, Len(q) - n)
        \/ Readable(w) = q

Becomes(b, w) == buf' = [buf EXCEPT ![b] = w]

\* Every operation has such an outcome.
LEMMA Outcomes ==
  ASSUME BufInv, Next
  PROVE  \E b \in Buffers : \/ \E w : Outcome(b, w) /\ Becomes(b, w)
                            \/ \E c \in Buffers : Swap(b, c)
<1>1. PICK b \in Buffers :
        \/ AppendData(b) \/ AddInFront(b) \/ HasWritten(b) \/ Unwrite(b)
        \/ Retrieve(b) \/ RetrieveAll(b) \/ ReadFd(b) \/ EnsureWritable(b)
        \/ \E c \in Buffers : AppendBuffer(b, c) \/ Swap(b, c)
  BY DEF Next
<1> DEFINE m == buf[b]  q == Readable(m)
<1>2. Sound(m) /\ buf[b] = m /\ \A s \in Chunks : s \in Seq(Bytes)
  BY BytesAssumption DEF BufInv
<1>3. q \in Seq(Bytes) /\ Len(q) = ReadableBytes(m) /\ Len(q) \in Nat
  BY <1>2, ReadableType, LenProperties
<1> HIDE DEF m, q
<1>4. CASE AppendData(b)
  <2>1. PICK s \in Chunks : Becomes(b, AppendBytes(m, s))
    BY <1>4 DEF AppendData, Becomes, m
  <2>2. Sound(AppendBytes(m, s)) /\ Readable(AppendBytes(m, s)) = q \o s
    BY <1>2, AppendSound DEF q
  <2> QED
    BY <1>2, <2>1, <2>2 DEF Outcome, q
<1>5. CASE AddInFront(b)
  <2>1. PICK s \in Chunks : Becomes(b, PutInFront(m, s))
    BY <1>5 DEF AddInFront, Becomes, m
  <2>2. Sound(PutInFront(m, s)) /\ Readable(PutInFront(m, s)) = s \o q
    BY <1>2, FrontSound DEF q
  <2> QED
    BY <1>2, <2>1, <2>2 DEF Outcome, q
<1>6. CASE HasWritten(b)
  <2>1. PICK s \in Chunks : Len(s) <= WritableBytes(m) /\ Becomes(b, Written(m, s))
    BY <1>6 DEF HasWritten, Becomes, m
  <2>2. Sound(Written(m, s)) /\ Readable(Written(m, s)) = q \o s
    BY <1>2, <2>1, WrittenSound DEF q
  <2> QED
    BY <1>2, <2>1, <2>2 DEF Outcome, q
<1>7. CASE Unwrite(b)
  <2> DEFINE w(o) == With(m, m.buffer_, m.head_, m.tail_ - o)
  <2>1. PICK offset \in 1 .. ReadableBytes(m) : Becomes(b, w(offset))
    BY <1>7 DEF Unwrite, Becomes, m
  <2>2. Sound(w(offset)) /\ Readable(w(offset)) = SubSeq(q, 1, Len(q) - offset)
    BY <1>2, UnwriteSound DEF q
  <2>3. offset \in 0 .. Len(q)
    BY <1>3
  <2> HIDE DEF w
  <2> QED
    BY <1>2, <2>1, <2>2, <2>3 DEF Outcome, q
<1>8. CASE Retrieve(b)
  <2> DEFINE w(n) == IF n >= ReadableBytes(m) THEN Emptied(m)
                     ELSE With(m, m.buffer_, m.head_ + n, m.tail_)
  <2>1. PICK len \in 1 .. ReadableBytes(m) : Becomes(b, w(len))
    BY <1>8 DEF Retrieve, Becomes, m
  <2>2. Sound(w(len)) /\ Readable(w(len)) = SubSeq(q, len + 1, Len(q))
    BY <1>2, RetrieveSound DEF q
  <2>3. len \in 0 .. Len(q)
    BY <1>3
  <2> HIDE DEF w
  <2> QED
    BY <1>2, <2>1, <2>2, <2>3 DEF Outcome, q
<1>9. CASE RetrieveAll(b)
  <2>1. Becomes(b, Emptied(m))
    BY <1>9 DEF RetrieveAll, Becomes, m
  <2>2. Sound(Emptied(m)) /\ Readable(Emptied(m)) = <<>>
    BY <1>2, EmptiedSound
  <2>3. SubSeq(q, Len(q) + 1, Len(q)) = <<>> /\ Len(q) \in 0 .. Len(q)
    BY <1>3, SubSeqEmpty
  <2> QED
    BY <1>2, <2>1, <2>2, <2>3 DEF Outcome, q
<1>10. CASE ReadFd(b)
  <2> DEFINE w(s) == IF Len(s) <= WritableBytes(m) THEN Written(m, s)
                     ELSE AppendBytes(Written(m, SubSeq(s, 1, WritableBytes(m))),
                                      SubSeq(s, WritableBytes(m) + 1, Len(s)))
  <2>1. PICK s \in Chunks : Becomes(b, w(s))
    BY <1>10 DEF ReadFd, Becomes, m
  <2>2. Sound(w(s)) /\ Readable(w(s)) = q \o s
    BY <1>2, ReadSound DEF q
  <2> HIDE DEF w
  <2> QED
    BY <1>2, <2>1, <2>2 DEF Outcome, q
<1>11. CASE EnsureWritable(b)
  <2>1. PICK len \in 1 .. MaxReadable : Becomes(b, EnsureWritableBytes(m, len))
    BY <1>11 DEF EnsureWritable, Becomes, m
  <2>2. len \in Nat
    BY SizeTypes
  <2>3. Sound(EnsureWritableBytes(m, len)) /\ Readable(EnsureWritableBytes(m, len)) = q
    BY <1>2, <2>2, EnsureSound DEF q
  <2> QED
    BY <1>2, <2>1, <2>3 DEF Outcome, q
<1>12. ASSUME NEW c \in Buffers, AppendBuffer(b, c)
       PROVE  \E w : Outcome(b, w) /\ Becomes(b, w)
  <2> DEFINE s == Readable(buf[c])
  <2>1. Becomes(b, AppendBytes(m, s))
    BY <1>12 DEF AppendBuffer, Becomes, m
  <2>2. s \in Seq(Bytes)
    BY ReadableType DEF BufInv
  <2>3. Sound(AppendBytes(m, s)) /\ Readable(AppendBytes(m, s)) = q \o s
    BY <1>2, <2>2, AppendSound DEF q
  <2> QED
    BY <1>2, <2>1, <2>3 DEF Outcome, q
<1> QED
  BY <1>1, <1>4, <1>5, <1>6, <1>7, <1>8, <1>9, <1>10, <1>11, <1>12

-----------------------------------------------------------------------------
(* The theorems.                                                           *)

\* Every step keeps every buffer sound.
LEMMA BuffersStep ==
  ASSUME BufInv, [Next]_buf
  PROVE  BufInv'
<1>1. CASE UNCHANGED buf
  BY <1>1 DEF BufInv
<1>2. CASE Next
  <2>1. PICK b \in Buffers : \/ \E w : Outcome(b, w) /\ Becomes(b, w)
                             \/ \E c \in Buffers : Swap(b, c)
    BY <1>2, Outcomes
  <2>2. ASSUME NEW w, Outcome(b, w), Becomes(b, w) PROVE BufInv'
    <3>1. Sound(w) /\ w \in Buffer
      BY <2>2 DEF Outcome, Sound
    <3>2. buf' = [buf EXCEPT ![b] = w]
      BY <2>2 DEF Becomes
    <3> QED
      BY <3>1, <3>2 DEF BufInv
  <2>3. ASSUME NEW c \in Buffers, Swap(b, c) PROVE BufInv'
    BY <2>3 DEF Swap, BufInv
  <2> QED
    BY <2>1, <2>2, <2>3
<1> QED
  BY <1>1, <1>2

\* All buffers are sound at all times.
THEOREM BuffersSound == Spec => []BufInv
<1>1. Init => BufInv
  <2>1. Sound(New(InitCap)) /\ New(InitCap) \in Buffer
    BY SizeTypes, NewSound DEF Sound
  <2> QED
    BY <2>1 DEF Init, BufInv
<1>2. BufInv /\ [Next]_buf => BufInv'
  BY BuffersStep
<1> QED
  BY <1>1, <1>2, PTL DEF Spec

\* The vector and the offsets of every buffer have their types.
THEOREM BufferTypeCorrect == Spec => []TypeOK
<1>1. BufInv => TypeOK
  BY DEF BufInv, TypeOK, Buffer
<1> QED
  BY <1>1, BuffersSound, PTL

\* The offsets never leave the vector nor pass each other, so no size computed from
\* them wraps around.
THEOREM OffsetsWithinVector == Spec => []WithinVector
<1>1. BufInv => WithinVector
  BY DEF BufInv, WithinVector, Sound
<1> QED
  BY <1>1, BuffersSound, PTL

\* EnsureWritableBytes gives the room asked for in any reachable state, and loses no
\* readable byte when it moves them.
THEOREM RoomIsMade == Spec => []EnsureMakesRoom
<1>1. BufInv => EnsureMakesRoom
  <2> SUFFICES ASSUME BufInv, NEW b \in Buffers, NEW len \in 0 .. MaxReadable
               PROVE  /\ WritableBytes(EnsureWritableBytes(buf[b], len)) >= len
                      /\ Readable(EnsureWritableBytes(buf[b], len)) = Readable(buf[b])
    BY DEF EnsureMakesRoom
  <2>1. Sound(buf[b]) /\ len \in Nat
    BY SizeTypes DEF BufInv
  <2> QED
    BY <2>1, EnsureSound
<1> QED
  BY <1>1, BuffersSound, PTL

\* What is readable in each buffer.
Contents == [b \in Buffers |-> Readable(buf[b])]

\* A step that changes one buffer changes what is readable in that one only.
LEMMA ContentsStep ==
  ASSUME BufInv, NEW b \in Buffers, NEW w, Becomes(b, w)
  PROVE  Contents' = [Contents EXCEPT ![b] = Readable(w)]
BY DEF BufInv, Becomes, Contents

\* A step of MsgBuffer adds bytes to a queue, takes some, exchanges two queues, or
\* leaves all as they are.
LEMMA BufferStep ==
  ASSUME BufInv, [Next]_buf
  PROVE  [Queue!Next]_Contents
<1>1. CASE UNCHANGED buf
  BY <1>1 DEF Contents
<1>2. CASE Next
  <2>1. PICK b \in Buffers : \/ \E w : Outcome(b, w) /\ Becomes(b, w)
                             \/ \E c \in Buffers : Swap(b, c)
    BY <1>2, Outcomes
  <2>2. ASSUME NEW w, Outcome(b, w), Becomes(b, w) PROVE [Queue!Next]_Contents
    <3> DEFINE q == Readable(buf[b])  p == Readable(w)
    <3>1. Contents' = [Contents EXCEPT ![b] = p]
      BY <2>2, ContentsStep
    <3>2. Contents[b] = q /\ \A c \in Buffers : Contents[c] = Readable(buf[c])
      BY DEF Contents
    <3>3. \/ \E s \in Chunks : p = q \o s \/ p = s \o q
          \/ \E c \in Buffers : p = q \o Readable(buf[c])
          \/ \E n \in 0 .. Len(q) : p = SubSeq(q, n + 1, Len(q)) \/ p = SubSeq(q, 1, Len(q) - n)
          \/ p = q
      BY <2>2 DEF Outcome
    <3> HIDE DEF q, p
    <3>4. CASE \E s \in Chunks : p = q \o s \/ p = s \o q
      <4>1. \E s \in Chunks : Queue!Add(b, s) \/ Queue!AddFront(b, s)
        BY <3>1, <3>2, <3>4 DEF Queue!Add, Queue!AddFront, Contents
      <4> QED
        BY <4>1 DEF Queue!Next
    <3>5. CASE \E c \in Buffers : p = q \o Readable(buf[c])
      <4>1. \E c \in Buffers : Queue!Add(b, Contents[c])
        BY <3>1, <3>2, <3>5 DEF Queue!Add, Contents
      <4> QED
        BY <4>1 DEF Queue!Next, Contents
    <3>6. CASE \E n \in 0 .. Len(q) : p = SubSeq(q, n + 1, Len(q)) \/ p = SubSeq(q, 1, Len(q) - n)
      <4>1. \E n \in 0 .. Len(Contents[b]) : Queue!Take(b, n) \/ Queue!TakeBack(b, n)
        BY <3>1, <3>2, <3>6 DEF Queue!Take, Queue!TakeBack, Contents
      <4> QED
        BY <4>1 DEF Queue!Next, Contents
    <3>7. CASE p = q
      BY <3>1, <3>2, <3>7 DEF Contents
    <3> QED
      BY <3>3, <3>4, <3>5, <3>6, <3>7
  <2>3. ASSUME NEW c \in Buffers, Swap(b, c) PROVE [Queue!Next]_Contents
    <3>1. Queue!Swap(b, c)
      BY <2>3 DEF Swap, BufInv, Queue!Swap
    <3> QED
      BY <3>1 DEF Queue!Next
  <2> QED
    BY <2>1, <2>2, <2>3
<1> QED
  BY <1>1, <1>2

\* A buffer is a queue of bytes, whatever is moved, reallocated, read in two parts or
\* put into the room before the readable bytes.
THEOREM BufferRefinement == Spec => ImplementsQueue
<1>1. Init => Queue!Init
  <2>1. Readable(New(InitCap)) = <<>>
    BY SizeTypes, NewSound
  <2> QED
    BY <2>1 DEF Init, Queue!Init
<1>2. BufInv /\ [Next]_buf => [Queue!Next]_Contents
  BY BufferStep
<1> QED
  BY <1>1, <1>2, BuffersSound, PTL DEF Spec, ImplementsQueue, Queue!Spec, Contents

-----------------------------------------------------------------------------
(* The memory a buffer may take.  A vector is replaced by a larger one only*)
(* when the bytes fill more than half of what the larger one may be.       *)

Largest == Max({InitCap, 2 * (MaxReadable + BufferOffset)})

Bounded(m) ==
  /\ ReadableBytes(m) <= MaxReadable
  /\ m.initCap_ <= Largest /\ Size(m) <= Largest + BufferOffset

\* What is below the largest length.
LEMMA LargestType ==
  /\ Largest \in Nat /\ InitCap <= Largest /\ MaxReadable <= Largest
  /\ 2 * (MaxReadable + BufferOffset) <= Largest
<1> DEFINE a == InitCap  b == 2 * (MaxReadable + BufferOffset)
<1>1. a \in Nat /\ b \in Nat /\ MaxReadable \in Nat /\ MaxReadable <= b
  BY SizeTypes
<1> HIDE DEF a, b
<1>2. Max({a, b}) \in {a, b} /\ Max({a, b}) >= a /\ Max({a, b}) >= b
  <2>1. a \in Int /\ b \in Int
    BY <1>1
  <2> QED
    BY <2>1, MaxOfTwo
<1>3. Largest = Max({a, b})
  BY DEF Largest, a, b
<1> HIDE DEF Largest
<1>4. Largest \in Nat /\ a <= Largest /\ b <= Largest /\ MaxReadable <= Largest
  BY <1>1, <1>2, <1>3
<1> QED
  BY <1>4 DEF a, b

\* A new buffer is bounded when its length is.
LEMMA NewBounded ==
  ASSUME NEW len \in Nat, len >= BufferOffset, len <= Largest
  PROVE  Bounded(New(len))
<1>1. ReadableBytes(New(len)) = 0 /\ Size(New(len)) = len + BufferOffset /\ New(len).initCap_ = len
  BY NewSound
<1> QED
  BY <1>1, SizeTypes, LargestType DEF Bounded

\* Another vector within the bound, and offsets within it.
LEMMA WithBounded ==
  ASSUME NEW m, Sound(m), Bounded(m), NEW v \in Seq(Bytes), NEW h \in Nat, NEW t \in Nat,
         h <= t, t <= Len(v), BufferOffset <= Len(v),
         t - h <= MaxReadable, Len(v) <= Largest + BufferOffset
  PROVE  Bounded(With(m, v, h, t))
<1>1. ReadableBytes(With(m, v, h, t)) = t - h
  BY WithSound
<1>2. With(m, v, h, t).initCap_ = m.initCap_ /\ Size(With(m, v, h, t)) = Len(v)
  BY DEF With, Size
<1> QED
  BY <1>1, <1>2 DEF Bounded

\* Bytes written into the empty part take no memory.
LEMMA WrittenBounded ==
  ASSUME NEW m, Sound(m), Bounded(m), NEW s \in Seq(Bytes), Len(s) <= WritableBytes(m),
         ReadableBytes(m) + Len(s) <= MaxReadable
  PROVE  Bounded(Written(m, s))
<1>1. m.tail_ \in Nat /\ m.buffer_ \in Seq(Bytes)
  BY Fields
<1>2. ReadableBytes(Written(m, s)) = ReadableBytes(m) + Len(s)
  BY WrittenSound
<1>3. Written(m, s).initCap_ = m.initCap_ /\ Size(Written(m, s)) = Size(m)
  BY <1>1, MemcpyType DEF Written, With, Size
<1> QED
  BY <1>2, <1>3 DEF Bounded

\* Room for bytes that the bound allows is made within the bound.
LEMMA EnsureBounded ==
  ASSUME NEW m, Sound(m), Bounded(m), NEW len \in Nat, ReadableBytes(m) + len <= MaxReadable
  PROVE  /\ Bounded(EnsureWritableBytes(m, len))
         /\ ReadableBytes(EnsureWritableBytes(m, len)) = ReadableBytes(m)
<1> DEFINE w == EnsureWritableBytes(m, len)  r == ReadableBytes(m)  z == Size(m)
           h == m.head_  t == m.tail_  d == WritableBytes(m)
<1>1. /\ h \in Nat /\ t \in Nat /\ z \in Nat /\ r \in Nat /\ d \in Nat
      /\ r = t - h /\ d = z - t /\ BufferOffset \in Nat /\ BufferOffset <= z
      /\ MaxReadable \in Nat /\ Largest \in Nat /\ MaxReadable <= Largest
      /\ 2 * (MaxReadable + BufferOffset) <= Largest
      /\ r + len <= MaxReadable /\ z <= Largest + BufferOffset
  BY Fields, SizeTypes, LargestType DEF Sound, Bounded
<1>2. Readable(m) \in Seq(Bytes) /\ Len(Readable(m)) = r
  BY ReadableType
<1>3. ReadableBytes(w) = r
  <2>1. Sound(w) /\ Readable(w) = Readable(m)
    BY EnsureSound
  <2> HIDE DEF w
  <2>2. Len(Readable(w)) = ReadableBytes(w)
    BY <2>1, ReadableType
  <2> QED
    BY <1>2, <2>1, <2>2
<1>4. CASE d >= len
  BY <1>4 DEF EnsureWritableBytes
<1>5. CASE ~ (d >= len) /\ h + d >= len + BufferOffset
  <2> DEFINE v == Copy(m, BufferOffset)  e == BufferOffset + r
  <2>1. w = With(m, v, BufferOffset, e)
    BY <1>5 DEF EnsureWritableBytes
  <2> HIDE DEF r, z, h, t, d
  <2>2. BufferOffset + r <= z
    BY <1>1, <1>5
  <2>3. v \in Seq(Bytes) /\ Len(v) = z
    BY <1>1, <2>2, CopyType DEF r, z
  <2>4. /\ e \in Nat /\ BufferOffset <= e /\ e <= z /\ e - BufferOffset <= MaxReadable
        /\ BufferOffset \in Nat /\ BufferOffset <= z /\ z <= Largest + BufferOffset
    BY <1>1, <2>2
  <2> HIDE DEF v, e, w
  <2>5. Bounded(With(m, v, BufferOffset, e))
    BY <2>3, <2>4, WithBounded
  <2> QED
    BY <1>3, <2>1, <2>5 DEF w, r
<1>6. CASE ~ (d >= len) /\ ~ (h + d >= len + BufferOffset)
  <2> DEFINE a == z * 2  b == BufferOffset + r + len  n == Max({a, b})
  <2>1. w = Written(New(n), Readable(m))
    BY <1>6 DEF EnsureWritableBytes
  <2> HIDE DEF r, z, h, t, d, w
  <2>2. z < MaxReadable + BufferOffset
    BY <1>1, <1>6
  <2>3. /\ a \in Int /\ b \in Int /\ a <= Largest /\ b <= Largest /\ b >= BufferOffset /\ b >= r
        /\ a \in Nat /\ b \in Nat
    BY <1>1, <2>2
  <2> HIDE DEF a, b
  <2>4. n \in {a, b} /\ n >= b
    BY <2>3, MaxOfTwo
  <2> HIDE DEF n
  <2>5. n \in Nat /\ n <= Largest /\ n >= BufferOffset /\ r <= n
    BY <1>1, <2>3, <2>4
  <2>6. /\ Sound(New(n)) /\ Bounded(New(n)) /\ WritableBytes(New(n)) = n
        /\ ReadableBytes(New(n)) = 0
    BY <2>5, NewSound, NewBounded
  <2>7. Len(Readable(m)) <= WritableBytes(New(n))
        /\ ReadableBytes(New(n)) + Len(Readable(m)) <= MaxReadable
    BY <1>1, <1>2, <2>5, <2>6
  <2>8. Bounded(Written(New(n), Readable(m)))
    BY <1>2, <2>6, <2>7, WrittenBounded
  <2> QED
    BY <1>3, <2>1, <2>8 DEF w, r
<1> QED
  BY <1>4, <1>5, <1>6

\* An append that the bound allows stays within it.
LEMMA AppendBounded ==
  ASSUME NEW m, Sound(m), Bounded(m), NEW s \in Seq(Bytes),
         ReadableBytes(m) + Len(s) <= MaxReadable
  PROVE  Bounded(AppendBytes(m, s)) /\ ReadableBytes(AppendBytes(m, s)) = ReadableBytes(m) + Len(s)
<1> DEFINE e == EnsureWritableBytes(m, Len(s))
<1>1. Len(s) \in Nat
  BY LenProperties
<1>2. Sound(e) /\ WritableBytes(e) >= Len(s) /\ Bounded(e) /\ ReadableBytes(e) = ReadableBytes(m)
  BY <1>1, EnsureSound, EnsureBounded
<1>3. AppendBytes(m, s) = Written(e, s)
  BY DEF AppendBytes
<1> HIDE DEF e
<1>4. Len(s) <= WritableBytes(e) /\ ReadableBytes(e) + Len(s) <= MaxReadable
  BY <1>1, <1>2, Fields
<1>5. Bounded(Written(e, s)) /\ ReadableBytes(Written(e, s)) = ReadableBytes(e) + Len(s)
  BY <1>2, <1>4, WrittenSound, WrittenBounded
<1> QED
  BY <1>2, <1>3, <1>5

\* So does what is added in front.
LEMMA FrontBounded ==
  ASSUME NEW m, Sound(m), Bounded(m), NEW s \in Seq(Bytes),
         ReadableBytes(m) + Len(s) <= MaxReadable
  PROVE  Bounded(PutInFront(m, s))
<1> DEFINE w == PutInFront(m, s)  r == ReadableBytes(m)  k == Len(s)  z == Size(m)
           e == m.head_  t == m.tail_  v == m.buffer_  i == m.initCap_
<1>1. /\ e \in Nat /\ t \in Nat /\ z \in Nat /\ r \in Nat /\ k \in Nat /\ i \in Nat
      /\ r = t - e /\ WritableBytes(m) = z - t /\ t <= z /\ e <= t
      /\ BufferOffset \in Nat /\ BufferOffset <= z /\ BufferOffset <= i
      /\ v \in Seq(Bytes) /\ Len(v) = z /\ r + k <= MaxReadable
      /\ z <= Largest + BufferOffset /\ i <= Largest
      /\ MaxReadable \in Nat /\ Largest \in Nat /\ MaxReadable <= Largest
  BY Fields, SizeTypes, LargestType, LenProperties DEF Sound, Size, Bounded
<1>2. Readable(m) \in Seq(Bytes) /\ Len(Readable(m)) = r
  BY ReadableType
<1>3. CASE e >= k
  <2> DEFINE h == e - k  b == Memcpy(v, h, s)
  <2>1. w = With(m, b, h, t)
    BY <1>3 DEF PutInFront
  <2> HIDE DEF r, k, z, e, t, v, i
  <2>2. h \in Nat /\ h <= t /\ t - h <= MaxReadable
    BY <1>1, <1>3
  <2> HIDE DEF h
  <2>3. b \in Seq(Bytes) /\ Len(b) = z
    BY <1>1, <2>2, MemcpyType
  <2> HIDE DEF b, w
  <2>4. t \in Nat /\ t <= Len(b) /\ BufferOffset <= Len(b) /\ Len(b) <= Largest + BufferOffset
    BY <1>1, <2>3
  <2>5. Bounded(With(m, b, h, t))
    BY <2>2, <2>3, <2>4, WithBounded
  <2> QED
    BY <2>1, <2>5 DEF w
<1>4. CASE ~ (e >= k) /\ k <= WritableBytes(m)
  <2> DEFINE to == e + k  c == Copy(m, to)  b == Memcpy(c, e, s)  f == t + k
  <2>1. w = With(m, b, e, f)
    BY <1>4 DEF PutInFront
  <2> HIDE DEF r, k, z, e, t, v, i
  <2>2. to \in Nat /\ to + r <= z /\ f \in Nat /\ e <= f /\ f <= z /\ f - e <= MaxReadable
    BY <1>1, <1>4
  <2> HIDE DEF to, f
  <2>3. c \in Seq(Bytes) /\ Len(c) = z
    BY <2>2, CopyType DEF r, z
  <2> HIDE DEF c
  <2>4. b \in Seq(Bytes) /\ Len(b) = z
    BY <1>1, <2>3, MemcpyType
  <2> HIDE DEF b, w
  <2>5. e \in Nat /\ f <= Len(b) /\ BufferOffset <= Len(b) /\ Len(b) <= Largest + BufferOffset
    BY <1>1, <2>2, <2>4
  <2>6. Bounded(With(m, b, e, f))
    BY <2>2, <2>4, <2>5, WithBounded
  <2> QED
    BY <2>1, <2>6 DEF w
<1>5. CASE ~ (e >= k) /\ ~ (k <= WritableBytes(m))
  <2> DEFINE b == k + r  n == Max({i, b})  f == AppendBytes(New(n), s)
  <2>1. w = AppendBytes(f, Readable(m))
    BY <1>5 DEF PutInFront
  <2> HIDE DEF r, k, z, e, t, v, i, w
  <2>2. i \in Int /\ b \in Int /\ b <= Largest /\ b \in Nat
    BY <1>1
  <2> HIDE DEF b
  <2>3. n \in {i, b} /\ n >= i
    BY <2>2, MaxOfTwo
  <2> HIDE DEF n
  <2>4. n \in Nat /\ n >= BufferOffset /\ n <= Largest
    BY <1>1, <2>2, <2>3
  <2>5. Sound(New(n)) /\ Bounded(New(n)) /\ ReadableBytes(New(n)) = 0
    BY <2>4, NewSound, NewBounded
  <2>6. ReadableBytes(New(n)) + Len(s) <= MaxReadable
    BY <1>1, <2>5 DEF k
  <2>7. Sound(f) /\ Bounded(f) /\ ReadableBytes(f) = ReadableBytes(New(n)) + Len(s)
    BY <2>5, <2>6, AppendSound, AppendBounded
  <2> HIDE DEF f
  <2>8. ReadableBytes(f) + Len(Readable(m)) <= MaxReadable
    BY <1>1, <1>2, <2>5, <2>7 DEF k
  <2>9. Bounded(AppendBytes(f, Readable(m)))
    BY <1>2, <2>7, <2>8, AppendBounded
  <2> QED
    BY <2>1, <2>9 DEF w
<1> QED
  BY <1>3, <1>4, <1>5

\* RetrieveAll can only give memory back.
LEMMA EmptiedBounded ==
  ASSUME NEW m, Sound(m), Bounded(m)
  PROVE  Bounded(Emptied(m))
<1>1. ReadableBytes(Emptied(m)) = 0
  <2>1. Sound(Emptied(m)) /\ Readable(Emptied(m)) = <<>>
    BY EmptiedSound
  <2> DEFINE w == Emptied(m)
  <2> HIDE DEF w
  <2>2. Sound(w) /\ Readable(w) = <<>>
    BY <2>1 DEF w
  <2>3. Len(Readable(w)) = ReadableBytes(w)
    BY <2>2, ReadableType
  <2> QED
    BY <2>2, <2>3, EmptySeq DEF w
<1> DEFINE v == m.buffer_  i == m.initCap_  z == Size(m)
<1>2. /\ z \in Nat /\ i \in Nat /\ v \in Seq(Bytes) /\ Len(v) = z
      /\ i <= Largest /\ z <= Largest + BufferOffset /\ MaxReadable \in Nat
      /\ Largest \in Nat /\ BufferOffset \in Nat
      /\ \A j \in 1 .. z : v[j] \in Bytes
  BY Fields, SizeTypes, LargestType DEF Size, Bounded
<1> DEFINE b == IF z > i * 2 THEN SubSeq(v, 1, i) ELSE v
<1>3. Emptied(m) = With(m, b, BufferOffset, BufferOffset)
  BY DEF Emptied
<1> HIDE DEF b
<1>4. Emptied(m).initCap_ = i /\ Size(Emptied(m)) = Len(b)
  BY <1>3 DEF With, Size
<1> HIDE DEF v, i, z
<1>5. Len(b) <= Largest + BufferOffset
  <2>1. CASE z > i * 2
    <3>1. i \in Int /\ 1 \in Int /\ \A j \in 1 .. i : v[j] \in Bytes
      BY <1>2, <2>1
    <3>2. Len(SubSeq(v, 1, i)) = IF 1 <= i THEN i - 1 + 1 ELSE 0
      BY <3>1, SubSeqProperties
    <3> QED
      BY <1>2, <2>1, <3>2 DEF b
  <2>2. CASE ~ (z > i * 2)
    BY <1>2, <2>2 DEF b
  <2> QED
    BY <2>1, <2>2
<1> QED
  BY <1>1, <1>2, <1>4, <1>5 DEF Bounded

\* A read in one part or in two stays within the bound.
LEMMA ReadBounded ==
  ASSUME NEW m, Sound(m), Bounded(m), NEW s \in Seq(Bytes),
         ReadableBytes(m) + Len(s) <= MaxReadable
  PROVE  LET writable == WritableBytes(m)
         IN Bounded(IF Len(s) <= writable THEN Written(m, s)
                    ELSE AppendBytes(Written(m, SubSeq(s, 1, writable)),
                                     SubSeq(s, writable + 1, Len(s))))
<1> DEFINE n == WritableBytes(m)  z == Len(s)  r == ReadableBytes(m)
           s1 == SubSeq(s, 1, n)  s2 == SubSeq(s, n + 1, z)  f == Written(m, s1)
<1>1. CASE z <= n
  BY <1>1, WrittenBounded
<1>2. CASE ~ (z <= n)
  <2>1. /\ n \in Nat /\ z \in Nat /\ z > n /\ r \in Nat /\ MaxReadable \in Nat
        /\ r + z <= MaxReadable /\ \A i \in 1 .. z : s[i] \in Bytes
    BY <1>2, Fields, LenProperties, ElementOfSeq, SizeTypes
  <2> HIDE DEF n, z, r
  <2>2. s1 \in Seq(Bytes) /\ Len(s1) = n
    <3>1. n \in Int /\ 1 \in Int /\ \A i \in 1 .. n : s[i] \in Bytes
      BY <2>1
    <3>2. SubSeq(s, 1, n) \in Seq(Bytes) /\ Len(SubSeq(s, 1, n)) = IF 1 <= n THEN n - 1 + 1 ELSE 0
      BY <3>1, SubSeqProperties
    <3> QED
      BY <2>1, <3>2
  <2>3. s2 \in Seq(Bytes) /\ Len(s2) = z - n
    <3>1. n + 1 \in Int /\ z \in Int /\ \A i \in n + 1 .. z : s[i] \in Bytes
      BY <2>1
    <3>2. /\ SubSeq(s, n + 1, z) \in Seq(Bytes)
          /\ Len(SubSeq(s, n + 1, z)) = IF n + 1 <= z THEN z - (n + 1) + 1 ELSE 0
      BY <3>1, SubSeqProperties
    <3> QED
      BY <2>1, <3>2
  <2> HIDE DEF s1, s2
  <2>4. Len(s1) <= WritableBytes(m) /\ ReadableBytes(m) + Len(s1) <= MaxReadable
    BY <2>1, <2>2 DEF n, r
  <2>5. Sound(f) /\ Bounded(f) /\ ReadableBytes(f) = ReadableBytes(m) + Len(s1)
    BY <2>2, <2>4, WrittenSound, WrittenBounded
  <2> HIDE DEF f
  <2>6. ReadableBytes(f) + Len(s2) <= MaxReadable
    BY <2>1, <2>2, <2>3, <2>5 DEF r
  <2>7. Bounded(AppendBytes(f, s2))
    BY <2>3, <2>5, <2>6, AppendBounded
  <2> QED
    BY <1>2, <2>7 DEF f, s1, s2, n, z
<1> QED
  BY <1>1, <1>2

\* What only moves the offsets closer to each other keeps the bound.
LEMMA NarrowedBounded ==
  ASSUME NEW m, Sound(m), Bounded(m), NEW h \in Nat, NEW t \in Nat,
         m.head_ <= h, h <= t, t <= m.tail_
  PROVE  Bounded(With(m, m.buffer_, h, t))
<1> DEFINE v == m.buffer_
<1>1. /\ v \in Seq(Bytes) /\ t <= Len(v) /\ BufferOffset <= Len(v)
      /\ t - h <= MaxReadable /\ Len(v) <= Largest + BufferOffset
  <2> DEFINE a == m.head_  e == m.tail_  r == ReadableBytes(m)  z == Size(m)
  <2>1. /\ a \in Nat /\ e \in Nat /\ z \in Nat /\ r \in Nat /\ r = e - a /\ e <= z
        /\ r <= MaxReadable /\ z <= Largest + BufferOffset /\ BufferOffset <= z
        /\ v \in Seq(Bytes) /\ Len(v) = z /\ MaxReadable \in Nat
        /\ a <= h /\ h <= t /\ t <= e
    BY Fields, SizeTypes DEF Sound, Size, Bounded
  <2> HIDE DEF a, e, r, z, v
  <2> QED
    BY <2>1, SizeTypes, LargestType
<1> HIDE DEF v
<1>2. Bounded(With(m, v, h, t))
  BY <1>1, WithBounded
<1> QED
  BY <1>2 DEF v

BoundInv == BufInv /\ \A b \in Buffers : Bounded(buf[b])

\* Every step keeps every buffer bounded.
LEMMA BoundStep ==
  ASSUME BoundInv, Next
  PROVE  \A d \in Buffers : Bounded(buf'[d])
<1>1. PICK b \in Buffers :
        \/ AppendData(b) \/ AddInFront(b) \/ HasWritten(b) \/ Unwrite(b)
        \/ Retrieve(b) \/ RetrieveAll(b) \/ ReadFd(b) \/ EnsureWritable(b)
        \/ \E c \in Buffers : AppendBuffer(b, c) \/ Swap(b, c)
  BY DEF Next
<1> DEFINE m == buf[b]  r == ReadableBytes(m)  h == m.head_  t == m.tail_
<1>2. /\ Sound(m) /\ Bounded(m) /\ \A s \in Chunks : s \in Seq(Bytes)
      /\ h \in Nat /\ t \in Nat /\ r = t - h /\ h <= t /\ r \in Nat
      /\ \A c \in Buffers : Sound(buf[c]) /\ Bounded(buf[c])
      /\ buf \in [Buffers -> Buffer]
  BY BytesAssumption, Fields DEF BoundInv, BufInv, Sound
<1> DEFINE Goal == \A d \in Buffers : Bounded(buf'[d])
<1>3. ASSUME NEW w, Bounded(w), Becomes(b, w) PROVE Goal
  BY <1>2, <1>3 DEF Becomes
<1> HIDE DEF r, h, t, m
<1>4. CASE AppendData(b)
  <2>1. PICK s \in Chunks : Fits(b, Len(s)) /\ Becomes(b, AppendBytes(m, s))
    BY <1>4 DEF AppendData, Becomes, m
  <2>2. Bounded(AppendBytes(m, s))
    BY <1>2, <2>1, AppendBounded DEF Fits, m
  <2> QED
    BY <1>3, <2>1, <2>2
<1>5. CASE AddInFront(b)
  <2>1. PICK s \in Chunks : Fits(b, Len(s)) /\ Becomes(b, PutInFront(m, s))
    BY <1>5 DEF AddInFront, Becomes, m
  <2>2. Bounded(PutInFront(m, s))
    BY <1>2, <2>1, FrontBounded DEF Fits, m
  <2> QED
    BY <1>3, <2>1, <2>2
<1>6. CASE HasWritten(b)
  <2>1. PICK s \in Chunks : /\ Fits(b, Len(s)) /\ Len(s) <= WritableBytes(m)
                            /\ Becomes(b, Written(m, s))
    BY <1>6 DEF HasWritten, Becomes, m
  <2>2. Bounded(Written(m, s))
    BY <1>2, <2>1, WrittenBounded DEF Fits, m
  <2> QED
    BY <1>3, <2>1, <2>2
<1>7. CASE Unwrite(b)
  <2>1. PICK offset \in 1 .. r : Becomes(b, With(m, m.buffer_, h, t - offset))
    BY <1>7 DEF Unwrite, Becomes, m, r, h, t
  <2>2. h <= t - offset /\ t - offset <= t /\ t - offset \in Nat /\ h <= h
    BY <1>2
  <2>3. Bounded(With(m, m.buffer_, h, t - offset))
    BY <1>2, <2>2, NarrowedBounded DEF h, t
  <2> QED
    BY <1>3, <2>1, <2>3
<1>8. CASE Retrieve(b)
  <2>1. PICK len \in 1 .. r : Becomes(b, IF len >= r THEN Emptied(m)
                                         ELSE With(m, m.buffer_, h + len, t))
    BY <1>8 DEF Retrieve, Becomes, m, r, h, t
  <2>2. CASE len >= r
    BY <1>2, <1>3, <2>1, <2>2, EmptiedBounded
  <2>3. CASE ~ (len >= r)
    <3>1. h <= h + len /\ h + len <= t /\ h + len \in Nat /\ t <= t
      BY <1>2, <2>3
    <3>2. Bounded(With(m, m.buffer_, h + len, t))
      BY <1>2, <3>1, NarrowedBounded DEF h, t
    <3> QED
      BY <1>3, <2>1, <2>3, <3>2
  <2> QED
    BY <2>2, <2>3
<1>9. CASE RetrieveAll(b)
  <2>1. Becomes(b, Emptied(m))
    BY <1>9 DEF RetrieveAll, Becomes, m
  <2> QED
    BY <1>2, <1>3, <2>1, EmptiedBounded
<1>10. CASE ReadFd(b)
  <2> DEFINE w(s) == IF Len(s) <= WritableBytes(m) THEN Written(m, s)
                     ELSE AppendBytes(Written(m, SubSeq(s, 1, WritableBytes(m))),
                                      SubSeq(s, WritableBytes(m) + 1, Len(s)))
  <2>1. PICK s \in Chunks : Fits(b, Len(s)) /\ Becomes(b, w(s))
    BY <1>10 DEF ReadFd, Becomes, m
  <2>2. Bounded(w(s))
    BY <1>2, <2>1, ReadBounded DEF Fits, m
  <2> HIDE DEF w
  <2> QED
    BY <1>3, <2>1, <2>2
<1>11. CASE EnsureWritable(b)
  <2>1. PICK len \in 1 .. MaxReadable : Fits(b, len) /\ Becomes(b, EnsureWritableBytes(m, len))
    BY <1>11 DEF EnsureWritable, Becomes, m
  <2>2. len \in Nat
    BY SizeTypes
  <2>3. Bounded(EnsureWritableBytes(m, len))
    BY <1>2, <2>1, <2>2, EnsureBounded DEF Fits, m
  <2> QED
    BY <1>3, <2>1, <2>3
<1>12. ASSUME NEW c \in Buffers, AppendBuffer(b, c) PROVE Goal
  <2> DEFINE s == Readable(buf[c])
  <2>1. Fits(b, ReadableBytes(buf[c])) /\ Becomes(b, AppendBytes(m, s))
    BY <1>12 DEF AppendBuffer, Becomes, m
  <2>2. s \in Seq(Bytes) /\ Len(s) = ReadableBytes(buf[c])
    BY <1>2, ReadableType
  <2> HIDE DEF s
  <2>3. Bounded(AppendBytes(m, s))
    BY <1>2, <2>1, <2>2, AppendBounded DEF Fits, m
  <2> QED
    BY <1>3, <2>1, <2>3
<1>13. ASSUME NEW c \in Buffers, Swap(b, c) PROVE Goal
  BY <1>2, <1>13 DEF Swap
<1> QED
  BY <1>1, <1>4, <1>5, <1>6, <1>7, <1>8, <1>9, <1>10, <1>11, <1>12, <1>13

\* The memory of a buffer is bounded by what it had to hold at the most, however often
\* it is filled and emptied.
THEOREM BufferMemory == Spec => []MemoryBounded
<1>1. Init => BoundInv
  <2>1. /\ Sound(New(InitCap)) /\ New(InitCap) \in Buffer /\ Bounded(New(InitCap))
    BY SizeTypes, LargestType, NewSound, NewBounded DEF Sound
  <2> QED
    BY <2>1 DEF Init, BoundInv, BufInv
<1>2. BoundInv /\ [Next]_buf => BoundInv'
  <2>1. CASE UNCHANGED buf
    BY <2>1 DEF BoundInv, BufInv
  <2>2. CASE BoundInv /\ Next
    <3>1. BufInv'
      BY <2>2, BuffersStep DEF BoundInv
    <3>2. \A d \in Buffers : Bounded(buf'[d])
      BY <2>2, BoundStep
    <3> QED
      BY <3>1, <3>2 DEF BoundInv
  <2> QED
    BY <2>1, <2>2
<1>3. BoundInv => MemoryBounded
  BY DEF BoundInv, Bounded, Largest, MemoryBounded
<1> QED
  BY <1>1, <1>2, <1>3, PTL DEF Spec
=============================================================================
