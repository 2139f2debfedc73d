------------------------------- MODULE MsgBuffer -------------------------------
(***************************************************************************)
(* MsgBuffer: a vector of bytes, of which those from head_ up to tail_ are *)
(* readable.  Before them is room for a header, after them room to write.  *)
(* When the room at the end is too small the bytes are moved to the front, *)
(* or the vector is replaced by a larger one.                              *)
(*                                                                         *)
(* A buffer is used by one thread at a time.  Its operations are written as*)
(* functions of its state, as they are built from each other.              *)
(***************************************************************************)
EXTENDS Integers, Sequences, FiniteSetsExt

CONSTANTS
  Buffers,      \* the buffers
  Bytes,        \* byte values
  Chunks,       \* the byte sequences that callers and descriptors hand over
  BufferOffset, \* kBufferOffset (8)
  InitCap,      \* the length that the constructor is given (2048)
  ExtBuffer,    \* the size of extBuffer in ReadFd (8192)
  MaxReadable,  \* bound: nothing is added beyond this many readable bytes
  Zero          \* the byte with which a vector is filled

ASSUME BytesAssumption == Zero \in Bytes /\ Chunks \subseteq Seq(Bytes)
\* With a shorter initial length, which no caller asks for, RetrieveAll may leave a
\* vector that ends before kBufferOffset.
ASSUME SizesAssumption ==
  /\ {BufferOffset, InitCap, ExtBuffer, MaxReadable} \subseteq Nat
  /\ InitCap >= BufferOffset

VARIABLE buf    \* per buffer: head_, initCap_, buffer_ and tail_

-----------------------------------------------------------------------------
(* The state of one buffer.  Offset o of buffer_ is its element o + 1.     *)

New(len) == [head_ |-> BufferOffset, tail_ |-> BufferOffset, initCap_ |-> len,
             buffer_ |-> [i \in 1 .. len + BufferOffset |-> Zero]]

\* m with another vector and other offsets.
With(m, bytes, head, tail) ==
  [head_ |-> head, tail_ |-> tail, initCap_ |-> m.initCap_, buffer_ |-> bytes]

Init == buf = [b \in Buffers |-> New(InitCap)]

Size(m) == Len(m.buffer_)
ReadableBytes(m) == m.tail_ - m.head_
WritableBytes(m) == Size(m) - m.tail_
Readable(m) == SubSeq(m.buffer_, m.head_ + 1, m.tail_)

\* memcpy of s to an offset, as much of it as the vector has room for.
Memcpy(bytes, to, s) ==
  [i \in 1 .. Len(bytes) |-> IF i \in to + 1 .. to + Len(s) THEN s[i - to] ELSE bytes[i]]

\* Mutant: a copy from the first byte on, which overruns what it has to copy yet.
MutantCopy(m, to) ==
  LET byte[i \in 0 .. Size(m)] ==
        IF i \in to + 1 .. to + ReadableBytes(m)
        THEN IF to > m.head_ /\ i - to > to - m.head_ THEN byte[i - (to - m.head_)]
             ELSE m.buffer_[i - to + m.head_]
        ELSE IF i = 0 THEN Zero ELSE m.buffer_[i]
  IN [i \in 1 .. Size(m) |-> byte[i]]

\* std::copy of the readable bytes to another offset of the same vector.  For
\* char it is a memmove, so it may overlap either way.
Copy(m, to) == Memcpy(m.buffer_, to, Readable(m))

Written(m, s) == With(m, Memcpy(m.buffer_, m.tail_, s), m.head_, m.tail_ + Len(s))

\* Mutant: the room that the offset takes is forgotten.
MutantCompact(m, len) ==
  IF WritableBytes(m) >= len THEN m
  ELSE IF m.head_ + WritableBytes(m) >= len
  THEN With(m, Copy(m, BufferOffset), BufferOffset, BufferOffset + ReadableBytes(m))
  ELSE Written(New(Max({Size(m) * 2, BufferOffset + ReadableBytes(m) + len})), Readable(m))

\* Mutant: the bytes are never moved to the front.
MutantNoCompact(m, len) ==
  IF WritableBytes(m) >= len THEN m
  ELSE Written(New(Max({Size(m) * 2, BufferOffset + ReadableBytes(m) + len})), Readable(m))

\* The new buffer has room for all that is readable: its Append copies at once.
EnsureWritableBytes(m, len) ==
  IF WritableBytes(m) >= len THEN m
  ELSE IF m.head_ + WritableBytes(m) >= len + BufferOffset
  THEN With(m, Copy(m, BufferOffset), BufferOffset, BufferOffset + ReadableBytes(m))
  ELSE Written(New(Max({Size(m) * 2, BufferOffset + ReadableBytes(m) + len})), Readable(m))

AppendBytes(m, s) == Written(EnsureWritableBytes(m, Len(s)), s)

\* Mutant: one byte too few in front is taken to be enough.
MutantPutInFront(m, s) ==
  IF m.head_ + 1 >= Len(s)
  THEN With(m, Memcpy(m.buffer_, m.head_ - Len(s), s), m.head_ - Len(s), m.tail_)
  ELSE IF Len(s) <= WritableBytes(m)
  THEN With(m, Memcpy(Copy(m, m.head_ + Len(s)), m.head_, s), m.head_, m.tail_ + Len(s))
  ELSE AppendBytes(AppendBytes(New(Max({m.initCap_, Len(s) + ReadableBytes(m)})), s),
                   Readable(m))

PutInFront(m, s) ==
  IF m.head_ >= Len(s)
  THEN With(m, Memcpy(m.buffer_, m.head_ - Len(s), s), m.head_ - Len(s), m.tail_)
  ELSE IF Len(s) <= WritableBytes(m)
  THEN With(m, Memcpy(Copy(m, m.head_ + Len(s)), m.head_, s), m.head_, m.tail_ + Len(s))
  ELSE AppendBytes(AppendBytes(New(Max({m.initCap_, Len(s) + ReadableBytes(m)})), s),
                   Readable(m))

\* resize keeps the first bytes of the vector.
Emptied(m) ==
  With(m, IF Size(m) > m.initCap_ * 2 THEN SubSeq(m.buffer_, 1, m.initCap_) ELSE m.buffer_,
       BufferOffset, BufferOffset)

-----------------------------------------------------------------------------
(* The operations.  Those for integers, and Append of a string, are Append,*)
(* AddInFront and Read of their bytes.                                     *)

Fits(b, n) == ReadableBytes(buf[b]) + n <= MaxReadable

AppendData(b) == \E s \in Chunks :
  /\ Fits(b, Len(s))
  /\ buf' = [buf EXCEPT ![b] = AppendBytes(@, s)]

AppendBuffer(b, c) ==
  /\ Fits(b, ReadableBytes(buf[c]))
  /\ buf' = [buf EXCEPT ![b] = AppendBytes(@, Readable(buf[c]))]

AddInFront(b) == \E s \in Chunks :
  /\ Fits(b, Len(s))
  /\ buf' = [buf EXCEPT ![b] = PutInFront(@, s)]

\* The caller has written s at BeginWrite().
HasWritten(b) == \E s \in Chunks :
  /\ Fits(b, Len(s))
  /\ Len(s) <= WritableBytes(buf[b])
  /\ buf' = [buf EXCEPT ![b] = Written(@, s)]

Unwrite(b) == \E offset \in 1 .. ReadableBytes(buf[b]) :
  buf' = [buf EXCEPT ![b] = With(@, @.buffer_, @.head_, @.tail_ - offset)]

Retrieve(b) == \E len \in 1 .. ReadableBytes(buf[b]) :
  buf' = [buf EXCEPT ![b] = IF len >= ReadableBytes(@) THEN Emptied(@)
                            ELSE With(@, @.buffer_, @.head_ + len, @.tail_)]

RetrieveAll(b) == buf' = [buf EXCEPT ![b] = Emptied(@)]

\* Mutant: what came in extBuffer is counted and not copied.
MutantReadFd(b) == \E s \in Chunks :
  /\ s # <<>> /\ Fits(b, Len(s))
  /\ LET m == buf[b]
         writable == WritableBytes(m)
     IN /\ Len(s) <= writable + (IF writable < ExtBuffer THEN ExtBuffer ELSE 0)
        /\ buf' = [buf EXCEPT ![b] = Written(m, s)]

\* readv fills the vector and then extBuffer.  An error or the end of the stream
\* leaves the buffer as it is.
ReadFd(b) == \E s \in Chunks :
  /\ s # <<>> /\ Fits(b, Len(s))
  /\ LET m == buf[b]
         writable == WritableBytes(m)
     IN /\ Len(s) <= writable + (IF writable < ExtBuffer THEN ExtBuffer ELSE 0)
        /\ buf' = [buf EXCEPT ![b] =
                     IF Len(s) <= writable THEN Written(m, s)
                     ELSE AppendBytes(Written(m, SubSeq(s, 1, writable)),
                                      SubSeq(s, writable + 1, Len(s)))]

EnsureWritable(b) == \E len \in 1 .. MaxReadable :
  /\ Fits(b, len)
  /\ buf' = [buf EXCEPT ![b] = EnsureWritableBytes(@, len)]

Swap(b, c) == buf' = [buf EXCEPT ![b] = buf[c], ![c] = buf[b]]

Next ==
  \E b \in Buffers :
    \/ AppendData(b) \/ AddInFront(b) \/ HasWritten(b) \/ Unwrite(b)
    \/ Retrieve(b) \/ RetrieveAll(b) \/ ReadFd(b) \/ EnsureWritable(b)
    \/ \E c \in Buffers : AppendBuffer(b, c) \/ Swap(b, c)

Spec == Init /\ [][Next]_buf
-----------------------------------------------------------------------------
(* Properties.                                                             *)

\* Every variable holds a value of its type.
TypeOK ==
  buf \in [Buffers -> [head_ : Nat, tail_ : Nat, initCap_ : Nat, buffer_ : Seq(Bytes)]]

\* The readable bytes lie within the vector, after any sequence of operations: no
\* size_t of ReadableBytes() or WritableBytes(), the size of the empty part in the
\* buffer, wraps around, and nothing is written beyond the vector.
WithinVector ==
  \A b \in Buffers : buf[b].head_ <= buf[b].tail_ /\ buf[b].tail_ <= Size(buf[b])

\* After EnsureWritableBytes(len) there are len bytes to write, wherever the readable
\* bytes were, and the readable bytes are what they were.
EnsureMakesRoom ==
  \A b \in Buffers, len \in 0 .. MaxReadable :
    LET m == EnsureWritableBytes(buf[b], len)
    IN WritableBytes(m) >= len /\ Readable(m) = Readable(buf[b])

\* A buffer that is written and read in turn does not grow for ever: its vector stays
\* within twice what it had to hold at the most.
MemoryBounded ==
  \A b \in Buffers :
    Size(buf[b]) <= Max({InitCap, 2 * (MaxReadable + BufferOffset)}) + BufferOffset

\* A buffer is a queue of bytes: no operation loses, repeats or reorders any, through
\* all the moves of the bytes and of the vector.
Queue == INSTANCE ByteQueue WITH content <- [b \in Buffers |-> Readable(buf[b])]
ImplementsQueue == Queue!Spec
=============================================================================
