------------------------------- MODULE ByteQueue -------------------------------
(***************************************************************************)
(* What a caller of MsgBuffer relies on: a buffer is a queue of bytes.     *)
(* Bytes are added at either end and leave from the front, or from the end *)
(* when an Unwrite takes them back; nothing else happens to them.  Offsets,*)
(* free space and reallocation do not appear here.                         *)
(***************************************************************************)
EXTENDS Naturals, Sequences

CONSTANTS
  Buffers,  \* the buffers
  Chunks    \* the byte sequences that callers and descriptors hand over

VARIABLE content  \* per buffer, the bytes in it

Init == content = [b \in Buffers |-> <<>>]

Add(b, s) == content' = [content EXCEPT ![b] = @ \o s]
AddFront(b, s) == content' = [content EXCEPT ![b] = s \o @]
Take(b, n) == content' = [content EXCEPT ![b] = SubSeq(@, n + 1, Len(@))]
TakeBack(b, n) == content' = [content EXCEPT ![b] = SubSeq(@, 1, Len(@) - n)]
Swap(b, c) == content' = [content EXCEPT ![b] = content[c], ![c] = content[b]]

Next ==
  \E b \in Buffers :
    \/ \E s \in Chunks : Add(b, s) \/ AddFront(b, s)
    \/ \E n \in 0 .. Len(content[b]) : Take(b, n) \/ TakeBack(b, n)
    \/ \E c \in Buffers : Add(b, content[c]) \/ Swap(b, c)

Spec == Init /\ [][Next]_content
===============================================================================
