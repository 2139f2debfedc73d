------------------------------ MODULE MCMsgBuffer ------------------------------
(***************************************************************************)
(* Byte sequences for MsgBuffer: those of up to three bytes in which x     *)
(* comes before y, enough to see bytes lost, repeated or swapped.  z, the  *)
(* filler of a new vector, is in none of them, so that a byte that was     *)
(* never written shows when it is read.                                    *)
(***************************************************************************)
EXTENDS MsgBuffer

CONSTANTS x, y, z

MCChunks == {<<x>>, <<x, y>>, <<x, y, y>>}

(* Two buffers that differ in bytes outside head_ .. tail_ only are one    *)
(* state: no operation reads such a byte.                                  *)
MCView ==
  [b \in Buffers |->
     LET m == buf[b]
     IN <<m.head_, m.tail_, m.initCap_, Size(m),
          [i \in (m.head_ + 1 .. m.tail_) \cap DOMAIN m.buffer_ |-> m.buffer_[i]]>>]
=============================================================================
