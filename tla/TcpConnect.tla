------------------------------- MODULE TcpConnect ------------------------------
(***************************************************************************)
(* One TcpConnect that has been added to its loop.  Send queues iovecs and *)
(* asks for write events; OnWrite hands them to the kernel.  The message   *)
(* and the write-complete callback send, close and delete on the spot, on  *)
(* the loop's thread; other threads send and close through RunInLoop, of   *)
(* which Executor is the specification.                                    *)
(*                                                                         *)
(* The kernel side is a socket with a send buffer and an edge-triggered    *)
(* registration: an edge is queued when something arrives, when room comes *)
(* back after a write met a full buffer, and when EPOLL_CTL_MOD finds an   *)
(* event that is asked for.  A write to a broken connection fails (the     *)
(* process is taken to ignore SIGPIPE).                                    *)
(***************************************************************************)
EXTENDS Integers, Sequences, SequencesExt, FiniteSetsExt

CONSTANTS
  Messages,      \* what is sent, each message once (a bound)
  Text,          \* per message, its segments: sequences of bytes, all distinct
  Lists,         \* the messages sent as a list of BufferNodes, the others are
                 \* one buffer, and have no segment if it is empty
  MaxInputs,     \* bound: how often the peer sends something
  SendRoom,      \* bytes that fit in the send buffer of the socket
  Close,         \* stands for the queued call of OnClose
  CloseCallback  \* whether mCloseCb has been set

ASSUME MessagesAssumption == Lists \subseteq Messages /\ DOMAIN Text = Messages /\ Close \notin Messages

Everything == UNION {UNION {ToSet(Text[m][k]) : k \in DOMAIN Text[m]} : m \in Messages}

ASSUME TextAssumption ==
  \A m \in Messages : /\ Text[m] \in Seq(Seq(Everything))
                      /\ m \notin Lists => Len(Text[m]) <= 1 /\ <<>> \notin ToSet(Text[m])
ASSUME CallersAssumption ==
  SendRoom \in Nat \ {0} /\ MaxInputs \in Nat /\ CloseCallback \in BOOLEAN

VARIABLES
  mClose, mIovecList,
  writing,    \* kEventWrite is set in event_
  added,      \* the connection is in events_ of the loop
  functions,  \* the calls queued on the loop: a message to send, or Close
  sock,       \* kernel: free room, a write met it full, input waits, the peer
              \* has shut down, the connection is broken
  ready,      \* kernel: the socket is on the epoll ready list
  inputs,     \* kernel: how often the peer has sent something
  wire,       \* kernel: the bytes accepted, in order
  pc, batch,  \* where the loop is, and the events it has yet to dispatch
  cb,         \* the user's callbacks that run, "message" or "complete", innermost first
  sent,       \* history: the messages handed to Send
  accepted,   \* history: the bytes that SendInLoop has taken on, in order
  overtaken,  \* history: a Send wrote bytes at once, past those queued
  repeated,   \* history: a writev took more than the first segment
  life        \* "alive", or "terminated" by an exception or a dead object

queue == <<mClose, mIovecList, writing, added>>
kernel == <<sock, ready, inputs, wire>>
loopVars == <<pc, batch, cb>>
history == <<sent, accepted, overtaken, repeated>>
vars == <<queue, functions, kernel, loopVars, history, life>>

Init ==
  /\ mClose = FALSE /\ mIovecList = <<>> /\ writing = FALSE /\ added = TRUE
  /\ functions = <<>>
  /\ sock = [room |-> SendRoom, nospace |-> FALSE, in |-> FALSE, eof |-> FALSE, err |-> FALSE]
  /\ ready = FALSE /\ inputs = 0 /\ wire = <<>>
  /\ pc = "wait" /\ batch = {} /\ cb = <<>>
  /\ sent = {} /\ accepted = <<>> /\ overtaken = FALSE /\ repeated = FALSE
  /\ life = "alive"

Alive == life = "alive"

-----------------------------------------------------------------------------
(* The socket, external.                                                   *)

Events(s, write) ==
  (IF s.in \/ s.eof THEN {"in"} ELSE {}) \cup (IF s.err THEN {"err"} ELSE {})
    \cup (IF write /\ s.room > 0 THEN {"out"} ELSE {})

\* Asking for the events of a socket with a full buffer arms the notice of room.
Polled(s) == [s EXCEPT !.nospace = @ \/ s.room = 0]

\* Bytes that a write of bs takes, and the socket after it.
Taken(bs) == Min({Len(bs), sock.room})
AfterWrite(bs) ==
  [sock EXCEPT !.room = @ - Taken(bs), !.nospace = @ \/ Taken(bs) < Len(bs)]

PeerReads ==
  /\ Alive
  /\ sock.room < SendRoom
  /\ sock' = [sock EXCEPT !.room = SendRoom, !.nospace = FALSE]
  /\ ready' = (ready \/ (sock.nospace /\ writing /\ added))
  /\ UNCHANGED <<queue, functions, inputs, wire, loopVars, history, life>>

Peer(change) ==
  /\ Alive
  /\ sock' = change
  /\ sock' # sock
  /\ ready' = added
  /\ UNCHANGED <<queue, functions, wire, loopVars, history, life>>

PeerSends == /\ inputs < MaxInputs /\ inputs' = inputs + 1
             /\ ~ sock.eof /\ ~ sock.err
             /\ Peer([sock EXCEPT !.in = TRUE])
PeerShuts == ~ sock.err /\ Peer([sock EXCEPT !.eof = TRUE]) /\ UNCHANGED inputs
PeerBreaks == Peer([sock EXCEPT !.err = TRUE]) /\ UNCHANGED inputs

-----------------------------------------------------------------------------
(* Parts of the handlers.                                                  *)

\* EventLoop::EnableEventWriting, with the socket in the state s.
EnableWriting(enable, s) ==
  IF added
  THEN /\ writing' = enable
       /\ ready' = (ready \/ Events(s, enable) # {})
       /\ sock' = Polled(s)
  ELSE sock' = s /\ UNCHANGED <<writing, ready>>

\* The first time mClose is set, from then on mCloseCb is called.  It may delete the
\* event; when nobody else holds the connection, as a callback that runs does, its
\* destructor then throws, for it calls OnClose again and shared_from_this has expired.
OnClose ==
  /\ mClose' = TRUE
  /\ IF ~ mClose THEN UNCHANGED <<added, life>>
     ELSE /\ added' \in {added, FALSE}
          /\ \E held \in {cb # <<>>, TRUE} :
               life' = IF CloseCallback /\ (added' \/ held) THEN "alive" ELSE "terminated"

\* Mutant: write events are not asked for.
MutantSendList(m) ==
  /\ mIovecList' = mIovecList \o Text[m]
  /\ accepted' = accepted \o FlattenSeq(Text[m])
  /\ UNCHANGED <<mClose, writing, added, kernel, cb, overtaken, life>>

\* The list version: queue the segments, ask for write events if any are queued.
SendList(m) ==
  /\ mIovecList' = mIovecList \o Text[m]
  /\ accepted' = accepted \o FlattenSeq(Text[m])
  /\ IF mIovecList' # <<>> THEN EnableWriting(TRUE, sock) ELSE UNCHANGED <<writing, sock, ready>>
  /\ UNCHANGED <<mClose, added, inputs, wire, cb, overtaken, life>>

\* The buffer version.  When other bytes are queued it writes at once, past them.
SendBuffer(m) ==
  LET bs == FlattenSeq(Text[m]) IN
  \/ mIovecList = <<>> /\ SendList(m)
  \/ /\ mIovecList # <<>> /\ sock.err
     /\ OnClose
     /\ UNCHANGED <<mIovecList, writing, kernel, cb, accepted, overtaken>>
  \/ /\ mIovecList # <<>> /\ ~ sock.err
     /\ wire' = wire \o SubSeq(bs, 1, Taken(bs))
     /\ accepted' = accepted \o bs
     /\ overtaken' = (overtaken \/ Taken(bs) > 0)
     /\ IF Taken(bs) = Len(bs)
        THEN /\ cb' = <<"complete">> \o cb
             /\ sock' = AfterWrite(bs)
             /\ UNCHANGED <<mIovecList, writing, ready>>
        ELSE /\ cb' = cb
             /\ mIovecList' = Append(mIovecList, SubSeq(bs, Taken(bs) + 1, Len(bs)))
             /\ EnableWriting(TRUE, AfterWrite(bs))
     /\ UNCHANGED <<mClose, added, inputs, life>>

SendInLoop(m) ==
  IF mClose
  THEN UNCHANGED <<queue, kernel, cb, accepted, overtaken, life>>
  ELSE IF m \in Lists THEN SendList(m) ELSE SendBuffer(m)

-----------------------------------------------------------------------------
(* Calls from other threads, queued by RunInLoop.                          *)

Send(m) ==
  /\ Alive
  /\ m \notin sent
  /\ sent' = sent \cup {m}
  /\ functions' = Append(functions, m)
  /\ UNCHANGED <<queue, kernel, loopVars, accepted, overtaken, repeated, life>>

ForceClose ==
  /\ Alive
  /\ ~ Contains(functions, Close)
  /\ functions' = Append(functions, Close)
  /\ UNCHANGED <<queue, kernel, loopVars, history, life>>

-----------------------------------------------------------------------------
(* The loop's thread.                                                      *)

EpollWait ==
  /\ Alive
  /\ pc = "wait" /\ pc' = "events"
  /\ batch' = IF ready /\ added THEN Events(sock, writing) ELSE {}
  /\ sock' = IF ready /\ added THEN Polled(sock) ELSE sock
  /\ ready' = FALSE
  /\ UNCHANGED <<queue, functions, inputs, wire, cb, history, life>>

At(event) == Alive /\ pc = "events" /\ cb = <<>> /\ event \in batch

\* EPOLLERR excludes the other events.
OnError ==
  /\ At("err")
  /\ batch' = {}
  /\ OnClose
  /\ UNCHANGED <<mIovecList, writing, functions, kernel, pc, cb, history>>

\* One turn of while(true).
OnRead ==
  /\ At("in") /\ "err" \notin batch
  /\ IF sock.in /\ ~ sock.err
     THEN /\ sock' = [sock EXCEPT !.in = FALSE]
          /\ cb' = <<"message">>
          /\ UNCHANGED <<mClose, added, life, batch>>
     ELSE /\ batch' = batch \ {"in"}
          /\ IF sock.eof /\ ~ sock.err THEN OnClose ELSE UNCHANGED <<mClose, added, life>>
          /\ UNCHANGED <<sock, cb>>
  /\ UNCHANGED <<mIovecList, writing, functions, ready, inputs, wire, pc, history>>

\* A callback sends, once or more; what completes at once calls a callback in it.
CallbackSends ==
  /\ Alive /\ cb # <<>>
  /\ \E m \in Messages \ sent : sent' = sent \cup {m} /\ SendInLoop(m)
  /\ UNCHANGED <<functions, pc, batch, repeated>>

\* A callback calls ForceClose, on the spot.
CallbackCloses ==
  /\ Alive /\ cb # <<>>
  /\ OnClose
  /\ UNCHANGED <<mIovecList, writing, functions, kernel, loopVars, history>>

\* A callback deletes the event.
CallbackDeletes ==
  /\ Alive /\ cb # <<>>
  /\ added /\ added' = FALSE
  /\ UNCHANGED <<mClose, mIovecList, writing, functions, kernel, loopVars, history, life>>

\* A deleted connection dies with the argument of the outermost callback unless
\* somebody holds it.
CallbackReturns ==
  /\ Alive /\ cb # <<>>
  /\ cb' = Tail(cb)
  /\ \E held \in BOOLEAN :
       life' = IF added \/ cb' # <<>> \/ held THEN "alive" ELSE "terminated"
  /\ UNCHANGED <<queue, functions, kernel, pc, batch, history>>

\* Mutant: a segment that is written to its end is not dropped.
MutantKeepEmpty(n) ==
  IF Len(Head(mIovecList)) >= n
  THEN <<SubSeq(Head(mIovecList), n + 1, Len(Head(mIovecList)))>> \o Tail(mIovecList)
  ELSE Tail(mIovecList)

\* Mutant: the first segment is dropped whether it was written to its end or not.
MutantDropFirst(n) == Tail(mIovecList)

\* Mutant: iov_base is not moved.
MutantRepeat(n) == IF Len(Head(mIovecList)) > n THEN mIovecList ELSE Tail(mIovecList)

\* What OnWrite keeps after a writev of n bytes: only the first segment is looked at.
Left(n) ==
  IF Len(Head(mIovecList)) > n
  THEN <<SubSeq(Head(mIovecList), n + 1, Len(Head(mIovecList)))>> \o Tail(mIovecList)
  ELSE Tail(mIovecList)

\* Everything is offered to writev.  If a segment is left, errno is looked at, as
\* some earlier call left it.
Writev ==
  LET bs == FlattenSeq(mIovecList) IN
  IF Taken(bs) = 0
  THEN sock' = AfterWrite(bs) /\ UNCHANGED <<queue, ready, inputs, wire, cb, repeated, life>>
  ELSE /\ wire' = wire \o SubSeq(bs, 1, Taken(bs))
       /\ mIovecList' = Left(Taken(bs))
       /\ repeated' = (repeated \/ Taken(bs) > Len(Head(mIovecList)))
       /\ IF mIovecList' = <<>>
          THEN /\ EnableWriting(FALSE, AfterWrite(bs))
               /\ cb' = <<"complete">>
               /\ UNCHANGED mClose
          ELSE /\ sock' = AfterWrite(bs)
               /\ mClose' \in {mClose, TRUE}
               /\ UNCHANGED <<writing, ready, cb>>
       /\ UNCHANGED <<added, inputs, life>>

\* Mutant: the closed connection is not left alone.
MutantOnWrite ==
  /\ At("out") /\ "in" \notin batch /\ added
  /\ batch' = {}
  /\ IF mIovecList = <<>> \/ sock.err
     THEN UNCHANGED <<queue, kernel, cb, repeated, life>>
     ELSE Writev
  /\ UNCHANGED <<functions, pc, sent, accepted, overtaken>>

OnWrite ==
  /\ At("out") /\ "in" \notin batch /\ added
  /\ batch' = {}
  /\ IF mClose \/ mIovecList = <<>> \/ sock.err
     THEN UNCHANGED <<queue, kernel, cb, repeated, life>>
     ELSE Writev
  /\ UNCHANGED <<functions, pc, sent, accepted, overtaken>>

\* The event was deleted by a callback in OnRead, and Loop() goes on with a reference
\* into the node that is no longer in events_: OnWrite sees mClose, or anything happens.
OnDeleted ==
  /\ At("out") /\ "in" \notin batch /\ ~ added
  /\ batch' = {}
  /\ life' \in {"alive", "terminated"}
  /\ UNCHANGED <<queue, functions, kernel, pc, cb, history>>

RunFunctions ==
  /\ Alive
  /\ pc = "events" /\ cb = <<>> /\ batch = {}
  /\ pc' = "functions"
  /\ UNCHANGED <<queue, functions, kernel, batch, cb, history, life>>

RunFunction ==
  /\ Alive
  /\ pc = "functions" /\ cb = <<>>
  /\ IF functions = <<>>
     THEN pc' = "wait" /\ UNCHANGED <<queue, functions, kernel, cb, accepted, overtaken, life>>
     ELSE /\ functions' = Tail(functions)
          /\ IF Head(functions) = Close
             THEN OnClose /\ UNCHANGED <<mIovecList, writing, kernel, cb, accepted, overtaken>>
             ELSE SendInLoop(Head(functions))
          /\ UNCHANGED pc
  /\ UNCHANGED <<batch, sent, repeated>>

Handling == \/ OnError \/ OnRead \/ OnWrite \/ OnDeleted
            \/ CallbackSends \/ CallbackCloses \/ CallbackDeletes \/ CallbackReturns
            \/ RunFunctions \/ RunFunction

Next == \/ EpollWait \/ Handling
        \/ \E m \in Messages : Send(m)
        \/ ForceClose
        \/ PeerReads \/ PeerSends \/ PeerShuts \/ PeerBreaks

Spec == Init /\ [][Next]_vars

(* The loop goes round, since epoll_wait returns within a second, and the  *)
(* peer reads what it is sent.                                             *)
Fairness == WF_vars(EpollWait) /\ WF_vars(Handling) /\ WF_vars(PeerReads)

FairSpec == Spec /\ Fairness
-----------------------------------------------------------------------------
(* Properties.                                                             *)

\* What may be queued: an empty segment only if a list has one.
Segments == Seq(Everything) \ ({<<>>} \ UNION {ToSet(Text[m]) : m \in Lists})

\* Every variable holds a value of its type.
TypeOK ==
  /\ mClose \in BOOLEAN /\ writing \in BOOLEAN /\ added \in BOOLEAN
  /\ ready \in BOOLEAN /\ overtaken \in BOOLEAN /\ repeated \in BOOLEAN
  /\ mIovecList \in Seq(Segments)
  /\ functions \in Seq(Messages \cup {Close})
  /\ sock \in [room : 0 .. SendRoom, nospace : BOOLEAN, in : BOOLEAN, eof : BOOLEAN, err : BOOLEAN]
  /\ inputs \in 0 .. MaxInputs
  /\ wire \in Seq(Everything) /\ accepted \in Seq(Everything)
  /\ pc \in {"wait", "events", "functions"} /\ batch \in SUBSET {"in", "out", "err"}
  /\ cb \in Seq({"message", "complete"})
  /\ sent \in SUBSET Messages /\ life \in {"alive", "terminated"}

\* Of all that Send took on nothing is lost: each byte is with the kernel or is
\* queued, through partial writes and through writes that overtake the queue.
NothingLost == ToSet(accepted) \subseteq ToSet(wire) \cup ToSet(FlattenSeq(mIovecList))

\* Once closed, a connection writes no more, whatever is queued or is sent later.
SilentOnceClosed == [][mClose => wire' = wire]_vars

\* The kernel has been given the bytes, of buffers and of lists, in the order in which
\* they were sent, each once, until a Send writes past the queue (overtaken, line 205) or
\* a writev takes more than the first segment (repeated, lines 110 to 117: a list of two
\* nodes sent alone is enough).  The second does repeat bytes, and nothing else does: what
\* was written and what is queued are then more than what was sent, for good.
InOrder ==
  /\ ~ overtaken /\ ~ repeated => IsPrefix(wire, accepted)
  /\ repeated <=> Len(wire) + Len(FlattenSeq(mIovecList)) > Len(accepted)

\* While bytes are queued the loop will hear of room for them: an edge is there, or
\* comes when the peer reads, which an edge-triggered loop may easily miss.  It is missed
\* only after a writev that took more than the first segment (repeated): the others are
\* still queued, although the buffer may have room.
NoStall ==
  /\ pc = "wait" /\ FlattenSeq(mIovecList) # <<>> /\ added /\ ~ mClose /\ ~ sock.err
  /\ ~ repeated
  => ready \/ (sock.room = 0 /\ sock.nospace)

\* What TcpConnectTest does says: when the write-complete callback is called everything
\* sent before has been written, so the connection can be closed.
CompleteMeansWritten ==
  [][cb' = <<"complete">> \o cb => ToSet(accepted') \subseteq ToSet(wire')]_vars

\* A message that is sent is written, unless the connection is closed, deleted or broken.
SentIsWritten ==
  \A m \in Messages :
    m \in sent ~>
      ToSet(FlattenSeq(Text[m])) \subseteq ToSet(wire) \/ mClose \/ ~ added \/ sock.err
=============================================================================
