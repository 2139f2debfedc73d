------------------------------- MODULE Acceptor -------------------------------
(***************************************************************************)
(* The listening socket of one Acceptor, in the epoll set and in events_   *)
(* of its loop.  Open replaces the socket: it closes the old descriptor,   *)
(* whose number the next socket is likely to get again, and registers the  *)
(* new one before it listens.  OnRead accepts until accept fails; an error *)
(* makes it delete the event and open again.                               *)
(*                                                                         *)
(* Handlers and queued tasks run on the loop's thread.  Stop may be called *)
(* by any thread at any time, also from the accept callback; Start as well *)
(* but from the callback, on the thread of the loop, it opens on the spot. *)
(***************************************************************************)
EXTENDS Integers

CONSTANTS
  Fds,          \* the descriptors the process may have
  MaxClients,   \* bound on the connections that arrive
  MaxStarts,    \* bound on the calls of Start
  MaxFailures   \* bound on the system calls that fail

ASSUME AcceptorAssumption ==
  /\ Fds \subseteq Nat \ {0}
  /\ {MaxClients, MaxStarts, MaxFailures} \subseteq Nat

Closed == -1
Null == 0

VARIABLES
  fd,           \* event_read_fd_
  socketOpt,    \* the descriptor in *mSocketOpt, or Null
  events,       \* the keys under which events_ has the acceptor
  functions,    \* queued tasks of Start
  pc,           \* "wait", what epoll reported of fd ("err", "hup" or "in"), inside
                \* OnRead "accept" or "callback", inside OnClose "stop" or "open"
  port,         \* the socket: "closed", listens "here" or "elsewhere"
  queue,        \* connections it has not been asked for
  err,          \* it has an error to report
  epoll,        \* the epoll set
  ready,        \* fd is in the ready list
  conns,        \* descriptors handed to the callback and not closed
  clients, starts, failures,  \* how often, for the bounds
  wanted,       \* history: Start was called after the last Stop
  doubled,      \* history: opened again without having been stopped
  interrupted   \* history: accept was interrupted and no edge came since

acceptor == <<fd, socketOpt, events>>
kernel == <<port, queue, err, epoll, ready>>
vars == <<acceptor, functions, pc, kernel, conns, clients, starts, failures,
          wanted, doubled, interrupted>>

Init ==
  /\ fd = Closed /\ socketOpt = Null /\ events = {}
  /\ functions = 0 /\ pc = "wait"
  /\ port = "closed" /\ queue = 0 /\ err = FALSE /\ epoll = {} /\ ready = FALSE
  /\ conns = {}
  /\ clients = 0 /\ starts = 0 /\ failures = 0
  /\ wanted = FALSE /\ doubled = FALSE /\ interrupted = FALSE

\* A system call fails that need not.
Fails == failures < MaxFailures /\ failures' = failures + 1

-----------------------------------------------------------------------------
(* The network and the other users of descriptors, external.               *)

ClientConnects ==
  /\ port = "here"
  /\ clients < MaxClients /\ clients' = clients + 1
  /\ queue' = queue + 1
  /\ ready' = (fd \in epoll)
  /\ interrupted' = FALSE
  /\ UNCHANGED <<acceptor, functions, pc, port, err, epoll, conns, starts, failures,
                 wanted, doubled>>

SocketBreaks ==
  /\ port # "closed" /\ ~ err
  /\ Fails
  /\ err' = TRUE
  /\ ready' = (fd \in epoll)
  /\ UNCHANGED <<acceptor, functions, pc, port, queue, epoll, conns, clients, starts,
                 wanted, doubled, interrupted>>

ConnectionCloses ==
  /\ \E c \in conns : conns' = conns \ {c}
  /\ UNCHANGED <<acceptor, functions, pc, kernel, clients, starts, failures, wanted,
                 doubled, interrupted>>

-----------------------------------------------------------------------------
(* Open and Stop.                                                          *)

\* EventLoop::AddEvent, after the descriptor fd has been closed, which takes it out of
\* the epoll set: nothing is done for a key that is there.  epoll_ctl looks at the
\* socket, which does not listen yet, and has a hang-up to report.
AddEvent(f) ==
  /\ events' = events \cup {f}
  /\ epoll' = (epoll \ {fd}) \cup (IF f \in events THEN {} ELSE {f} \ {Closed})
  /\ ready' = (f \in epoll')

\* CreateNonblockingTcpSocket, with the old descriptor closed: any number but those of
\* the connections may be the new one, or there is none.
Sockets == (Fds \ conns) \cup {Closed}

\* BindAddress and Listen, of which nobody looks at what they return.  A socket that
\* could not be bound listens on a port of the kernel's choice.
Ports(f) == IF f = Closed THEN {"closed"} ELSE {"here", "elsewhere", "closed"}

\* A Stop that comes in the middle is as one that comes before or after, for an acceptor
\* that is not registered when Open is called.
Open ==
  \E f \in Sockets : \E p \in Ports(f) :
    /\ failures' = IF p = "here" \/ Fds \subseteq conns THEN failures ELSE failures + 1
    /\ failures' <= MaxFailures
    /\ fd' = f /\ socketOpt' = f
    /\ AddEvent(f)
    /\ port' = p
    /\ queue' = 0 /\ err' = FALSE /\ interrupted' = FALSE

\* EventLoop::DelEvent.
DelEvent ==
  /\ events' = events \ {fd}
  /\ epoll' = IF fd \in events THEN epoll \ {fd} ELSE epoll
  /\ ready' = (ready /\ fd \in epoll')

Start ==
  /\ starts < MaxStarts /\ starts' = starts + 1
  /\ functions' = functions + 1
  /\ wanted' = TRUE
  /\ UNCHANGED <<acceptor, pc, kernel, conns, clients, failures, doubled, interrupted>>

Stop ==
  /\ DelEvent
  /\ wanted' = FALSE
  /\ UNCHANGED <<fd, socketOpt, functions, pc, port, queue, err, conns, clients, starts,
                 failures, doubled, interrupted>>

-----------------------------------------------------------------------------
(* The loop's thread.                                                      *)

\* What epoll has to report of fd: first an error, then the hang-up of a socket that
\* does not listen, then connections.
Report ==
  CASE err -> "err"
    [] ~ err /\ port = "closed" -> "hup"
    [] ~ err /\ port # "closed" /\ queue > 0 -> "in"
    [] OTHER -> "wait"

EpollWait ==
  /\ pc = "wait" /\ ready
  /\ pc' = Report
  /\ ready' = FALSE
  /\ UNCHANGED <<acceptor, functions, port, queue, err, epoll, conns, clients, starts,
                 failures, wanted, doubled, interrupted>>

\* events_.find fails, as the event has been deleted meanwhile.
NotFound ==
  /\ pc \in {"err", "hup", "in"} /\ pc' = "wait"
  /\ fd \notin events
  /\ UNCHANGED <<acceptor, functions, kernel, conns, clients, starts, failures, wanted,
                 doubled, interrupted>>

\* Mutant: the handlers are called whether the event is found or not.
MutantFound ==
  /\ pc \in {"err", "hup"} /\ pc' = "stop"
  /\ UNCHANGED <<acceptor, functions, kernel, conns, clients, starts, failures, wanted,
                 doubled, interrupted>>

\* Mutant: a hang-up is not handled.
MutantNoHangUp ==
  /\ pc \in {"err", "hup"} /\ pc' = IF pc = "err" THEN "stop" ELSE "wait"
  /\ fd \in events
  /\ UNCHANGED <<acceptor, functions, kernel, conns, clients, starts, failures, wanted,
                 doubled, interrupted>>

\* EPOLLERR or EPOLLHUP: the event is found, OnError or OnClose is called.
Found ==
  /\ pc \in {"err", "hup"} /\ pc' = "stop"
  /\ fd \in events
  /\ UNCHANGED <<acceptor, functions, kernel, conns, clients, starts, failures, wanted,
                 doubled, interrupted>>

\* Mutant: the event is not deleted before the descriptor is closed.
MutantNoStop ==
  /\ pc = "stop" /\ pc' = "open"
  /\ UNCHANGED <<acceptor, functions, kernel, conns, clients, starts, failures, wanted,
                 doubled, interrupted>>

\* OnClose calls Stop ...
OnCloseStops ==
  /\ pc = "stop" /\ pc' = "open"
  /\ DelEvent
  /\ UNCHANGED <<fd, socketOpt, functions, port, queue, err, conns, clients, starts,
                 failures, wanted, doubled, interrupted>>

\* ... and Open, whatever other threads have called between.
OnCloseOpens ==
  /\ pc = "open" /\ pc' = "wait"
  /\ Open
  /\ UNCHANGED <<functions, conns, clients, starts, wanted, doubled>>

OnRead ==
  /\ pc = "in" /\ fd \in events
  /\ pc' = IF socketOpt = Null THEN "wait" ELSE "accept"
  /\ UNCHANGED <<acceptor, functions, kernel, conns, clients, starts, failures, wanted,
                 doubled, interrupted>>

\* accept4 reserves a descriptor before it looks at the queue.
Free == Fds \ (conns \cup {fd})
Broken == Free = {} \/ err \/ port = "closed" \/ socketOpt # fd

\* Mutant: the descriptor that is handed out is that of the listening socket.
MutantHandsOver ==
  /\ pc = "accept" /\ pc' = "callback"
  /\ ~ Broken /\ queue > 0
  /\ queue' = queue - 1
  /\ conns' = conns \cup {socketOpt}
  /\ UNCHANGED <<acceptor, functions, port, err, epoll, ready, clients, starts,
                 failures, wanted, doubled, interrupted>>

\* Mutant: one connection is accepted for each report.
MutantOnce ==
  /\ pc = "accept" /\ ~ Broken /\ queue > 0
  /\ queue' = queue - 1
  /\ conns' \in {conns \cup {f} : f \in Free}
  /\ pc' = "wait"
  /\ UNCHANGED <<acceptor, functions, port, err, epoll, ready, clients, starts,
                 failures, wanted, doubled, interrupted>>

\* A connection, which the callback is given.
Accept ==
  /\ pc = "accept" /\ pc' = "callback"
  /\ ~ Broken /\ queue > 0
  /\ queue' = queue - 1
  /\ conns' \in {conns \cup {f} : f \in Free}
  /\ UNCHANGED <<acceptor, functions, port, err, epoll, ready, clients, starts,
                 failures, wanted, doubled, interrupted>>

\* The callback calls Start, which is on the thread of the loop ...
StartOnTheSpot ==
  /\ pc = "callback"
  /\ starts < MaxStarts /\ starts' = starts + 1
  /\ wanted' = TRUE /\ doubled' = (doubled \/ events # {})
  /\ Open
  /\ UNCHANGED <<functions, pc, conns, clients>>

\* ... or returns.
CallbackReturns ==
  /\ pc = "callback" /\ pc' = "accept"
  /\ UNCHANGED <<acceptor, functions, kernel, conns, clients, starts, failures, wanted,
                 doubled, interrupted>>

\* EAGAIN, or EINTR.
AcceptEnds ==
  /\ pc = "accept" /\ pc' = "wait"
  /\ \/ ~ Broken /\ queue = 0 /\ UNCHANGED <<failures, interrupted>>
     \/ Fails /\ interrupted' = (queue > 0 /\ ~ ready)
  /\ UNCHANGED <<acceptor, functions, kernel, conns, clients, starts, wanted, doubled>>

\* An error, after which OnClose is called.
AcceptFails ==
  /\ pc = "accept" /\ pc' = "stop"
  /\ Broken
  /\ UNCHANGED <<acceptor, functions, kernel, conns, clients, starts, failures, wanted,
                 doubled, interrupted>>

\* The task that Start has queued.
RunFunctions ==
  /\ pc = "wait" /\ functions > 0
  /\ functions' = functions - 1
  /\ doubled' = (doubled \/ events # {})
  /\ Open
  /\ UNCHANGED <<pc, conns, clients, starts, wanted>>

Handling == \/ NotFound \/ Found \/ OnCloseStops \/ OnCloseOpens
            \/ OnRead \/ Accept \/ CallbackReturns \/ AcceptEnds \/ AcceptFails

Next ==
  \/ ClientConnects \/ SocketBreaks \/ ConnectionCloses
  \/ Start \/ Stop \/ StartOnTheSpot
  \/ EpollWait \/ Handling \/ RunFunctions

Spec == Init /\ [][Next]_vars

(* The loop goes round: epoll_wait returns what is ready, or after a second *)
(* nothing, handlers and callbacks run to their end, and queued tasks are   *)
(* executed.                                                                *)
FairSpec == Spec /\ WF_vars(EpollWait) /\ WF_vars(Handling) /\ WF_vars(RunFunctions)
-----------------------------------------------------------------------------
(* Properties.                                                             *)

\* Every variable holds a value of its type, and the descriptor of the listening
\* socket has not been handed out as that of a connection.
TypeOK ==
  /\ fd \in Fds \cup {Closed} /\ fd \notin conns
  /\ socketOpt \in Fds \cup {Closed, Null}
  /\ events \subseteq Fds \cup {Closed} /\ epoll \subseteq Fds
  /\ functions \in 0 .. MaxStarts
  /\ pc \in {"wait", "err", "hup", "in", "accept", "callback", "stop", "open"}
  /\ port \in {"closed", "here", "elsewhere"} /\ queue \in 0 .. MaxClients
  /\ err \in BOOLEAN /\ ready \in BOOLEAN
  /\ wanted \in BOOLEAN /\ doubled \in BOOLEAN /\ interrupted \in BOOLEAN
  /\ conns \subseteq Fds
  /\ clients \in 0 .. MaxClients /\ starts \in 0 .. MaxStarts /\ failures \in 0 .. MaxFailures

\* However often errors make the acceptor replace its socket, events_ has it under the
\* descriptor it has now and no other (AddEvent would ignore a connection that is given
\* a number left behind), the epoll set has what events_ has, and accept is called on
\* that descriptor.  Start must not be called for one that is registered.
OneListener ==
  ~ doubled => /\ events \subseteq {fd}
               /\ epoll = events \ {Closed}
               /\ socketOpt \in {Null, fd}

\* When the loop is about to sleep with connections waiting for a registered socket,
\* an edge is coming, unless accept was interrupted by a signal: OnRead then returns
\* with connections left and nothing to tell of them.
NoConnectionLeft ==
  pc = "wait" /\ queue > 0 /\ fd \in epoll /\ ~ interrupted => ready

\* The handlers that may open the acceptor are under way.
InHandler == pc \in {"accept", "callback", "stop", "open"}

\* An acceptor that was stopped is not registered again and no handler of it is called,
\* also if an event of it has been reported already.  The exceptions are a Start that is
\* still queued, and a Stop, of another thread or of the accept callback, that comes while
\* a handler is under way: OnError and OnClose open again whatever came between their own
\* Stop and Open, and so does OnRead if an accept fails after it.
StaysStopped ==
  [][~ wanted /\ events = {} /\ functions = 0 /\ ~ InHandler =>
       events' = {} /\ ~ InHandler']_vars

\* A registered socket that does not listen is replaced, and its connections are
\* accepted or refused, by handlers that run only when something is reported.
Serves ==
  /\ (fd \in epoll /\ port = "closed") ~> (port # "closed" \/ fd \notin epoll)
  /\ (fd \in epoll /\ queue > 0) ~> (queue = 0 \/ interrupted \/ fd \notin epoll)
=============================================================================
