---------------------------- MODULE AcceptorProofs ----------------------------
(***************************************************************************)
(* Acceptor, for any descriptors, and any number of clients, calls and     *)
(* failures.                                                               *)
(***************************************************************************)
EXTENDS Acceptor, TLAPS

(***************************************************************************)
(* The types, with what the bounds rest on: connections have come from     *)
(* clients, queued tasks from calls of Start.                              *)
(***************************************************************************)
TypeInv == TypeOK /\ queue <= clients /\ functions <= starts

(***************************************************************************)
(* The epoll set has the socket that the acceptor has now and no other,    *)
(* and only one that events_ has too.  A socket object is missing only     *)
(* before the first Open.  Between the Stop and the Open of OnClose        *)
(* nothing is registered, unless the acceptor was opened twice.            *)
(***************************************************************************)
Registered ==
  /\ epoll \subseteq {fd}
  /\ epoll \subseteq events
  /\ socketOpt = Null => events = {}
  /\ pc = "open" => fd \notin events

IInv == TypeInv /\ Registered /\ OneListener /\ NoConnectionLeft

LEMMA InitIInv == Init => IInv
<1> SUFFICES ASSUME Init PROVE IInv
  OBVIOUS
<1>1. /\ functions \in 0 .. MaxStarts /\ queue \in 0 .. MaxClients
      /\ clients \in 0 .. MaxClients /\ starts \in 0 .. MaxStarts
      /\ failures \in 0 .. MaxFailures
      /\ queue <= clients /\ functions <= starts
  BY AcceptorAssumption, SMT DEF Init
<1>2. TypeInv
  BY <1>1 DEF Init, TypeInv, TypeOK
<1>3. Registered /\ OneListener
  BY DEF Init, Registered, OneListener
<1>4. NoConnectionLeft
  BY DEF Init, NoConnectionLeft
<1> QED BY <1>2, <1>3, <1>4 DEF IInv

\* What Open leaves: the old descriptor is gone from the epoll set, the new one is in
\* events_.
LEMMA Opens ==
  ASSUME TypeInv, Registered, Open
  PROVE  /\ fd' \in (Fds \ conns) \cup {Closed} /\ socketOpt' = fd' /\ socketOpt' # Null
         /\ events' = events \cup {fd'}
         /\ epoll' \subseteq {fd'} \ {Closed} /\ epoll' \subseteq Fds
         /\ events = {} => epoll' = {fd'} \ {Closed}
         /\ port' \in {"closed", "here", "elsewhere"} /\ ready' \in BOOLEAN
         /\ queue' = 0 /\ err' = FALSE /\ interrupted' = FALSE
         /\ failures' \in 0 .. MaxFailures
<1>1. PICK f \in Sockets, p \in {"here", "elsewhere", "closed"} :
        /\ failures' = IF p = "here" \/ Fds \subseteq conns THEN failures ELSE failures + 1
        /\ failures' <= MaxFailures
        /\ fd' = f /\ socketOpt' = f
        /\ AddEvent(f)
        /\ port' = p
        /\ queue' = 0 /\ err' = FALSE /\ interrupted' = FALSE
  BY DEF Open, Ports
<1>2. f \in (Fds \ conns) \cup {Closed} /\ f # Null
  BY AcceptorAssumption, SMT DEF Sockets, Closed, Null
<1>3. epoll \ {fd} = {}
  BY DEF Registered
<1>4. /\ events' = events \cup {f}
      /\ epoll' = IF f \in events THEN {} ELSE {f} \ {Closed}
      /\ ready' \in BOOLEAN
  BY <1>1, <1>3 DEF AddEvent
<1>5. failures' \in 0 .. MaxFailures
  BY <1>1, AcceptorAssumption, SMT DEF TypeInv, TypeOK
<1> QED BY <1>1, <1>2, <1>4, <1>5

\* Opening keeps the invariant, from any step of the loop's thread, if nothing is
\* registered or it is noted that something was.
LEMMA OpenIInv ==
  ASSUME IInv, Open, events = {} \/ doubled',
         pc' \in {"wait", "callback"}, doubled' \in BOOLEAN, wanted' \in BOOLEAN,
         functions' \in Nat, functions' <= functions,
         starts' \in 0 .. MaxStarts, starts <= starts',
         UNCHANGED <<conns, clients>>
  PROVE  IInv'
<1>1. TypeInv /\ TypeOK /\ Registered /\ functions <= starts BY DEF IInv, TypeInv
<1>2. /\ fd' \in (Fds \ conns) \cup {Closed} /\ socketOpt' = fd' /\ socketOpt' # Null
      /\ events' = events \cup {fd'}
      /\ epoll' \subseteq {fd'} \ {Closed} /\ epoll' \subseteq Fds
      /\ events = {} => epoll' = {fd'} \ {Closed}
      /\ port' \in {"closed", "here", "elsewhere"} /\ ready' \in BOOLEAN
      /\ queue' = 0 /\ err' = FALSE /\ interrupted' = FALSE
      /\ failures' \in 0 .. MaxFailures
  BY <1>1, Opens
<1>3. Closed \notin Fds
  BY AcceptorAssumption, SMT DEF Closed
<1>4. TypeInv'
  <2>1. /\ functions' \in 0 .. MaxStarts /\ functions' <= starts'
        /\ queue' \in 0 .. MaxClients /\ queue' <= clients'
    BY <1>1, <1>2, AcceptorAssumption, SMT DEF TypeOK
  <2>2. fd' \in Fds \cup {Closed} /\ fd' \notin conns'
    BY <1>1, <1>2, <1>3 DEF TypeOK
  <2>3. events' \subseteq Fds \cup {Closed}
    BY <1>1, <1>2, <2>2 DEF TypeOK
  <2> QED BY <1>1, <1>2, <2>1, <2>2, <2>3 DEF TypeInv, TypeOK
<1>5. Registered' /\ NoConnectionLeft'
  BY <1>2, SMT DEF Registered, NoConnectionLeft
<1>6. OneListener'
  <2>1. CASE doubled' BY <2>1 DEF OneListener
  <2>2. CASE events = {} BY <1>2, <2>2 DEF OneListener
  <2> QED BY <2>1, <2>2
<1> QED BY <1>4, <1>5, <1>6 DEF IInv

\* DelEvent deletes in both sets at once.
LEMMA DelEventIInv ==
  ASSUME IInv, DelEvent, wanted' \in BOOLEAN,
         pc' = pc \/ (pc' = "open" /\ pc = "stop"),
         UNCHANGED <<fd, socketOpt, functions, port, queue, err, conns, clients, starts,
                     failures, doubled, interrupted>>
  PROVE  IInv'
<1>1. events' \subseteq events /\ epoll' \subseteq epoll /\ ready' \in BOOLEAN
      /\ fd \notin events'
  BY DEF DelEvent, IInv, TypeInv, TypeOK
<1>2. TypeInv'
  BY <1>1 DEF IInv, TypeInv, TypeOK
<1>3. Registered'
  BY <1>1 DEF DelEvent, IInv, Registered
<1>4. OneListener'
  BY DEF DelEvent, IInv, Registered, OneListener
<1>5. NoConnectionLeft'
  BY DEF DelEvent, IInv, NoConnectionLeft
<1> QED BY <1>2, <1>3, <1>4, <1>5 DEF IInv

-----------------------------------------------------------------------------
(* One step each.                                                          *)

\* The network, and the owners of connections, disturb nothing.
LEMMA OutsideIInv ==
  IInv /\ (ClientConnects \/ SocketBreaks \/ ConnectionCloses \/ Start) => IInv'
<1> SUFFICES ASSUME IInv, ClientConnects \/ SocketBreaks \/ ConnectionCloses \/ Start
             PROVE  IInv'
  OBVIOUS
<1> USE AcceptorAssumption DEF IInv, TypeInv, acceptor, kernel
<1>1. CASE ClientConnects
  <2>1. queue' \in 0 .. MaxClients /\ clients' \in 0 .. MaxClients /\ queue' <= clients'
    BY <1>1, SMT DEF ClientConnects, TypeOK
  <2>0. ready' \in BOOLEAN BY <1>1 DEF ClientConnects
  <2>2. TypeInv' BY <1>1, <2>0, <2>1 DEF ClientConnects, TypeOK
  <2>3. (Registered /\ OneListener)' BY <1>1 DEF ClientConnects, Registered, OneListener
  <2>4. NoConnectionLeft' BY <1>1 DEF ClientConnects, NoConnectionLeft
  <2> QED BY <2>2, <2>3, <2>4
<1>2. CASE SocketBreaks
  <2>1. failures' \in 0 .. MaxFailures
    BY <1>2, SMT DEF SocketBreaks, Fails, TypeOK
  <2>0. ready' \in BOOLEAN BY <1>2 DEF SocketBreaks
  <2>2. TypeInv' BY <1>2, <2>0, <2>1 DEF SocketBreaks, TypeOK
  <2>3. (Registered /\ OneListener)' BY <1>2 DEF SocketBreaks, Registered, OneListener
  <2>4. NoConnectionLeft' BY <1>2 DEF SocketBreaks, NoConnectionLeft
  <2> QED BY <2>2, <2>3, <2>4
<1>3. CASE ConnectionCloses
  <2>1. conns' \subseteq conns BY <1>3 DEF ConnectionCloses
  <2>2. TypeInv' BY <1>3, <2>1 DEF ConnectionCloses, TypeOK
  <2>3. (Registered /\ OneListener)' BY <1>3 DEF ConnectionCloses, Registered, OneListener
  <2>4. NoConnectionLeft' BY <1>3 DEF ConnectionCloses, NoConnectionLeft
  <2> QED BY <2>2, <2>3, <2>4
<1>4. CASE Start
  <2>1. /\ functions' \in 0 .. MaxStarts /\ starts' \in 0 .. MaxStarts
        /\ functions' <= starts'
    BY <1>4, SMT DEF Start, TypeOK
  <2>2. TypeInv' BY <1>4, <2>1 DEF Start, TypeOK
  <2>3. (Registered /\ OneListener)' BY <1>4 DEF Start, Registered, OneListener
  <2>4. NoConnectionLeft' BY <1>4 DEF Start, NoConnectionLeft
  <2> QED BY <2>2, <2>3, <2>4
<1> QED BY <1>1, <1>2, <1>3, <1>4

LEMMA StopIInv == IInv /\ Stop => IInv'
BY DelEventIInv DEF Stop

\* When epoll_wait is entered again with nothing reported, there was nothing in the queue.
LEMMA EpollWaitIInv == IInv /\ EpollWait => IInv'
<1> SUFFICES ASSUME IInv, EpollWait PROVE IInv'
  OBVIOUS
<1>1. pc' \in {"wait", "err", "hup", "in"} /\ (pc' = "wait" => ~ (queue > 0))
  BY DEF EpollWait, Report, IInv, TypeInv, TypeOK
<1>2. TypeInv'
  BY <1>1 DEF EpollWait, acceptor, IInv, TypeInv, TypeOK
<1>3. (Registered /\ OneListener)'
  BY <1>1 DEF EpollWait, acceptor, IInv, Registered, OneListener
<1>4. NoConnectionLeft'
  BY <1>1 DEF EpollWait, acceptor, NoConnectionLeft
<1> QED BY <1>2, <1>3, <1>4 DEF IInv

\* A handler leaves an edge, an empty queue, a deleted event or an interrupted accept.
LEMMA HandlingIInv == IInv /\ Handling => IInv'
<1> SUFFICES ASSUME IInv, Handling PROVE IInv'
  OBVIOUS
<1> USE DEF acceptor, kernel
<1>1. CASE NotFound
  <2>1. TypeInv' BY <1>1 DEF NotFound, IInv, TypeInv, TypeOK
  <2>2. (Registered /\ OneListener)' BY <1>1 DEF NotFound, IInv, Registered, OneListener
  <2>3. NoConnectionLeft' BY <1>1 DEF NotFound, IInv, Registered, NoConnectionLeft
  <2> QED BY <2>1, <2>2, <2>3 DEF IInv
<1>2. CASE Found
  <2>1. TypeInv' BY <1>2 DEF Found, IInv, TypeInv, TypeOK
  <2>2. (Registered /\ OneListener)' BY <1>2 DEF Found, IInv, Registered, OneListener
  <2>3. NoConnectionLeft' BY <1>2 DEF Found, NoConnectionLeft
  <2> QED BY <2>1, <2>2, <2>3 DEF IInv
<1>3. CASE OnRead
  <2>1. TypeInv' BY <1>3 DEF OnRead, IInv, TypeInv, TypeOK
  <2>2. (Registered /\ OneListener)' BY <1>3 DEF OnRead, IInv, Registered, OneListener
  <2>3. pc' = "accept" BY <1>3 DEF OnRead, IInv, Registered
  <2>4. NoConnectionLeft' BY <2>3 DEF NoConnectionLeft
  <2> QED BY <2>1, <2>2, <2>4 DEF IInv
<1>4. CASE Accept
  <2>1. queue' \in 0 .. MaxClients /\ queue' <= clients
    BY <1>4, AcceptorAssumption, SMT DEF Accept, IInv, TypeInv, TypeOK
  <2>2. conns' \subseteq Fds /\ fd \notin conns'
    BY <1>4 DEF Accept, Free, IInv, TypeInv, TypeOK
  <2>3. TypeInv' BY <1>4, <2>1, <2>2 DEF Accept, IInv, TypeInv, TypeOK
  <2>4. (Registered /\ OneListener)' BY <1>4 DEF Accept, IInv, Registered, OneListener
  <2>5. NoConnectionLeft' BY <1>4 DEF Accept, NoConnectionLeft
  <2> QED BY <2>3, <2>4, <2>5 DEF IInv
<1>5. CASE AcceptEnds
  <2>1. failures' \in 0 .. MaxFailures
    BY <1>5, AcceptorAssumption, SMT DEF AcceptEnds, Fails, IInv, TypeInv, TypeOK
  <2>a. queue = 0 => ~ (queue > 0)
    BY SMT
  <2>2. interrupted' \in BOOLEAN /\ (~ interrupted' /\ queue > 0 => ready)
    BY <1>5, <2>a DEF AcceptEnds, IInv, TypeInv, TypeOK
  <2>3. TypeInv' BY <1>5, <2>1, <2>2 DEF AcceptEnds, IInv, TypeInv, TypeOK
  <2>4. (Registered /\ OneListener)' BY <1>5 DEF AcceptEnds, IInv, Registered, OneListener
  <2>5. NoConnectionLeft' BY <1>5, <2>2 DEF AcceptEnds, NoConnectionLeft
  <2> QED BY <2>3, <2>4, <2>5 DEF IInv
<1>6. CASE AcceptFails
  <2>1. TypeInv' BY <1>6 DEF AcceptFails, IInv, TypeInv, TypeOK
  <2>2. (Registered /\ OneListener)' BY <1>6 DEF AcceptFails, IInv, Registered, OneListener
  <2>3. NoConnectionLeft' BY <1>6 DEF AcceptFails, NoConnectionLeft
  <2> QED BY <2>1, <2>2, <2>3 DEF IInv
<1>7. CASE CallbackReturns
  <2>1. TypeInv' BY <1>7 DEF CallbackReturns, IInv, TypeInv, TypeOK
  <2>2. (Registered /\ OneListener)'
    BY <1>7 DEF CallbackReturns, IInv, Registered, OneListener
  <2>3. NoConnectionLeft' BY <1>7 DEF CallbackReturns, NoConnectionLeft
  <2> QED BY <2>1, <2>2, <2>3 DEF IInv
<1>8. CASE OnCloseStops
  <2>1. wanted' \in BOOLEAN BY <1>8 DEF OnCloseStops, IInv, TypeInv, TypeOK
  <2> QED BY <1>8, <2>1, DelEventIInv DEF OnCloseStops
<1>9. CASE OnCloseOpens
  <2>1. events = {} \/ doubled'
    BY <1>9 DEF OnCloseOpens, IInv, Registered, OneListener
  <2>2. /\ doubled' \in BOOLEAN /\ wanted' \in BOOLEAN
        /\ functions' \in Nat /\ functions' <= functions
        /\ starts' \in 0 .. MaxStarts /\ starts <= starts'
    BY <1>9, AcceptorAssumption, SMT DEF OnCloseOpens, IInv, TypeInv, TypeOK
  <2> QED BY <1>9, <2>1, <2>2, OpenIInv DEF OnCloseOpens
<1> QED BY <1>1, <1>2, <1>3, <1>4, <1>5, <1>6, <1>7, <1>8, <1>9 DEF Handling

\* Open, from a queued task or from the accept callback.
LEMMA StartedIInv == IInv /\ (RunFunctions \/ StartOnTheSpot) => IInv'
<1> SUFFICES ASSUME IInv, RunFunctions \/ StartOnTheSpot PROVE IInv'
  OBVIOUS
<1>1. /\ Open /\ pc' \in {"wait", "callback"}
      /\ UNCHANGED <<conns, clients>>
  BY DEF RunFunctions, StartOnTheSpot
<1>2. (events = {} \/ doubled') /\ doubled' \in BOOLEAN
  BY DEF RunFunctions, StartOnTheSpot, IInv, TypeInv, TypeOK
<1>3. wanted' \in BOOLEAN
  BY DEF RunFunctions, StartOnTheSpot, IInv, TypeInv, TypeOK
<1>4. functions' \in Nat /\ functions' <= functions
  BY AcceptorAssumption, SMT DEF RunFunctions, StartOnTheSpot, IInv, TypeInv, TypeOK
<1>5. starts' \in 0 .. MaxStarts /\ starts <= starts'
  BY AcceptorAssumption, SMT DEF RunFunctions, StartOnTheSpot, IInv, TypeInv, TypeOK
<1> QED BY <1>1, <1>2, <1>3, <1>4, <1>5, OpenIInv

LEMMA NextIInv == IInv /\ [Next]_vars => IInv'
<1> SUFFICES ASSUME IInv, [Next]_vars PROVE IInv'
  OBVIOUS
<1>1. CASE UNCHANGED vars
  BY <1>1 DEF vars, acceptor, kernel, IInv, TypeInv, TypeOK, Registered, OneListener,
              NoConnectionLeft
<1> QED BY <1>1, OutsideIInv, StopIInv, EpollWaitIInv, HandlingIInv, StartedIInv DEF Next

LEMMA Invariance == Spec => []IInv
<1>1. Init => IInv BY InitIInv
<1>2. IInv /\ [Next]_vars => IInv' BY NextIInv
<1> QED BY <1>1, <1>2, PTL DEF Spec

-----------------------------------------------------------------------------
\* Every variable of Acceptor keeps its type; no connection is given the descriptor of
\* the listening socket.
THEOREM AcceptorTypeCorrect == Spec => []TypeOK
BY Invariance, PTL DEF IInv, TypeInv

\* However often errors make the acceptor replace its socket, it is registered under
\* the one it has, as long as Start is not called for one that is registered.
THEOREM ListenerIsOne == Spec => []OneListener
BY Invariance, PTL DEF IInv

\* The loop does not sleep on connections that wait, without an edge to come, unless a
\* signal interrupted accept.
THEOREM ConnectionsNotLeft == Spec => []NoConnectionLeft
BY Invariance, PTL DEF IInv

\* An acceptor that was stopped while no handler that opens it was under way stays
\* deregistered, and none of these handlers is called, until Start is: also if an error or
\* a hang-up had been reported, and Stop came from another thread before the handler.
THEOREM StoppedStays == Spec => StaysStopped
<1>1. [Next]_vars =>
        [~ wanted /\ events = {} /\ functions = 0 /\ ~ InHandler =>
           events' = {} /\ ~ InHandler']_vars
  <2> SUFFICES ASSUME Next, events = {}, functions = 0, ~ InHandler
               PROVE  events' = {} /\ ~ InHandler'
    BY DEF vars, acceptor, InHandler
  <2>1. /\ ~ Found /\ ~ OnRead /\ ~ OnCloseStops /\ ~ OnCloseOpens /\ ~ Accept
        /\ ~ CallbackReturns /\ ~ AcceptEnds /\ ~ AcceptFails /\ ~ RunFunctions
        /\ ~ StartOnTheSpot
    BY DEF InHandler, Found, OnRead, OnCloseStops, OnCloseOpens, Accept, CallbackReturns,
           AcceptEnds, AcceptFails, RunFunctions, StartOnTheSpot
  <2>2. CASE EpollWait
    <3>1. events' = {} /\ pc' = Report BY <2>2 DEF EpollWait, acceptor
    <3>2. Report \in {"err", "hup", "in", "wait"} BY DEF Report
    <3> QED BY <3>1, <3>2 DEF InHandler
  <2>3. CASE Stop
    BY <2>3 DEF Stop, DelEvent, InHandler
  <2>4. CASE NotFound
    BY <2>4 DEF NotFound, acceptor, InHandler
  <2>5. CASE ClientConnects \/ SocketBreaks \/ ConnectionCloses \/ Start
    BY <2>5 DEF ClientConnects, SocketBreaks, ConnectionCloses, Start, acceptor, InHandler
  <2> QED BY <2>1, <2>2, <2>3, <2>4, <2>5 DEF Next, Handling
<1> QED BY <1>1, PTL DEF Spec, StaysStopped
=============================================================================
