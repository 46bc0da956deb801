---------------------------- MODULE SocketProofs ----------------------------
(***************************************************************************)
(* Proofs about the sockets, for any number of threads, ports, sockets and *)
(* pipes: who owns a port, that connected sockets are each other's peers   *)
(* over crossed pipes, and that nothing freed is used.                     *)
(***************************************************************************)
EXTENDS Socket, QueueLemmas, FiniteSetTheorems

-----------------------------------------------------------------------------
(* The inductive invariant.                                                *)

\* InUse, without the set of the readers.
Used(s) ==
  s \in open \/ \E t \in Thread : call[t].op = "read" /\ call[t].on = s

\* Only a peer has a peer and pipes.
FieldInv ==
  \A s \in SCB :
    /\ scb[s].port \in Port
    /\ scb[s].type # "peer" =>
         scb[s].peer = NULL /\ scb[s].read_pipe = NULL /\ scb[s].write_pipe = NULL

\* What a call that waits relies on.
CallInv ==
  \A t \in Thread :
    LET s == call[t].on
    IN  /\ call[t].op = "none" => s = NULL
        /\ call[t].op = "accept" =>
             /\ s \in SCB
             /\ \/ Port_Map[scb[s].port] = NULL
                \/ Port_Map[scb[s].port] = s /\ scb[s].refcount > 0
        /\ call[t].op = "connect" =>
             s \in open /\ scb[s].type \in {"unbound", "peer"} /\ scb[s].refcount > 0
        /\ call[t].op = "read" =>
             /\ s \in SCB /\ scb[s].type = "peer"
             /\ scb[s].read_pipe \in Pipe /\ pipe[scb[s].read_pipe].reader

\* A socket has one Accept, or one Connect, at a time.
CallerInv ==
  \A t, u \in Thread :
    /\ call[t].op \in {"accept", "connect"}
    /\ call[u].op = call[t].op /\ call[u].on = call[t].on
    => t = u

\* A request that is still queued, wherever that is, is of a socket that is open
\* and not connected, and of no other request.
RequestInv ==
  \A l \in SCB : \A i \in 1 .. Len(queue[l]) :
    /\ queue[l][i].peer \in open
    /\ scb[queue[l][i].peer].type = "unbound"
    /\ \A k \in SCB : \A j \in 1 .. Len(queue[k]) :
         queue[l][i].peer = queue[k][j].peer => l = k /\ i = j

\* A pipe has one socket that reads and one that writes, which is its peer.
PipeInv ==
  \A s, r \in SCB :
    Used(s) /\ Used(r) =>
      /\ s # r /\ scb[s].read_pipe # NULL => scb[s].read_pipe # scb[r].read_pipe
      /\ s # r /\ scb[s].write_pipe # NULL => scb[s].write_pipe # scb[r].write_pipe
      /\ scb[s].read_pipe # NULL /\ scb[s].read_pipe = scb[r].write_pipe =>
           scb[s].peer = r /\ s # r

\* Connected: the two ends know each other.
PeerInv ==
  \A s \in SCB :
    Used(s) /\ scb[s].peer # NULL =>
      LET r == scb[s].peer
      IN  /\ r \in SCB /\ Used(r) /\ r # s
          /\ scb[r].type = "peer" /\ scb[r].peer = s
          /\ \/ NULL \in {scb[s].write_pipe, scb[r].read_pipe}
             \/ scb[s].write_pipe = scb[r].read_pipe

\* NoFreedUse, of the sockets in use.
UseInv ==
  \A s \in SCB :
    Used(s) =>
      /\ scb[s].type # "freed"
      /\ scb[s].peer # NULL =>
           \A q \in {scb[s].read_pipe, scb[s].write_pipe} \ {NULL} :
             pipe[q].writer \/ pipe[q].reader

IInv ==
  /\ TypeOK
  /\ FieldInv
  /\ CallInv
  /\ CallerInv
  /\ RequestInv
  /\ PipeInv
  /\ PeerInv
  /\ UseInv
  /\ Ports

-----------------------------------------------------------------------------
(* Lemmas.                                                                 *)

SCBRecord == [type : {"freed", "unbound", "listener", "peer"},
              refcount : Nat, port : Port \cup {NULL},
              peer : SCB \cup {NULL},
              read_pipe : Pipe \cup {NULL}, write_pipe : Pipe \cup {NULL}]

CallRecord == [op : {"none", "accept", "connect", "read"},
               on : SCB \cup {NULL},
               woken : {"", "no", "signal", "timeout"},
               admitted : BOOLEAN, patient : BOOLEAN]

RequestRecord == [peer : SCB, who : Thread \cup {NULL}]

\* TypeOK, a variable at a time.
Typed ==
  /\ scb \in [SCB -> SCBRecord]
  /\ open \subseteq SCB
  /\ Port_Map \in [Port -> SCB \cup {NULL}]
  /\ queue \in [SCB -> Seq(RequestRecord)]
  /\ pipe \in [Pipe -> [writer : BOOLEAN, reader : BOOLEAN]]
  /\ call \in [Thread -> CallRecord]

LEMMA Types == (TypeOK <=> Typed) /\ (TypeOK' <=> Typed')
BY DEF TypeOK, Typed, SCBRecord, CallRecord, RequestRecord

LEMMA Fields ==
  ASSUME Typed, NEW s \in SCB
  PROVE  /\ scb[s] \in SCBRecord /\ scb[s].refcount \in Nat
         /\ scb[s].peer \in SCB \cup {NULL}
         /\ scb[s].read_pipe \in Pipe \cup {NULL}
         /\ scb[s].write_pipe \in Pipe \cup {NULL}
<1>1. scb[s] \in SCBRecord
  BY DEF Typed
<1> QED BY <1>1 DEF SCBRecord

LEMMA Callers ==
  ASSUME IInv, NEW t \in Thread
  PROVE  /\ call[t] \in CallRecord
         /\ call[t].op \in {"none", "accept", "connect", "read"}
         /\ call[t].op # "none" => call[t].on \in SCB
<1>1. call[t] \in CallRecord /\ open \subseteq SCB
  BY Types DEF Typed, IInv
<1> QED BY <1>1 DEF CallRecord, IInv, CallInv

LEMMA QueueDomain ==
  ASSUME Typed, NEW l \in SCB
  PROVE  queue[l] \in Seq(RequestRecord) /\ DOMAIN queue[l] = 1 .. Len(queue[l])
<1>1. queue[l] \in Seq(RequestRecord)
  BY DEF Typed
<1> QED BY <1>1

LEMMA UserFields == User \in CallRecord /\ User.op = "none" /\ User.on = NULL
BY DEF User, Call, CallRecord

LEMMA NullIsNoSCB == NULL \notin SCB /\ NULL \notin Pipe
BY SocketAssumption DEF SCB, Pipe

LEMMA Using ==
  /\ \A s : InUse(s) <=> Used(s)
  /\ \A s : InUse(s)' <=> Used(s)'
BY DEF InUse, Used, In

LEMMA FirstLemma ==
  ASSUME NEW T \in SUBSET Nat, T # {}
  PROVE  First(T) \in T
BY LeastNat DEF First

\* What xmalloc may return.
LEMMA Available ==
  ASSUME IInv
  PROVE  /\ \A s \in AvailableSCBs :
              /\ s \in SCB /\ s \notin open /\ ~Used(s)
              /\ \A t \in Thread : call[t].on # s
              /\ \A l \in SCB : \A i \in 1 .. Len(queue[l]) : queue[l][i].peer # s
         /\ \A q \in AvailablePipes :
              /\ q \in Pipe
              /\ \A s \in SCB : Used(s) => scb[s].read_pipe # q /\ scb[s].write_pipe # q
<1>1. \A l \in SCB : DOMAIN queue[l] = 1 .. Len(queue[l])
  BY Types, QueueDomain DEF IInv
<1>2. \A s \in SCB : Used(s) => s \notin AvailableSCBs
  BY DEF AvailableSCBs, Used
<1>3. \A s \in AvailableSCBs :
         \A l \in SCB : \A i \in 1 .. Len(queue[l]) : queue[l][i].peer # s
  BY <1>1 DEF AvailableSCBs, Requested
<1> QED BY <1>2, <1>3 DEF AvailableSCBs, AvailablePipes

\* A step that connects and disconnects nothing: a socket in use has the peer and
\* the pipes it had, or none.
LEMMA Quiet ==
  ASSUME IInv, pipe' = pipe,
         \A s \in SCB : Used(s) => Used(s)',
         \A s \in SCB : Used(s)' =>
           \/ /\ Used(s)
              /\ scb'[s].type = scb[s].type /\ scb'[s].peer = scb[s].peer
              /\ scb'[s].read_pipe = scb[s].read_pipe
              /\ scb'[s].write_pipe = scb[s].write_pipe
           \/ /\ Used(s) => scb[s].type # "peer"
              /\ scb'[s].type \in {"unbound", "listener"} /\ scb'[s].peer = NULL
              /\ scb'[s].read_pipe = NULL /\ scb'[s].write_pipe = NULL
  PROVE  PipeInv' /\ PeerInv' /\ UseInv'
<1>1. PipeInv'
  BY NullIsNoSCB DEF IInv, PipeInv
<1>2. PeerInv'
  BY NullIsNoSCB DEF IInv, PeerInv
<1>3. UseInv'
  BY NullIsNoSCB DEF IInv, UseInv
<1> QED BY <1>1, <1>2, <1>3

-----------------------------------------------------------------------------
(* The steps.                                                              *)

LEMMA SocketInit == Init => IInv
<1> SUFFICES ASSUME Init
             PROVE  IInv
  OBVIOUS
<1> DEFINE first == CHOOSE port \in Port : TRUE
<1>1. first \in Port
  BY SocketAssumption
<1> HIDE DEF first
<1>2. scb = [s \in SCB |-> Freed(first)]
  BY DEF Init, first
<1>3. \A s \in SCB :
        /\ scb[s].type = "freed" /\ scb[s].port = first /\ scb[s].peer = NULL
        /\ scb[s].read_pipe = NULL /\ scb[s].write_pipe = NULL
  BY <1>2 DEF Freed
<1>4. /\ open = {} /\ \A t \in Thread : call[t].op = "none" /\ call[t].on = NULL
      /\ \A s \in SCB : Len(queue[s]) = 0
      /\ \A port \in Port : Port_Map[port] = NULL
  BY DEF Init, User, Call
<1>5. Typed
  <2>1. scb \in [SCB -> SCBRecord]
    BY <1>1, <1>2 DEF SCBRecord, Freed
  <2>2. call \in [Thread -> CallRecord]
    BY DEF Init, User, Call, CallRecord
  <2>3. queue \in [SCB -> Seq(RequestRecord)]
    BY DEF Init
  <2> QED BY <2>1, <2>2, <2>3 DEF Init, Typed, FreedPipe
<1>6. Ports
  BY <1>1, <1>3, <1>4, NullIsNoSCB DEF Ports
<1>7. \A s \in SCB : ~Used(s)
  BY <1>4 DEF Used
<1>8. FieldInv /\ CallInv /\ CallerInv /\ RequestInv /\ PipeInv /\ PeerInv /\ UseInv
  BY <1>1, <1>3, <1>4, <1>7
  DEF FieldInv, CallInv, CallerInv, RequestInv, PipeInv, PeerInv, UseInv
<1> QED BY <1>5, <1>6, <1>8, Types DEF IInv

\* sys_Socket.
LEMMA SocketStep ==
  ASSUME IInv, NEW port \in Port, Socket(port)
  PROVE  IInv'
<1> DEFINE s == First(AvailableSCBs)
<1>1. s \in AvailableSCBs
  BY FirstLemma DEF Socket, AvailableSCBs, SCB
<1>2. /\ scb' = [scb EXCEPT ![s] = New("unbound", port)] /\ open' = open \cup {s}
      /\ Port_Map' = Port_Map /\ queue' = queue /\ pipe' = pipe /\ call' = call
  BY DEF Socket
<1>3. /\ s \in SCB /\ s \notin open /\ ~Used(s)
      /\ \A t \in Thread : call[t].on # s
      /\ \A l \in SCB : \A i \in 1 .. Len(queue[l]) : queue[l][i].peer # s
  BY <1>1, Available
<1> HIDE DEF s
<1>4. Typed
  BY Types DEF IInv
<1>5. /\ \A x \in SCB \ {s} : scb'[x] = scb[x]
      /\ scb'[s].type = "unbound" /\ scb'[s].port = port /\ scb'[s].peer = NULL
      /\ scb'[s].read_pipe = NULL /\ scb'[s].write_pipe = NULL
  BY <1>2, <1>3, <1>4 DEF Typed, New, Freed
<1>6. Typed'
  <2>1. New("unbound", port) \in SCBRecord
    BY DEF New, Freed, SCBRecord
  <2> QED BY <2>1, <1>2, <1>3, <1>4 DEF Typed
<1>7. \A x \in SCB : Used(x)' <=> Used(x) \/ x = s
  BY <1>2 DEF Used
<1>8. PipeInv' /\ PeerInv' /\ UseInv'
  BY <1>2, <1>3, <1>5, <1>7, Quiet
<1>9. FieldInv'
  BY <1>5 DEF IInv, FieldInv
<1>10. CallInv' /\ CallerInv'
  BY <1>2, <1>3, <1>4, <1>5 DEF IInv, CallInv, CallerInv, Typed
<1>11. RequestInv'
  <2>1. \A x \in open : x \in open' /\ scb'[x].type = scb[x].type
    BY <1>2, <1>3, <1>4, <1>5 DEF Typed
  <2> QED BY <2>1, <1>2 DEF IInv, RequestInv
<1>12. Ports'
  BY <1>2, <1>3, <1>5 DEF IInv, Ports
<1> QED BY <1>6, <1>8, <1>9, <1>10, <1>11, <1>12, Types DEF IInv


\* sys_Listen.
LEMMA ListenStep ==
  ASSUME IInv, NEW s \in open, Idle(s), Settled(scb[s].port), Listen(s)
  PROVE  IInv'
<1>1. /\ scb' = [scb EXCEPT ![s].type = "listener"]
      /\ Port_Map' = [Port_Map EXCEPT ![scb[s].port] = s]
      /\ queue' = [queue EXCEPT ![s] = <<>>]
      /\ open' = open /\ pipe' = pipe /\ call' = call
      /\ scb[s].type = "unbound" /\ scb[s].port \in Port /\ Port_Map[scb[s].port] = NULL
  BY DEF Listen, PortFree
<1>2. Typed
  BY Types DEF IInv
<1>3. s \in SCB
  BY <1>2 DEF Typed
<1>4. /\ \A x \in SCB \ {s} : scb'[x] = scb[x]
      /\ scb'[s] = [scb[s] EXCEPT !.type = "listener"]
      /\ scb[s] \in SCBRecord
  BY <1>1, <1>2, <1>3 DEF Typed
<1>5. /\ scb'[s].type = "listener" /\ scb'[s].port = scb[s].port
      /\ scb'[s].refcount = scb[s].refcount /\ scb'[s].peer = scb[s].peer
      /\ scb'[s].read_pipe = scb[s].read_pipe
      /\ scb'[s].write_pipe = scb[s].write_pipe
  BY <1>4 DEF SCBRecord
<1>6. /\ scb[s].peer = NULL /\ scb[s].read_pipe = NULL /\ scb[s].write_pipe = NULL
  BY <1>1, <1>3 DEF IInv, FieldInv
<1>7. /\ \A l \in SCB : \A i \in 1 .. Len(queue[l]) : queue[l][i].peer # s
      /\ \A t \in Thread : ~(call[t].op = "connect" /\ call[t].on = s)
  BY <1>2, QueueDomain DEF Idle, Requested, In
<1>8. /\ \A l \in SCB \ {s} : queue'[l] = queue[l]
      /\ Len(queue'[s]) = 0
      /\ \A port \in Port : Port_Map'[port] = IF port = scb[s].port THEN s ELSE Port_Map[port]
  BY <1>1, <1>2, <1>3 DEF Typed
<1>9. Typed'
  <2>1. scb' \in [SCB -> SCBRecord]
    <3>1. [scb[s] EXCEPT !.type = "listener"] \in SCBRecord
      BY <1>4 DEF SCBRecord
    <3> QED BY <3>1, <1>1, <1>2 DEF Typed
  <2>2. queue' \in [SCB -> Seq(RequestRecord)]
    BY <1>1, <1>2 DEF Typed
  <2> QED BY <2>1, <2>2, <1>1, <1>2, <1>3 DEF Typed
<1>10. \A x \in SCB : Used(x)' <=> Used(x)
  BY <1>1 DEF Used
<1>11. PipeInv' /\ PeerInv' /\ UseInv'
  BY <1>1, <1>4, <1>5, <1>6, <1>10, Quiet
<1>12. FieldInv'
  BY <1>4, <1>5, <1>6 DEF IInv, FieldInv
<1>13. CallInv' /\ CallerInv'
  <2>1. \A t \in Thread :
          call[t].op = "accept" => scb[call[t].on].port # scb[s].port
    BY <1>1, <1>2, NullIsNoSCB DEF Settled, IInv, CallInv, Typed
  <2>2. \A t \in Thread : call[t].op # "none" => call[t].on \in SCB
    BY Callers
  <2>3. \A t \in Thread : call[t].op # "none" => scb[call[t].on].port \in Port
    BY <2>2 DEF IInv, FieldInv
  <2> QED BY <2>1, <2>2, <2>3, <1>1, <1>4, <1>5, <1>7, <1>8 DEF IInv, CallInv, CallerInv
<1>14. RequestInv'
  <2>1. \A x \in open : x # s => x \in open' /\ scb'[x].type = scb[x].type
    BY <1>1, <1>2, <1>4 DEF Typed
  <2>2. \A k \in SCB : \A i \in 1 .. Len(queue'[k]) :
          i \in 1 .. Len(queue[k]) /\ queue'[k][i] = queue[k][i]
    BY <1>8
  <2>3. ASSUME NEW l \in SCB, NEW i \in 1 .. Len(queue'[l])
        PROVE  /\ queue'[l][i].peer \in open'
               /\ scb'[queue'[l][i].peer].type = "unbound"
    <3>1. /\ i \in 1 .. Len(queue[l]) /\ queue'[l][i] = queue[l][i]
          /\ queue[l][i].peer # s
      BY <2>2, <2>3, <1>7
    <3>2. queue[l][i].peer \in open /\ scb[queue[l][i].peer].type = "unbound"
      BY <3>1 DEF IInv, RequestInv
    <3> QED BY <3>1, <3>2, <2>1
  <2>4. ASSUME NEW l \in SCB, NEW i \in 1 .. Len(queue'[l]),
               NEW k \in SCB, NEW j \in 1 .. Len(queue'[k]),
               queue'[l][i].peer = queue'[k][j].peer
        PROVE  l = k /\ i = j
    <3>1. /\ i \in 1 .. Len(queue[l]) /\ j \in 1 .. Len(queue[k])
          /\ queue[l][i].peer = queue[k][j].peer
      BY <2>2, <2>4
    <3> QED BY <3>1 DEF IInv, RequestInv
  <2> QED BY <2>3, <2>4 DEF RequestInv
<1>15. Ports'
  BY <1>1, <1>3, <1>4, <1>5, <1>8, NullIsNoSCB DEF IInv, Ports
<1> QED BY <1>9, <1>11, <1>12, <1>13, <1>14, <1>15, Types DEF IInv

\* sys_Accept waits.
LEMMA AcceptWaitsStep ==
  ASSUME IInv, NEW t \in Thread, NEW l \in SCB, NEW refs \in Nat \ {0},
         scb[l].type # "peer", Port_Map[scb[l].port] \in {l, NULL},
         \A u \in Thread \ {t} : ~(call[u].op = "accept" /\ call[u].on = l),
         call[t].op \in {"none", "accept"}, AcceptWaits(t, l, refs)
  PROVE  IInv'
<1>1. /\ scb' = [scb EXCEPT ![l].refcount = refs]
      /\ call' = [call EXCEPT ![t] = Call("accept", l, "no")]
      /\ open' = open /\ Port_Map' = Port_Map /\ queue' = queue /\ pipe' = pipe
      /\ Port_Map[scb[l].port] = l
  BY DEF AcceptWaits
<1>2. Typed
  BY Types DEF IInv
<1>3. /\ \A x \in SCB \ {l} : scb'[x] = scb[x]
      /\ scb'[l] = [scb[l] EXCEPT !.refcount = refs]
      /\ scb[l] \in SCBRecord
  BY <1>1, <1>2 DEF Typed
<1>4. /\ scb'[l].type = scb[l].type /\ scb'[l].port = scb[l].port
      /\ scb'[l].refcount = refs /\ scb'[l].peer = scb[l].peer
      /\ scb'[l].read_pipe = scb[l].read_pipe
      /\ scb'[l].write_pipe = scb[l].write_pipe
  BY <1>3 DEF SCBRecord
<1>5. /\ \A u \in Thread \ {t} : call'[u] = call[u]
      /\ call'[t].op = "accept" /\ call'[t].on = l
  BY <1>1, <1>2 DEF Typed, Call
<1>6. Typed'
  <2>1. scb' \in [SCB -> SCBRecord]
    BY <1>1, <1>2 DEF Typed, SCBRecord
  <2>2. Call("accept", l, "no") \in CallRecord
    BY DEF Call, CallRecord
  <2> QED BY <2>1, <2>2, <1>1, <1>2 DEF Typed
<1>7. \A x \in SCB : Used(x)' <=> Used(x)
  BY <1>1, <1>5 DEF Used
<1>8. PipeInv' /\ PeerInv' /\ UseInv'
  BY <1>1, <1>3, <1>4, <1>7, Quiet
<1>9. FieldInv'
  BY <1>3, <1>4 DEF IInv, FieldInv
<1>10. CallInv' /\ CallerInv'
  <2>1. l \notin {call[u].on : u \in {v \in Thread : call[v].op = "connect"}}
    BY <1>1, <1>2 DEF IInv, CallInv, Ports, FieldInv
  <2> QED BY <2>1, <1>1, <1>3, <1>4, <1>5 DEF IInv, CallInv, CallerInv
<1>11. RequestInv'
  BY <1>1, <1>3, <1>4 DEF IInv, RequestInv
<1>12. Ports'
  BY <1>1, <1>3, <1>4 DEF IInv, Ports
<1> QED BY <1>6, <1>8, <1>9, <1>10, <1>11, <1>12, Types DEF IInv

\* sys_Accept finds the listener closed.
LEMMA AcceptRefusesStep ==
  ASSUME IInv, NEW t \in Thread, NEW l \in SCB, NEW refs \in Nat,
         refs >= scb[l].refcount,
         call[t].op \in {"none", "accept"}, AcceptRefuses(t, l, refs)
  PROVE  IInv'
<1>1. /\ scb' = [scb EXCEPT ![l].refcount = refs]
      /\ call' = [call EXCEPT ![t] = User]
      /\ open' = open /\ Port_Map' = Port_Map /\ queue' = queue /\ pipe' = pipe
  BY DEF AcceptRefuses
<1>2. Typed
  BY Types DEF IInv
<1>3. /\ \A x \in SCB \ {l} : scb'[x] = scb[x]
      /\ scb'[l] = [scb[l] EXCEPT !.refcount = refs]
      /\ scb[l] \in SCBRecord
  BY <1>1, <1>2 DEF Typed
<1>4. /\ scb'[l].type = scb[l].type /\ scb'[l].port = scb[l].port
      /\ scb'[l].refcount = refs /\ scb'[l].peer = scb[l].peer
      /\ scb'[l].read_pipe = scb[l].read_pipe
      /\ scb'[l].write_pipe = scb[l].write_pipe
      /\ scb[l].refcount \in Nat
  BY <1>3 DEF SCBRecord
<1>5. /\ \A u \in Thread \ {t} : call'[u] = call[u]
      /\ call'[t].op = "none" /\ call'[t].on = NULL
  BY <1>1, <1>2 DEF Typed, User, Call
<1>6. Typed'
  <2>1. scb' \in [SCB -> SCBRecord]
    BY <1>1, <1>2 DEF Typed, SCBRecord
  <2>2. User \in CallRecord
    BY DEF User, Call, CallRecord
  <2> QED BY <2>1, <2>2, <1>1, <1>2 DEF Typed
<1>7. \A x \in SCB : Used(x)' <=> Used(x)
  BY <1>1, <1>5 DEF Used
<1>8. PipeInv' /\ PeerInv' /\ UseInv'
  BY <1>1, <1>3, <1>4, <1>7, Quiet
<1>9. FieldInv'
  BY <1>3, <1>4 DEF IInv, FieldInv
<1>10. CallInv' /\ CallerInv'
  <2>1. \A u \in Thread : call[u].op # "none" => call[u].on \in SCB /\ scb[call[u].on].refcount \in Nat
    BY <1>2, Callers, Fields
  <2> QED BY <2>1, <1>1, <1>3, <1>4, <1>5 DEF IInv, CallInv, CallerInv
<1>11. RequestInv'
  BY <1>1, <1>3, <1>4 DEF IInv, RequestInv
<1>12. Ports'
  BY <1>1, <1>3, <1>4 DEF IInv, Ports
<1> QED BY <1>6, <1>8, <1>9, <1>10, <1>11, <1>12, Types DEF IInv

\* Two pipes that are available are two pipes.
LEMMA TwoPipes ==
  ASSUME NEW T \in SUBSET Pipe, Cardinality(T) >= 2
  PROVE  /\ First(T) \in T
         /\ First(T \ {First(T)}) \in T \ {First(T)}
<1>1. T # {}
  BY FS_EmptySet
<1>2. T \in SUBSET Nat
  BY DEF Pipe
<1>3. First(T) \in T
  BY <1>1, <1>2, FirstLemma
<1>4. T \ {First(T)} # {}
  <2>1. SUFFICES ASSUME T \ {First(T)} = {}
                 PROVE  FALSE
    OBVIOUS
  <2>2. T = {First(T)}
    BY <2>1, <1>3
  <2>3. Cardinality({First(T)}) = 1
    BY FS_Singleton
  <2> QED BY <2>2, <2>3
<1> QED BY <1>2, <1>3, <1>4, FirstLemma

\* sys_Accept serves a request.
LEMMA AcceptServesStep ==
  ASSUME IInv, NEW t \in Thread, NEW l \in SCB, NEW refs \in Nat \ {0},
         Port_Map[scb[l].port] \in {l, NULL},
         \A u \in Thread \ {t} : ~(call[u].op = "accept" /\ call[u].on = l),
         call[t].op \in {"none", "accept"}, AcceptServes(t, l, refs)
  PROVE  IInv'
<1> DEFINE request == Head(queue[l])
           scb1    == request.peer
           scb2    == First(AvailableSCBs)
           pipe1   == First(AvailablePipes)
           pipe2   == First(AvailablePipes \ {pipe1})
<1>1. /\ queue[l] # <<>> /\ Port_Map[scb[l].port] = l
      /\ queue' = [queue EXCEPT ![l] = Tail(@)]
      /\ scb' = [scb EXCEPT
           ![scb1] = [@ EXCEPT !.type = "peer", !.peer = scb2,
                               !.read_pipe = pipe2, !.write_pipe = pipe1],
           ![scb2] = [New("peer", scb[l].port) EXCEPT
                        !.peer = scb1, !.read_pipe = pipe1, !.write_pipe = pipe2],
           ![l].refcount = refs - 1]
      /\ open' = open \cup {scb2}
      /\ pipe' = [pipe EXCEPT ![pipe1] = NewPipe, ![pipe2] = NewPipe]
      /\ call' = [u \in Thread |->
           IF u = t THEN User
           ELSE IF u = request.who THEN Answered(u)
           ELSE call[u]]
      /\ Port_Map' = Port_Map
  BY DEF AcceptServes, ReadPipe
<1>2. Typed
  BY Types DEF IInv
<1>3. /\ scb2 \in SCB /\ scb2 \notin open /\ ~Used(scb2)
      /\ \A u \in Thread : call[u].on # scb2
      /\ \A k \in SCB : \A i \in 1 .. Len(queue[k]) : queue[k][i].peer # scb2
  <2>1. AvailableSCBs # {}
    BY DEF AcceptServes
  <2>2. AvailableSCBs \in SUBSET Nat
    BY DEF AvailableSCBs, SCB
  <2>3. scb2 \in AvailableSCBs
    BY <2>1, <2>2, FirstLemma
  <2> QED BY <2>3, Available
<1>4. /\ pipe1 \in Pipe /\ pipe2 \in Pipe /\ pipe1 # pipe2
      /\ \A s \in SCB : Used(s) =>
           /\ scb[s].read_pipe # pipe1 /\ scb[s].write_pipe # pipe1
           /\ scb[s].read_pipe # pipe2 /\ scb[s].write_pipe # pipe2
  <2>1. AvailablePipes \in SUBSET Pipe /\ Cardinality(AvailablePipes) >= 2
    BY DEF AcceptServes, AvailablePipes
  <2>2. pipe1 \in AvailablePipes /\ pipe2 \in AvailablePipes /\ pipe1 # pipe2
    BY <2>1, TwoPipes
  <2> QED BY <2>2, Available
<1>5. /\ queue[l] \in Seq(RequestRecord) /\ Len(queue[l]) \in Nat \ {0}
      /\ request = queue[l][1] /\ request \in RequestRecord
      /\ Len(Tail(queue[l])) = Len(queue[l]) - 1
      /\ Tail(queue[l]) \in Seq(RequestRecord)
      /\ \A i \in 1 .. Len(queue[l]) - 1 : Tail(queue[l])[i] = queue[l][i + 1]
  BY <1>1, <1>2, QueueDomain
<1>6. scb1 \in SCB /\ scb1 \in open /\ scb[scb1].type = "unbound" /\ scb1 # scb2
  BY <1>2, <1>3, <1>5 DEF IInv, RequestInv, Typed
<1>7. l \in open /\ scb[l].type = "listener" /\ l # scb1 /\ l # scb2
      /\ scb[l].port \in Port
  BY <1>1, <1>3, <1>6 DEF IInv, Ports, FieldInv
<1> HIDE DEF request, scb1, scb2, pipe1, pipe2
<1>8. /\ scb'[scb1] = [scb[scb1] EXCEPT !.type = "peer", !.peer = scb2,
                                        !.read_pipe = pipe2, !.write_pipe = pipe1]
      /\ scb'[scb2] = [New("peer", scb[l].port) EXCEPT
                         !.peer = scb1, !.read_pipe = pipe1, !.write_pipe = pipe2]
      /\ scb'[l] = [scb[l] EXCEPT !.refcount = refs - 1]
      /\ \A x \in SCB \ {scb1, scb2, l} : scb'[x] = scb[x]
  BY <1>1, <1>2, <1>3, <1>6, <1>7 DEF Typed
<1>9. /\ scb'[scb1].type = "peer" /\ scb'[scb1].peer = scb2
      /\ scb'[scb1].read_pipe = pipe2 /\ scb'[scb1].write_pipe = pipe1
      /\ scb'[scb1].refcount = scb[scb1].refcount
      /\ scb'[scb1].port = scb[scb1].port
      /\ scb'[scb1] \in SCBRecord
  BY <1>2, <1>3, <1>4, <1>6, <1>8, Fields DEF SCBRecord
<1>10. /\ scb'[scb2].type = "peer" /\ scb'[scb2].peer = scb1
       /\ scb'[scb2].read_pipe = pipe1 /\ scb'[scb2].write_pipe = pipe2
       /\ scb'[scb2].port = scb[l].port
       /\ scb'[scb2] \in SCBRecord
  <2>1. scb'[scb2] = [type |-> "peer", refcount |-> 0, port |-> scb[l].port,
                      peer |-> scb1, read_pipe |-> pipe1, write_pipe |-> pipe2]
    BY <1>8 DEF New, Freed
  <2>2. [type |-> "peer", refcount |-> 0, port |-> scb[l].port,
         peer |-> scb1, read_pipe |-> pipe1, write_pipe |-> pipe2] \in SCBRecord
    BY <1>4, <1>6, <1>7 DEF SCBRecord
  <2> QED BY <2>1, <2>2
<1>11. /\ scb'[l].type = "listener" /\ scb'[l].port = scb[l].port
       /\ scb'[l].peer = scb[l].peer /\ scb'[l].read_pipe = scb[l].read_pipe
       /\ scb'[l].write_pipe = scb[l].write_pipe
       /\ scb'[l] \in SCBRecord
  <2>1. scb[l] \in SCBRecord /\ refs - 1 \in Nat
    BY <1>2, Fields
  <2> QED BY <1>7, <1>8, <2>1 DEF SCBRecord
<1>12. /\ \A u \in Thread \ {t} : call'[u].op = call[u].op /\ call'[u].on = call[u].on
       /\ call'[t].op = "none" /\ call'[t].on = NULL
       /\ call' \in [Thread -> CallRecord]
  <2>1. User \in CallRecord /\ User.op = "none" /\ User.on = NULL
    BY DEF User, Call, CallRecord
  <2>2. \A u \in Thread : call[u] \in CallRecord
    BY Callers
  <2>3. \A u \in Thread : Answered(u) \in CallRecord
                          /\ Answered(u).op = call[u].op /\ Answered(u).on = call[u].on
    BY <2>2 DEF Answered, CallRecord
  <2> QED BY <1>1, <2>1, <2>2, <2>3
<1>13. /\ pipe'[pipe1] = NewPipe /\ pipe'[pipe2] = NewPipe
       /\ \A q \in Pipe \ {pipe1, pipe2} : pipe'[q] = pipe[q]
       /\ pipe' \in [Pipe -> [writer : BOOLEAN, reader : BOOLEAN]]
  BY <1>1, <1>2, <1>4 DEF Typed, NewPipe
<1>14. /\ \A k \in SCB \ {l} : queue'[k] = queue[k]
       /\ queue'[l] = Tail(queue[l])
       /\ queue' \in [SCB -> Seq(RequestRecord)]
  BY <1>1, <1>2, <1>5 DEF Typed
<1>15. Typed'
  <2>1. scb' \in [SCB -> SCBRecord]
    <3>1. \A x \in SCB : scb'[x] \in SCBRecord
      BY <1>2, <1>8, <1>9, <1>10, <1>11, Fields
    <3>2. scb' = [x \in SCB |-> scb'[x]]
      BY <1>1, <1>2 DEF Typed
    <3> QED BY <3>1, <3>2
  <2> QED BY <2>1, <1>1, <1>2, <1>3, <1>12, <1>13, <1>14 DEF Typed
<1>16. \A x \in SCB : Used(x)' <=> Used(x) \/ x = scb2
  BY <1>1, <1>3, <1>12 DEF Used
<1>17. scb[l].peer = NULL /\ scb[l].read_pipe = NULL /\ scb[l].write_pipe = NULL
       /\ scb[scb1].peer = NULL /\ Used(scb1) /\ Used(l)
  BY <1>6, <1>7 DEF IInv, FieldInv, Used
<1> DEFINE Same(x) == /\ scb'[x].type = scb[x].type /\ scb'[x].peer = scb[x].peer
                      /\ scb'[x].read_pipe = scb[x].read_pipe
                      /\ scb'[x].write_pipe = scb[x].write_pipe
                      /\ scb'[x].port = scb[x].port
<1>25. \A x \in SCB \ {scb1, scb2} : Same(x)
  BY <1>7, <1>8, <1>11
<1>26. \A x \in SCB : Used(x)' => x = scb1 \/ x = scb2 \/ (Used(x) /\ Same(x))
  BY <1>16, <1>25
<1>18. PipeInv'
  BY <1>3, <1>4, <1>6, <1>9, <1>10, <1>26, NullIsNoSCB DEF IInv, PipeInv
<1>19. PeerInv'
  <2>1. ASSUME NEW x \in SCB \ {scb1, scb2}, Used(x)', scb'[x].peer # NULL
        PROVE  \E y \in SCB :
                 /\ scb'[x].peer = y /\ Used(y)' /\ y # x
                 /\ scb'[y].type = "peer" /\ scb'[y].peer = x
                 /\ \/ NULL \in {scb'[x].write_pipe, scb'[y].read_pipe}
                    \/ scb'[x].write_pipe = scb'[y].read_pipe
    <3>1. Used(x) /\ Same(x) /\ scb[x].peer # NULL
      BY <2>1, <1>26
    <3>2. PICK y \in SCB : y = scb[x].peer
      BY <3>1 DEF IInv, PeerInv
    <3>3. /\ y # x /\ Used(y) /\ scb[y].type = "peer" /\ scb[y].peer = x
          /\ \/ NULL \in {scb[x].write_pipe, scb[y].read_pipe}
             \/ scb[x].write_pipe = scb[y].read_pipe
      BY <3>1, <3>2 DEF IInv, PeerInv
    <3>4. y \in SCB \ {scb1, scb2} /\ Used(y)'
      BY <3>3, <1>3, <1>6, <1>16
    <3>5. Same(y)
      BY <3>4, <1>25
    <3> QED BY <3>1, <3>2, <3>3, <3>4, <3>5
  <2>2. \A x \in SCB : x = scb1 \/ x = scb2 => Used(x)' /\ x # NULL
    BY <1>3, <1>6, <1>16, <1>17, NullIsNoSCB
  <2>3. ASSUME NEW x \in SCB, Used(x)', scb'[x].peer # NULL
        PROVE  \E y \in SCB :
                 /\ scb'[x].peer = y /\ Used(y)' /\ y # x
                 /\ scb'[y].type = "peer" /\ scb'[y].peer = x
                 /\ \/ NULL \in {scb'[x].write_pipe, scb'[y].read_pipe}
                    \/ scb'[x].write_pipe = scb'[y].read_pipe
    <3>1. CASE x \notin {scb1, scb2}
      BY <3>1, <2>1, <2>3
    <3>2. CASE x = scb1
      <4>1. PICK y \in SCB : y = scb2
        BY <1>3
      <4> QED BY <3>2, <4>1, <2>2, <1>6, <1>9, <1>10
    <3>3. CASE x = scb2
      <4>1. PICK y \in SCB : y = scb1
        BY <1>6
      <4> QED BY <3>3, <4>1, <2>2, <1>6, <1>9, <1>10
    <3> QED BY <3>1, <3>2, <3>3
  <2> QED BY <2>3 DEF PeerInv
<1>20. UseInv'
  <2>1. \A q \in Pipe : pipe'[q] = NewPipe \/ pipe'[q] = pipe[q]
    BY <1>13
  <2>2. \A s \in SCB : {scb'[s].read_pipe, scb'[s].write_pipe} \ {NULL} \subseteq Pipe
    <3>1. \A s \in SCB : scb'[s] \in SCBRecord
      BY <1>15 DEF Typed
    <3>2. \A s \in SCB :
            /\ scb'[s].read_pipe \in Pipe \cup {NULL}
            /\ scb'[s].write_pipe \in Pipe \cup {NULL}
      BY <3>1 DEF SCBRecord
    <3>3. ASSUME NEW s \in SCB,
                 NEW q \in {scb'[s].read_pipe, scb'[s].write_pipe} \ {NULL}
          PROVE  q \in Pipe
      BY <3>2
    <3> QED BY <3>3
  <2>3. ASSUME NEW x \in SCB, Used(x)', x \notin {scb1, scb2}
        PROVE  /\ scb'[x].type # "freed"
               /\ scb'[x].peer # NULL =>
                    \A q \in {scb'[x].read_pipe, scb'[x].write_pipe} \ {NULL} :
                      pipe'[q].writer \/ pipe'[q].reader
    <3>1. Used(x) /\ Same(x)
      BY <2>3, <1>26
    <3>2. /\ scb[x].type # "freed"
          /\ scb[x].peer # NULL =>
               \A q \in {scb[x].read_pipe, scb[x].write_pipe} \ {NULL} :
                 pipe[q].writer \/ pipe[q].reader
      BY <3>1 DEF IInv, UseInv
    <3> QED BY <3>1, <3>2, <2>1, <2>2 DEF NewPipe
  <2>4. ASSUME NEW x \in {scb1, scb2}
        PROVE  /\ scb'[x].type # "freed"
               /\ \A q \in {scb'[x].read_pipe, scb'[x].write_pipe} \ {NULL} :
                    pipe'[q].writer \/ pipe'[q].reader
    BY <1>9, <1>10, <1>13 DEF NewPipe
  <2> QED BY <2>3, <2>4 DEF UseInv
<1>21. FieldInv'
  BY <1>6, <1>7, <1>9, <1>10, <1>25 DEF IInv, FieldInv
<1>22. CallInv' /\ CallerInv'
  <2>1. CallerInv'
    BY <1>12 DEF IInv, CallerInv
  <2>2. \A u \in Thread \ {t} : call[u].op # "none" =>
          /\ call[u].on \in SCB \ {scb2}
          /\ scb'[call[u].on].port = scb[call[u].on].port
          /\ call[u].on # l => scb'[call[u].on].refcount = scb[call[u].on].refcount
    BY <1>3, <1>8, <1>9, <1>11, Callers
  <2>3. ASSUME NEW u \in Thread \ {t}, call[u].op = "accept"
        PROVE  call[u].on # l /\ call[u].on \in SCB
               /\ (\/ Port_Map'[scb'[call[u].on].port] = NULL
                   \/ Port_Map'[scb'[call[u].on].port] = call[u].on
                      /\ scb'[call[u].on].refcount > 0)
    BY <2>2, <2>3, <1>1 DEF IInv, CallInv
  <2>4. ASSUME NEW u \in Thread \ {t}, call[u].op = "connect"
        PROVE  /\ call[u].on \in open' /\ scb'[call[u].on].type \in {"unbound", "peer"}
               /\ scb'[call[u].on].refcount > 0
    <3>1. /\ call[u].on \in open /\ scb[call[u].on].type \in {"unbound", "peer"}
          /\ scb[call[u].on].refcount > 0
      BY <2>4 DEF IInv, CallInv
    <3>2. call[u].on \in SCB \ {scb2} /\ call[u].on # l
      BY <2>2, <2>4, <3>1, <1>7
    <3>3. scb'[call[u].on].refcount > 0
      BY <2>2, <2>4, <3>1, <3>2
    <3>4. scb'[call[u].on].type \in {"unbound", "peer"}
      BY <3>1, <3>2, <1>9, <1>25
    <3> QED BY <3>1, <3>3, <3>4, <1>1
  <2>5. ASSUME NEW u \in Thread \ {t}, call[u].op = "read"
        PROVE  /\ call[u].on \in SCB /\ scb'[call[u].on].type = "peer"
               /\ scb'[call[u].on].read_pipe \in Pipe
               /\ pipe'[scb'[call[u].on].read_pipe].reader
    <3>1. /\ call[u].on \in SCB \ {scb1, scb2, l} /\ scb[call[u].on].type = "peer"
          /\ scb[call[u].on].read_pipe \in Pipe /\ pipe[scb[call[u].on].read_pipe].reader
      BY <2>2, <2>5, <1>6, <1>7 DEF IInv, CallInv
    <3>2. Used(call[u].on)
      BY <2>5 DEF Used
    <3> QED BY <3>1, <3>2, <1>4, <1>8, <1>13
  <2>6. \A u \in Thread : call[u].op = "none" => call[u].on = NULL
    BY DEF IInv, CallInv
  <2> QED BY <2>1, <2>3, <2>4, <2>5, <2>6, <1>12 DEF CallInv
<1>23. RequestInv'
  <2>1. ASSUME NEW k \in SCB, NEW i \in 1 .. Len(queue'[k])
        PROVE  \E j \in 1 .. Len(queue[k]) :
                 queue'[k][i] = queue[k][j] /\ j = (IF k = l THEN i + 1 ELSE i)
    <3>1. CASE k # l
      BY <3>1, <1>14
    <3>2. CASE k = l
      <4>1. i \in 1 .. Len(queue[l]) - 1
        BY <3>2, <1>5, <1>14
      <4>2. queue'[l][i] = queue[l][i + 1] /\ i + 1 \in 1 .. Len(queue[l])
        BY <4>1, <1>5, <1>14
      <4> QED BY <3>2, <4>2
    <3> QED BY <3>1, <3>2
  <2>2. ASSUME NEW k \in SCB, NEW i \in 1 .. Len(queue'[k])
        PROVE  /\ queue'[k][i].peer \in open \ {scb1}
               /\ scb[queue'[k][i].peer].type = "unbound"
    <3>1. PICK j \in 1 .. Len(queue[k]) :
            queue'[k][i] = queue[k][j] /\ j = (IF k = l THEN i + 1 ELSE i)
      BY <2>1
    <3>2. 1 \in 1 .. Len(queue[l]) /\ scb1 = queue[l][1].peer
      BY <1>5 DEF scb1
    <3>3. i \in Int /\ i > 0
      BY <1>5, <1>14, <1>2 DEF Typed
    <3>4. k = l => j # 1
      BY <3>1, <3>3
    <3> QED BY <3>1, <3>2, <3>4 DEF IInv, RequestInv
  <2>3. ASSUME NEW k \in SCB, NEW h \in SCB, NEW i \in 1 .. Len(queue'[k]),
               NEW j \in 1 .. Len(queue'[h]),
               queue'[k][i].peer = queue'[h][j].peer
        PROVE  k = h /\ i = j
    <3>1. PICK a \in 1 .. Len(queue[k]) :
            queue'[k][i] = queue[k][a] /\ a = (IF k = l THEN i + 1 ELSE i)
      BY <2>1
    <3>2. PICK b \in 1 .. Len(queue[h]) :
            queue'[h][j] = queue[h][b] /\ b = (IF h = l THEN j + 1 ELSE j)
      BY <2>1
    <3>3. k = h /\ a = b
      BY <2>3, <3>1, <3>2 DEF IInv, RequestInv
    <3>4. i \in Int /\ j \in Int
      OBVIOUS
    <3>5. CASE k = l
      BY <3>1, <3>2, <3>3, <3>4, <3>5
    <3>6. CASE k # l
      BY <3>1, <3>2, <3>3, <3>6
    <3> QED BY <3>5, <3>6
  <2>4. \A x \in open \ {scb1} : scb[x].type = "unbound" =>
          x \in open' /\ scb'[x].type = "unbound"
    BY <1>1, <1>2, <1>3, <1>25 DEF Typed
  <2> QED BY <2>2, <2>3, <2>4 DEF RequestInv
<1>24. Ports'
  <2> SUFFICES ASSUME NEW port \in Port, NEW x \in SCB
               PROVE  Port_Map[port] = x <=>
                        x \in open' /\ scb'[x].type = "listener" /\ scb'[x].port = port
    BY <1>1 DEF Ports
  <2>1. Port_Map[port] = x <=>
          x \in open /\ scb[x].type = "listener" /\ scb[x].port = port
    BY DEF IInv, Ports
  <2>2. CASE x \in {scb1, scb2}
    BY <2>1, <2>2, <1>3, <1>6, <1>9, <1>10
  <2>3. CASE x \notin {scb1, scb2}
    BY <2>1, <2>3, <1>1, <1>25
  <2> QED BY <2>2, <2>3
<1> QED BY <1>15, <1>18, <1>19, <1>20, <1>21, <1>22, <1>23, <1>24, Types DEF IInv

\* A signal wakes a thread and changes nothing else of its call.
LEMMA SignalledLemma ==
  ASSUME NEW calls \in [Thread -> CallRecord], NEW sleepers \in SUBSET Thread,
         NEW u \in OneOf(sleepers)
  PROVE  /\ Signalled(calls, sleepers, u) \in [Thread -> CallRecord]
         /\ \A v \in Thread :
              /\ Signalled(calls, sleepers, u)[v].op = calls[v].op
              /\ Signalled(calls, sleepers, u)[v].on = calls[v].on
<1>1. CASE sleepers = {}
  BY <1>1 DEF Signalled
<1>2. CASE sleepers # {}
  <2>1. u \in Thread /\ calls[u] \in CallRecord
    BY <1>2 DEF OneOf
  <2> DEFINE r == [calls[u] EXCEPT !.woken = "signal"]
  <2>2. r \in CallRecord /\ r.op = calls[u].op /\ r.on = calls[u].on
    BY <2>1 DEF CallRecord
  <2>3. Signalled(calls, sleepers, u) = [calls EXCEPT ![u] = r]
    BY <1>2 DEF Signalled
  <2> HIDE DEF r
  <2> QED BY <2>1, <2>2, <2>3
<1> QED BY <1>1, <1>2

\* sys_Connect, until it waits.
LEMMA ConnectStep ==
  ASSUME IInv, NEW t \in Thread, NEW s \in open, NEW port \in Port,
         NEW patient \in BOOLEAN, Idle(s), Connect(t, s, port, patient)
  PROVE  IInv'
<1> DEFINE l == Port_Map[port]
           request == [peer |-> s, who |-> t]
           waits == [Call("connect", s, "no") EXCEPT !.patient = patient]
           calls == [call EXCEPT ![t] = waits]
<1>1. /\ scb' = [scb EXCEPT ![s].refcount = @ + 1]
      /\ queue' = [queue EXCEPT ![l] = Append(@, request)]
      /\ open' = open /\ Port_Map' = Port_Map /\ pipe' = pipe
      /\ call[t] = User /\ scb[s].type = "unbound" /\ l # NULL
      /\ scb[l].type = "listener"
  BY DEF Connect
<1>2. Typed
  BY Types DEF IInv
<1>3. s \in SCB /\ l \in SCB
  BY <1>1, <1>2 DEF Typed
<1>4. \E u \in OneOf(Sleepers("accept", l)) :
        call' = Signalled(calls, Sleepers("accept", l), u)
  BY DEF Connect
<1>5. request \in RequestRecord
  BY <1>3 DEF RequestRecord
<1>6. /\ calls \in [Thread -> CallRecord] /\ calls[t].op = "connect" /\ calls[t].on = s
      /\ \A u \in Thread \ {t} : calls[u] = call[u]
  <2>1. waits \in CallRecord /\ waits.op = "connect" /\ waits.on = s
    BY <1>3 DEF Call, CallRecord
  <2> HIDE DEF waits
  <2> QED BY <2>1, <1>2 DEF Typed
<1> HIDE DEF l, request, waits, calls
<1>7. /\ call' \in [Thread -> CallRecord] /\ call'[t].op = "connect" /\ call'[t].on = s
      /\ \A u \in Thread \ {t} : call'[u].op = call[u].op /\ call'[u].on = call[u].on
  <2>1. Sleepers("accept", l) \in SUBSET Thread
    BY DEF Sleepers, In
  <2> QED BY <2>1, <1>4, <1>6, SignalledLemma
<1>8. /\ \A x \in SCB \ {s} : scb'[x] = scb[x]
      /\ scb'[s] = [scb[s] EXCEPT !.refcount = @ + 1]
      /\ scb[s] \in SCBRecord
  BY <1>1, <1>2, <1>3 DEF Typed
<1>9. /\ scb'[s].type = scb[s].type /\ scb'[s].port = scb[s].port
      /\ scb'[s].refcount = scb[s].refcount + 1 /\ scb'[s].peer = scb[s].peer
      /\ scb'[s].read_pipe = scb[s].read_pipe
      /\ scb'[s].write_pipe = scb[s].write_pipe
      /\ scb[s].refcount \in Nat /\ scb'[s] \in SCBRecord
  BY <1>8 DEF SCBRecord
<1>10. /\ \A k \in SCB \ {l} : queue'[k] = queue[k]
       /\ queue'[l] = Append(queue[l], request)
       /\ \A k \in SCB : queue[k] \in Seq(RequestRecord)
  BY <1>1, <1>2, <1>3 DEF Typed
<1>11. /\ Len(queue[l]) \in Nat /\ Len(queue'[l]) = Len(queue[l]) + 1
       /\ \A i \in 1 .. Len(queue[l]) : queue'[l][i] = queue[l][i]
       /\ queue'[l][Len(queue[l]) + 1] = request
  BY <1>3, <1>5, <1>10
<1>12. /\ \A k \in SCB : \A i \in 1 .. Len(queue[k]) : queue[k][i].peer # s
       /\ \A u \in Thread : ~(call[u].op = "connect" /\ call[u].on = s)
  BY <1>2, QueueDomain DEF Idle, Requested, In
<1>13. call[t].op = "none"
  BY <1>1, UserFields
<1>14. Typed'
  <2>1. queue' \in [SCB -> Seq(RequestRecord)]
    BY <1>1, <1>2, <1>5, <1>10 DEF Typed
  <2>2. scb' \in [SCB -> SCBRecord]
    BY <1>1, <1>2, <1>3, <1>8, <1>9 DEF Typed
  <2> QED BY <2>1, <2>2, <1>1, <1>2, <1>7 DEF Typed
<1>15. \A x \in SCB : Used(x)' <=> Used(x)
  BY <1>1, <1>7, <1>13 DEF Used
<1>16. PipeInv' /\ PeerInv' /\ UseInv'
  BY <1>1, <1>8, <1>9, <1>15, Quiet
<1>17. FieldInv'
  BY <1>8, <1>9 DEF IInv, FieldInv
<1>18. CallInv'
  <2>1. ASSUME NEW x \in SCB, scb[x].refcount > 0
        PROVE  scb'[x].refcount > 0
    <3>1. CASE x = s
      BY <3>1, <1>9
    <3>2. CASE x # s
      BY <2>1, <3>2, <1>8
    <3> QED BY <3>1, <3>2
  <2>2. \A x \in SCB :
          /\ scb'[x].type = scb[x].type /\ scb'[x].port = scb[x].port
          /\ scb'[x].read_pipe = scb[x].read_pipe
    BY <1>8, <1>9
  <2>3. \A u \in Thread \ {t} : call[u].op # "none" => call[u].on \in SCB
    BY Callers
  <2>4. scb'[s].refcount > 0
    BY <1>9
  <2> QED BY <2>1, <2>2, <2>3, <2>4, <1>1, <1>3, <1>7 DEF IInv, CallInv
<1>19. CallerInv'
  BY <1>7, <1>12 DEF IInv, CallerInv
<1>20. RequestInv'
  <2>1. \A k \in SCB : \A i \in 1 .. Len(queue'[k]) :
          \/ i \in 1 .. Len(queue[k]) /\ queue'[k][i] = queue[k][i]
          \/ k = l /\ i = Len(queue[l]) + 1 /\ queue'[k][i].peer = s
    <3> SUFFICES ASSUME NEW k \in SCB, NEW i \in 1 .. Len(queue'[k])
                 PROVE  \/ i \in 1 .. Len(queue[k]) /\ queue'[k][i] = queue[k][i]
                        \/ k = l /\ i = Len(queue[l]) + 1 /\ queue'[k][i].peer = s
      OBVIOUS
    <3>1. CASE k # l
      BY <3>1, <1>10
    <3>2. CASE k = l
      BY <3>2, <1>11 DEF request
    <3> QED BY <3>1, <3>2
  <2>2. \A x \in open : x \in open' /\ scb'[x].type = scb[x].type
    BY <1>1, <1>2, <1>8, <1>9 DEF Typed
  <2> QED BY <2>1, <2>2, <1>1, <1>12 DEF IInv, RequestInv
<1>21. Ports'
  BY <1>1, <1>8, <1>9 DEF IInv, Ports
<1> QED BY <1>14, <1>16, <1>17, <1>18, <1>19, <1>20, <1>21, Types DEF IInv

\* The timeout of sys_Connect.
LEMMA ExpireStep ==
  ASSUME IInv, NEW t \in Thread, Expire(t)
  PROVE  IInv'
<1>1. /\ call' = [call EXCEPT ![t].woken = "timeout"]
      /\ scb' = scb /\ open' = open /\ Port_Map' = Port_Map
      /\ queue' = queue /\ pipe' = pipe
  BY DEF Expire
<1>2. Typed
  BY Types DEF IInv
<1> DEFINE r == [call[t] EXCEPT !.woken = "timeout"]
<1>3. r \in CallRecord /\ r.op = call[t].op /\ r.on = call[t].on
  BY Callers DEF CallRecord
<1>4. call' = [call EXCEPT ![t] = r]
  BY <1>1
<1> HIDE DEF r
<1>5. /\ call' \in [Thread -> CallRecord]
      /\ \A u \in Thread : call'[u].op = call[u].op /\ call'[u].on = call[u].on
  BY <1>2, <1>3, <1>4 DEF Typed
<1>6. Typed'
  BY <1>1, <1>2, <1>5 DEF Typed
<1>7. \A x \in SCB : Used(x)' <=> Used(x)
  BY <1>1, <1>5 DEF Used
<1>8. PipeInv' /\ PeerInv' /\ UseInv'
  BY <1>1, <1>7, Quiet
<1>9. CallInv' /\ CallerInv'
  BY <1>1, <1>5 DEF IInv, CallInv, CallerInv
<1>10. FieldInv' /\ RequestInv' /\ Ports'
  BY <1>1 DEF IInv, FieldInv, RequestInv, Ports
<1> QED BY <1>6, <1>8, <1>9, <1>10, Types DEF IInv

\* The rest of sys_Connect.
LEMMA ConnectWakeStep ==
  ASSUME IInv, NEW t \in Thread, ConnectWake(t)
  PROVE  IInv'
<1> DEFINE s == call[t].on
<1>1. /\ queue' = Abandoned(t)
      /\ scb' = IF call[t].admitted /\ call[t].woken = "signal"
                THEN [scb EXCEPT ![s] = IF @.refcount - 1 < 0 THEN Freed(@.port)
                                        ELSE Decremented(@)]
                ELSE scb
      /\ call' = [call EXCEPT ![t] = User]
      /\ open' = open /\ Port_Map' = Port_Map /\ pipe' = pipe
      /\ call[t].op = "connect"
  BY DEF ConnectWake
<1>2. Typed
  BY Types DEF IInv
<1>3. /\ s \in SCB /\ s \in open /\ scb[s].type \in {"unbound", "peer"}
      /\ scb[s].refcount \in Nat \ {0} /\ scb[s] \in SCBRecord
      /\ \A u \in Thread \ {t} : ~(call[u].op = "connect" /\ call[u].on = s)
  BY <1>1, <1>2, Callers, Fields DEF IInv, CallInv, CallerInv
<1>4. /\ \A u \in Thread \ {t} : call'[u] = call[u]
      /\ call'[t].op = "none" /\ call'[t].on = NULL
      /\ call' \in [Thread -> CallRecord]
  <2>1. User \in CallRecord /\ User.op = "none" /\ User.on = NULL
    BY DEF User, Call, CallRecord
  <2> QED BY <2>1, <1>1, <1>2 DEF Typed
<1> HIDE DEF s
<1>5. /\ \A x \in SCB \ {s} : scb'[x] = scb[x]
      /\ scb'[s] \in {scb[s], Decremented(scb[s])}
      /\ scb' = [x \in SCB |-> scb'[x]]
  <2>1. CASE call[t].admitted /\ call[t].woken = "signal"
    <3>1. ~(scb[s].refcount - 1 < 0)
      BY <1>3
    <3> DEFINE new == IF scb[s].refcount - 1 < 0 THEN Freed(scb[s].port)
                      ELSE Decremented(scb[s])
    <3>2. scb' = [scb EXCEPT ![s] = new]
      BY <2>1, <1>1
    <3>3. new = Decremented(scb[s])
      BY <3>1
    <3> HIDE DEF new
    <3>4. /\ scb'[s] = new /\ \A x \in SCB \ {s} : scb'[x] = scb[x]
          /\ scb' = [x \in SCB |-> scb'[x]]
      BY <3>2, <1>2, <1>3 DEF Typed
    <3> QED BY <3>3, <3>4
  <2>2. CASE ~(call[t].admitted /\ call[t].woken = "signal")
    BY <2>2, <1>1, <1>2, <1>3 DEF Typed
  <2> QED BY <2>1, <2>2
<1>6. /\ scb'[s].type = scb[s].type /\ scb'[s].port = scb[s].port
      /\ scb'[s].peer = scb[s].peer
      /\ scb'[s].read_pipe = scb[s].read_pipe
      /\ scb'[s].write_pipe = scb[s].write_pipe
      /\ scb'[s] \in SCBRecord
  BY <1>3, <1>5 DEF SCBRecord, Decremented
<1>7. /\ queue' \in [SCB -> Seq(RequestRecord)]
      /\ \A k \in SCB :
           /\ Len(queue'[k]) = Len(queue[k])
           /\ \A i \in 1 .. Len(queue[k]) : queue'[k][i].peer = queue[k][i].peer
  <2>1. ASSUME NEW k \in SCB
        PROVE  /\ queue'[k] \in Seq(RequestRecord) /\ Len(queue'[k]) = Len(queue[k])
               /\ \A i \in 1 .. Len(queue[k]) : queue'[k][i].peer = queue[k][i].peer
    <3> DEFINE new(i) == IF queue[k][i].who = t THEN [queue[k][i] EXCEPT !.who = NULL]
                         ELSE queue[k][i]
    <3>1. queue[k] \in Seq(RequestRecord) /\ DOMAIN queue[k] = 1 .. Len(queue[k])
          /\ Len(queue[k]) \in Nat
      BY <1>2, QueueDomain
    <3>2. \A i \in 1 .. Len(queue[k]) :
            new(i) \in RequestRecord /\ new(i).peer = queue[k][i].peer
      <4>1. \A i \in 1 .. Len(queue[k]) : queue[k][i] \in RequestRecord
        BY <3>1
      <4> QED BY <4>1 DEF RequestRecord
    <3>3. queue'[k] = [i \in 1 .. Len(queue[k]) |-> new(i)]
      BY <1>1, <3>1 DEF Abandoned
    <3> HIDE DEF new
    <3> QED BY <3>1, <3>2, <3>3
  <2>2. queue' = [k \in SCB |-> queue'[k]]
    BY <1>1 DEF Abandoned
  <2> QED BY <2>1, <2>2
<1>8. Typed'
  <2>1. scb' \in [SCB -> SCBRecord]
    <3>1. \A x \in SCB : scb'[x] \in SCBRecord
      BY <1>2, <1>5, <1>6, Fields
    <3> QED BY <3>1, <1>5
  <2> QED BY <2>1, <1>1, <1>2, <1>4, <1>7 DEF Typed
<1>9. \A x \in SCB : Used(x)' <=> Used(x)
  BY <1>1, <1>4 DEF Used
<1>10. \A x \in SCB :
         /\ scb'[x].type = scb[x].type /\ scb'[x].port = scb[x].port
         /\ scb'[x].peer = scb[x].peer
         /\ scb'[x].read_pipe = scb[x].read_pipe
         /\ scb'[x].write_pipe = scb[x].write_pipe
         /\ x # s => scb'[x].refcount = scb[x].refcount
  BY <1>5, <1>6
<1>11. PipeInv' /\ PeerInv' /\ UseInv'
  BY <1>1, <1>9, <1>10, Quiet
<1>12. FieldInv'
  BY <1>10 DEF IInv, FieldInv
<1>13. CallInv' /\ CallerInv'
  <2>1. \A u \in Thread : call[u].op = "accept" /\ call[u].on = s => Port_Map[scb[s].port] = NULL
    BY <1>3, NullIsNoSCB DEF IInv, CallInv, Ports, FieldInv
  <2>2. \A u \in Thread : call[u].op # "none" => call[u].on \in SCB
    BY Callers
  <2>3. CallerInv'
    BY <1>4 DEF IInv, CallerInv
  <2>4. \A u \in Thread \ {t} : call[u].op = "connect" => call[u].on # s
    BY <1>3
  <2>5. ASSUME NEW u \in Thread \ {t}, call[u].op = "accept"
        PROVE  /\ call[u].on \in SCB
               /\ \/ Port_Map'[scb'[call[u].on].port] = NULL
                  \/ Port_Map'[scb'[call[u].on].port] = call[u].on
                     /\ scb'[call[u].on].refcount > 0
    <3>1. CASE call[u].on = s
      BY <2>1, <2>5, <3>1, <1>1, <1>3, <1>10
    <3>2. CASE call[u].on # s
      BY <2>2, <2>5, <3>2, <1>1, <1>10 DEF IInv, CallInv
    <3> QED BY <3>1, <3>2
  <2>6. ASSUME NEW u \in Thread \ {t}, call[u].op = "connect"
        PROVE  /\ call[u].on \in open' /\ scb'[call[u].on].type \in {"unbound", "peer"}
               /\ scb'[call[u].on].refcount > 0
    BY <2>2, <2>4, <2>6, <1>1, <1>10 DEF IInv, CallInv
  <2>7. ASSUME NEW u \in Thread \ {t}, call[u].op = "read"
        PROVE  /\ call[u].on \in SCB /\ scb'[call[u].on].type = "peer"
               /\ scb'[call[u].on].read_pipe \in Pipe
               /\ pipe'[scb'[call[u].on].read_pipe].reader
    BY <2>2, <2>7, <1>1, <1>10 DEF IInv, CallInv
  <2>8. \A u \in Thread : call[u].op = "none" => call[u].on = NULL
    BY DEF IInv, CallInv
  <2> QED BY <2>3, <2>5, <2>6, <2>7, <2>8, <1>4 DEF CallInv
<1>14. RequestInv'
  <2>1. \A x \in open : x \in open' /\ scb'[x].type = scb[x].type
    BY <1>1, <1>2, <1>10 DEF Typed
  <2>2. \A k \in SCB : \A i \in 1 .. Len(queue'[k]) :
          i \in 1 .. Len(queue[k]) /\ queue'[k][i].peer = queue[k][i].peer
    BY <1>7
  <2> QED BY <2>1, <2>2 DEF IInv, RequestInv
<1>15. Ports'
  BY <1>1, <1>10 DEF IInv, Ports
<1> QED BY <1>8, <1>11, <1>12, <1>13, <1>14, <1>15, Types DEF IInv

\* pipe_read, until it waits.
LEMMA ReadStep ==
  ASSUME IInv, NEW t \in Thread, NEW s \in open, Read(t, s)
  PROVE  IInv'
<1>1. /\ call' = [call EXCEPT ![t] = Call("read", s, "no")]
      /\ scb' = scb /\ open' = open /\ Port_Map' = Port_Map
      /\ queue' = queue /\ pipe' = pipe
      /\ call[t] = User /\ scb[s].type = "peer" /\ scb[s].read_pipe # NULL
      /\ pipe[scb[s].read_pipe].reader
  BY DEF Read
<1>2. Typed /\ s \in SCB
  BY Types DEF IInv, Typed
<1>3. scb[s].read_pipe \in Pipe
  BY <1>1, <1>2, Fields
<1>4. /\ \A u \in Thread \ {t} : call'[u] = call[u]
      /\ call'[t].op = "read" /\ call'[t].on = s
      /\ call' \in [Thread -> CallRecord] /\ call[t].op = "none"
  <2>1. /\ Call("read", s, "no") \in CallRecord /\ Call("read", s, "no").op = "read"
        /\ Call("read", s, "no").on = s
    BY <1>2 DEF Call, CallRecord
  <2> QED BY <2>1, <1>1, <1>2, UserFields DEF Typed
<1>5. Typed'
  BY <1>1, <1>2, <1>4 DEF Typed
<1>6. \A x \in SCB : Used(x)' <=> Used(x)
  BY <1>1, <1>4 DEF Used
<1>7. PipeInv' /\ PeerInv' /\ UseInv'
  BY <1>1, <1>6, Quiet
<1>8. CallInv' /\ CallerInv'
  BY <1>1, <1>2, <1>3, <1>4 DEF IInv, CallInv, CallerInv
<1>9. FieldInv' /\ RequestInv' /\ Ports'
  BY <1>1 DEF IInv, FieldInv, RequestInv, Ports
<1> QED BY <1>5, <1>7, <1>8, <1>9, Types DEF IInv

PipeRecord == [writer : BOOLEAN, reader : BOOLEAN]

\* The ends of a pipe are closed one at a time, and a pipe that is NULL has none.
LEMMA PipeEnds ==
  ASSUME NEW p \in [Pipe -> PipeRecord], NEW q \in Pipe \cup {NULL}
  PROVE  /\ pipe_writer_close(p, q) \in [Pipe -> PipeRecord]
         /\ pipe_reader_close(p, q) \in [Pipe -> PipeRecord]
         /\ \A x \in Pipe :
              /\ pipe_writer_close(p, q)[x].writer = (p[x].writer /\ x # q)
              /\ pipe_writer_close(p, q)[x].reader = p[x].reader
              /\ pipe_reader_close(p, q)[x].reader = (p[x].reader /\ x # q)
              /\ pipe_reader_close(p, q)[x].writer = p[x].writer
<1>1. CASE q = NULL
  <2>1. pipe_writer_close(p, q) = p /\ pipe_reader_close(p, q) = p
    BY <1>1, NullIsNoSCB DEF pipe_writer_close, pipe_reader_close
  <2>2. \A x \in Pipe : p[x].writer \in BOOLEAN /\ p[x].reader \in BOOLEAN
    BY DEF PipeRecord
  <2> QED BY <2>1, <2>2, <1>1, NullIsNoSCB
<1>2. CASE q \in Pipe
  <2> DEFINE w == [p[q] EXCEPT !.writer = FALSE]
             r == [p[q] EXCEPT !.reader = FALSE]
  <2>1. /\ w \in PipeRecord /\ w.writer = FALSE /\ w.reader = p[q].reader
        /\ r \in PipeRecord /\ r.reader = FALSE /\ r.writer = p[q].writer
    BY <1>2 DEF PipeRecord
  <2>2. /\ pipe_writer_close(p, q) = [p EXCEPT ![q] = w]
        /\ pipe_reader_close(p, q) = [p EXCEPT ![q] = r]
    BY DEF pipe_writer_close, pipe_reader_close
  <2>3. \A x \in Pipe : p[x].writer \in BOOLEAN /\ p[x].reader \in BOOLEAN
    BY DEF PipeRecord
  <2> HIDE DEF w, r
  <2>4. ASSUME NEW x \in Pipe
        PROVE  /\ pipe_writer_close(p, q)[x] = IF x = q THEN w ELSE p[x]
               /\ pipe_reader_close(p, q)[x] = IF x = q THEN r ELSE p[x]
    BY <1>2, <2>2
  <2>5. /\ pipe_writer_close(p, q) \in [Pipe -> PipeRecord]
        /\ pipe_reader_close(p, q) \in [Pipe -> PipeRecord]
    BY <1>2, <2>1, <2>2
  <2>6. ASSUME NEW x \in Pipe
        PROVE  /\ pipe_writer_close(p, q)[x].writer = (p[x].writer /\ x # q)
               /\ pipe_writer_close(p, q)[x].reader = p[x].reader
               /\ pipe_reader_close(p, q)[x].reader = (p[x].reader /\ x # q)
               /\ pipe_reader_close(p, q)[x].writer = p[x].writer
    <3>1. CASE x = q
      BY <3>1, <2>1, <2>4
    <3>2. CASE x # q
      BY <3>2, <2>3, <2>4
    <3> QED BY <3>1, <3>2
  <2> QED BY <2>5, <2>6
<1> QED BY <1>1, <1>2

\* socket_close, of a socket that was in use and is no more.
LEMMA CloseLemma ==
  ASSUME IInv, NEW s \in SCB, Used(s), open' = open \ {s},
         NEW calls \in [Thread -> CallRecord],
         \A u \in Thread :
           /\ ~(calls[u].op = "read" /\ calls[u].on = s)
           /\ \/ calls[u].op = call[u].op /\ calls[u].on = call[u].on
              \/ /\ calls[u].op = "none" /\ calls[u].on = NULL
                 /\ call[u].op = "read" /\ call[u].on = s,
         \A u \in Thread : ~(call[u].op = "connect" /\ call[u].on = s),
         \A l \in SCB : \A i \in 1 .. Len(queue[l]) : queue[l][i].peer # s,
         socket_close(s, pipe, calls)
  PROVE  IInv'
<1> DEFINE peer == scb[s].peer
<1>1. Typed
  BY Types DEF IInv
<1>2. /\ peer \in SCB \cup {NULL} /\ scb[s].read_pipe \in Pipe \cup {NULL}
      /\ scb[s].write_pipe \in Pipe \cup {NULL}
      /\ scb[s] \in SCBRecord /\ scb[s].refcount \in Nat
      /\ scb[s].port \in Port
      /\ scb[s].type # "peer" => peer = NULL
      /\ scb[s].type = "listener" => s \in open
  BY <1>1, Fields DEF IInv, FieldInv, CallInv, Used
<1>3. /\ scb' = SCBsClosed(s)
      /\ pipe' = Reachable(PipesClosed(pipe, s), scb')
      /\ queue' = IF scb'[s].type = "freed" THEN [queue EXCEPT ![s] = <<>>] ELSE queue
      /\ IF scb[s].type = "listener"
         THEN /\ Port_Map' = PortClosed(s)
              /\ \E u \in OneOf(WokenByClose(s)) :
                   call' = Signalled(calls, WokenByClose(s), u)
         ELSE call' = calls /\ Port_Map' = Port_Map
  BY DEF socket_close
<1>4. /\ call' \in [Thread -> CallRecord]
      /\ \A u \in Thread : call'[u].op = calls[u].op /\ call'[u].on = calls[u].on
  <2>1. WokenByClose(s) \in SUBSET Thread
    BY DEF WokenByClose, Sleepers, In
  <2> QED BY <2>1, <1>3, SignalledLemma
<1>5. /\ Port_Map' \in [Port -> SCB \cup {NULL}]
      /\ \A port \in Port :
           Port_Map'[port] = IF scb[s].type = "listener" /\ port = scb[s].port THEN NULL
                             ELSE Port_Map[port]
  <2>1. CASE scb[s].type = "listener"
    BY <2>1, <1>1, <1>2, <1>3 DEF PortClosed, Typed
  <2>2. CASE scb[s].type # "listener"
    BY <2>2, <1>1, <1>3 DEF Typed
  <2> QED BY <2>1, <2>2
<1>6. /\ scb' = [x \in SCB |-> scb'[x]]
      /\ scb'[s] = IF Unreferenced(scb[s].refcount) THEN Freed(scb[s].port)
                   ELSE Decremented(scb[s])
      /\ \A x \in SCB \ {s} :
           scb'[x] = IF peer = x THEN [scb[x] EXCEPT !.peer = NULL] ELSE scb[x]
  <2>1. \A x \in SCB : scb[s].type = "peer" /\ peer = x <=> peer = x
    BY <1>2, NullIsNoSCB
  <2>2. \A x \in SCB :
          scb'[x] = IF x = s
                    THEN IF Unreferenced(scb[s].refcount) THEN Freed(scb[s].port)
                         ELSE Decremented(scb[s])
                    ELSE IF scb[s].type = "peer" /\ peer = x
                         THEN [scb[x] EXCEPT !.peer = NULL] ELSE scb[x]
    BY <1>3 DEF SCBsClosed, PeerForgets
  <2>3. scb' = [x \in SCB |-> scb'[x]]
    BY <1>3 DEF SCBsClosed
  <2> QED BY <2>1, <2>2, <2>3
<1>7. /\ scb'[s] \in SCBRecord /\ scb'[s].port = scb[s].port
      /\ scb'[s].type \in {"freed", scb[s].type}
      /\ scb'[s].type # "peer" =>
           scb'[s].peer = NULL /\ scb'[s].read_pipe = NULL /\ scb'[s].write_pipe = NULL
  <2>1. CASE Unreferenced(scb[s].refcount)
    BY <2>1, <1>2, <1>6 DEF Freed, SCBRecord
  <2>2. CASE ~Unreferenced(scb[s].refcount)
    <3>1. scb[s].refcount - 1 \in Nat
      BY <2>2, <1>2 DEF Unreferenced
    <3>2. scb'[s] = [scb[s] EXCEPT !.refcount = scb[s].refcount - 1]
      BY <2>2, <1>6 DEF Decremented
    <3> QED BY <3>1, <3>2, <1>2 DEF SCBRecord, IInv, FieldInv
  <2> QED BY <2>1, <2>2
<1>8. \A x \in SCB \ {s} :
        /\ scb'[x].type = scb[x].type /\ scb'[x].port = scb[x].port
        /\ scb'[x].refcount = scb[x].refcount
        /\ scb'[x].read_pipe = scb[x].read_pipe
        /\ scb'[x].write_pipe = scb[x].write_pipe
        /\ scb'[x].peer = (IF peer = x THEN NULL ELSE scb[x].peer)
        /\ scb'[x] \in SCBRecord
  <2> SUFFICES ASSUME NEW x \in SCB \ {s}
               PROVE  /\ scb'[x].type = scb[x].type /\ scb'[x].port = scb[x].port
                      /\ scb'[x].refcount = scb[x].refcount
                      /\ scb'[x].read_pipe = scb[x].read_pipe
                      /\ scb'[x].write_pipe = scb[x].write_pipe
                      /\ scb'[x].peer = (IF peer = x THEN NULL ELSE scb[x].peer)
                      /\ scb'[x] \in SCBRecord
    OBVIOUS
  <2>1. scb[x] \in SCBRecord
    BY <1>1, Fields
  <2> QED BY <2>1, <1>6 DEF SCBRecord
<1> HIDE DEF peer
<1>9. \A x \in SCB : Used(x)' => Used(x) /\ x # s
  BY <1>4 DEF Used
<1>10. \A x \in SCB \ {s} : Used(x) => Used(x)'
  <2> SUFFICES ASSUME NEW x \in SCB \ {s}, Used(x)
               PROVE  Used(x)'
    OBVIOUS
  <2>1. CASE x \in open
    BY <2>1 DEF Used
  <2>2. CASE \E u \in Thread : call[u].op = "read" /\ call[u].on = x
    BY <2>2, <1>4 DEF Used
  <2> QED BY <2>1, <2>2 DEF Used
<1> DEFINE closed == PipesClosed(pipe, s)
<1>11. /\ closed \in [Pipe -> PipeRecord]
       /\ \A q \in Pipe :
            /\ q # scb[s].read_pipe => closed[q].reader = pipe[q].reader
            /\ peer = NULL \/ q \notin {scb[s].read_pipe, scb[s].write_pipe} =>
                 closed[q].writer = pipe[q].writer /\ closed[q].reader = pipe[q].reader
  <2>1. pipe \in [Pipe -> PipeRecord]
    BY <1>1 DEF Typed, PipeRecord
  <2>2. CASE peer = NULL
    <3>1. closed = pipe
      BY <2>2 DEF PipesClosed, peer
    <3> HIDE DEF closed
    <3> QED BY <2>1, <3>1
  <2>3. CASE peer # NULL
    <3> DEFINE half == pipe_writer_close(pipe, scb[s].write_pipe)
    <3>1. closed = pipe_reader_close(half, scb[s].read_pipe)
      BY <2>3, <1>2 DEF PipesClosed, peer
    <3>2. /\ half \in [Pipe -> PipeRecord]
          /\ \A q \in Pipe : /\ half[q].writer = (pipe[q].writer /\ q # scb[s].write_pipe)
                             /\ half[q].reader = pipe[q].reader
      BY <2>1, <1>2, PipeEnds
    <3> HIDE DEF half, closed
    <3>3. /\ closed \in [Pipe -> PipeRecord]
          /\ \A q \in Pipe : /\ closed[q].reader = (half[q].reader /\ q # scb[s].read_pipe)
                             /\ closed[q].writer = half[q].writer
      BY <3>1, <3>2, <1>2, PipeEnds
    <3>4. \A q \in Pipe : pipe[q].writer \in BOOLEAN /\ pipe[q].reader \in BOOLEAN
      BY <2>1 DEF PipeRecord
    <3> QED BY <2>3, <3>2, <3>3, <3>4
  <2> QED BY <2>2, <2>3
<1>12. /\ pipe' \in [Pipe -> PipeRecord]
       /\ \A q \in Pipe :
            (\E x \in SCB : q \in {scb'[x].read_pipe, scb'[x].write_pipe})
              => pipe'[q] = closed[q]
  <2> HIDE DEF closed
  <2>1. FreedPipe \in PipeRecord
    BY DEF FreedPipe, PipeRecord
  <2>2. pipe' = Reachable(closed, scb')
    BY <1>3 DEF closed
  <2> QED BY <2>1, <2>2, <1>11 DEF Reachable
<1> HIDE DEF closed
<1>13. Typed'
  <2>1. scb' \in [SCB -> SCBRecord]
    <3>1. \A x \in SCB : scb'[x] \in SCBRecord
      BY <1>7, <1>8
    <3> QED BY <3>1, <1>6
  <2>2. queue' \in [SCB -> Seq(RequestRecord)]
    BY <1>1, <1>3 DEF Typed
  <2> QED BY <2>1, <2>2, <1>1, <1>4, <1>5, <1>12 DEF Typed, PipeRecord
<1>14. \A x \in SCB : Used(x) /\ x # s =>
         /\ scb[x].read_pipe # NULL => scb[x].read_pipe # scb[s].read_pipe
         /\ peer # NULL /\ peer # x =>
              {scb[x].read_pipe, scb[x].write_pipe} \cap {scb[s].read_pipe, scb[s].write_pipe}
                \subseteq {NULL}
  <2> SUFFICES ASSUME NEW x \in SCB, Used(x), x # s
               PROVE  /\ scb[x].read_pipe # NULL => scb[x].read_pipe # scb[s].read_pipe
                      /\ peer # NULL /\ peer # x =>
                           /\ scb[x].read_pipe # NULL => scb[x].read_pipe # scb[s].write_pipe
                           /\ scb[x].write_pipe # NULL =>
                                scb[x].write_pipe \notin {scb[s].read_pipe, scb[s].write_pipe}
    OBVIOUS
  <2>1. /\ scb[x].read_pipe # NULL => scb[x].read_pipe # scb[s].read_pipe
        /\ scb[x].write_pipe # NULL => scb[x].write_pipe # scb[s].write_pipe
        /\ scb[x].write_pipe # NULL /\ scb[x].write_pipe = scb[s].read_pipe => peer = x
        /\ scb[x].read_pipe # NULL /\ scb[x].read_pipe = scb[s].write_pipe =>
             scb[x].peer = s
    BY DEF IInv, PipeInv, peer
  <2>2. scb[x].peer = s => peer = x
    BY NullIsNoSCB DEF IInv, PeerInv, peer
  <2> QED BY <2>1, <2>2
<1>15. PipeInv'
  <2> SUFFICES ASSUME NEW x \in SCB, NEW y \in SCB, Used(x)', Used(y)'
               PROVE  /\ x # y /\ scb'[x].read_pipe # NULL =>
                           scb'[x].read_pipe # scb'[y].read_pipe
                      /\ x # y /\ scb'[x].write_pipe # NULL =>
                           scb'[x].write_pipe # scb'[y].write_pipe
                      /\ scb'[x].read_pipe # NULL /\ scb'[x].read_pipe = scb'[y].write_pipe =>
                           scb'[x].peer = y /\ x # y
    BY DEF PipeInv
  <2>1. x \in SCB \ {s} /\ y \in SCB \ {s} /\ Used(x) /\ Used(y)
    BY <1>9
  <2>2. scb[x].peer = y => peer # x
    BY <2>1, NullIsNoSCB DEF IInv, PeerInv, peer
  <2> QED BY <2>1, <2>2, <1>8 DEF IInv, PipeInv
<1>16. PeerInv'
  <2> SUFFICES ASSUME NEW x \in SCB, Used(x)', scb'[x].peer # NULL
               PROVE  \E y \in SCB :
                        /\ y = scb'[x].peer /\ Used(y)' /\ y # x
                        /\ scb'[y].type = "peer" /\ scb'[y].peer = x
                        /\ \/ NULL \in {scb'[x].write_pipe, scb'[y].read_pipe}
                           \/ scb'[x].write_pipe = scb'[y].read_pipe
    BY DEF PeerInv
  <2>1. x # s /\ Used(x) /\ peer # x /\ scb'[x].peer = scb[x].peer
    BY <1>8, <1>9
  <2>2. PICK y \in SCB : y = scb[x].peer
    BY <2>1 DEF IInv, PeerInv
  <2>3. /\ Used(y) /\ y # x /\ scb[y].type = "peer" /\ scb[y].peer = x
        /\ \/ NULL \in {scb[x].write_pipe, scb[y].read_pipe}
           \/ scb[x].write_pipe = scb[y].read_pipe
    BY <2>1, <2>2 DEF IInv, PeerInv
  <2>4. y # s
    BY <2>1, <2>3 DEF peer
  <2>5. peer # y
    BY <2>1, <2>3, <2>4, NullIsNoSCB DEF IInv, PeerInv, peer
  <2> QED BY <2>1, <2>2, <2>3, <2>4, <2>5, <1>8, <1>10
<1>17. UseInv'
  <2> SUFFICES ASSUME NEW x \in SCB, Used(x)'
               PROVE  /\ scb'[x].type # "freed"
                      /\ scb'[x].peer # NULL =>
                           \A q \in {scb'[x].read_pipe, scb'[x].write_pipe} \ {NULL} :
                             pipe'[q].writer \/ pipe'[q].reader
    BY DEF UseInv
  <2>1. x # s /\ Used(x) /\ scb'[x].type = scb[x].type
    BY <1>8, <1>9
  <2>2. scb[x].type # "freed"
    BY <2>1 DEF IInv, UseInv
  <2>3. ASSUME scb'[x].peer # NULL,
               NEW q \in {scb'[x].read_pipe, scb'[x].write_pipe} \ {NULL}
        PROVE  pipe'[q].writer \/ pipe'[q].reader
    <3>1. peer # x /\ scb[x].peer # NULL
      BY <2>1, <2>3, <1>8
    <3>2. q \in {scb[x].read_pipe, scb[x].write_pipe} \ {NULL}
      BY <2>1, <1>8
    <3>3. q \in Pipe
      BY <3>2, <1>1, Fields
    <3>4. pipe[q].writer \/ pipe[q].reader
      BY <2>1, <3>1, <3>2 DEF IInv, UseInv
    <3>5. peer = NULL \/ q \notin {scb[s].read_pipe, scb[s].write_pipe}
      BY <2>1, <3>1, <3>2, <1>14
    <3>6. closed[q].writer = pipe[q].writer /\ closed[q].reader = pipe[q].reader
      BY <3>3, <3>5, <1>11
    <3>7. pipe'[q] = closed[q]
      BY <3>3, <1>12
    <3> QED BY <3>4, <3>6, <3>7
  <2> QED BY <2>1, <2>2, <2>3
<1>18. FieldInv'
  <2>1. \A x \in SCB \ {s} : scb[x].type # "peer" => scb'[x].peer = NULL
    BY <1>8 DEF IInv, FieldInv
  <2> QED BY <2>1, <1>2, <1>7, <1>8 DEF IInv, FieldInv
<1>19. CallInv'
  <2>1. ASSUME NEW u \in Thread, call'[u].op # "none"
        PROVE  /\ call'[u].op = call[u].op /\ call'[u].on = call[u].on
               /\ call[u].on \in SCB
               /\ call[u].op \in {"connect", "read"} => call[u].on # s
    <3>1. call'[u].op = call[u].op /\ call'[u].on = call[u].on
      BY <2>1, <1>4
    <3>2. call[u].on \in SCB
      BY <2>1, <3>1, Callers
    <3> QED BY <3>1, <3>2, <1>4
  <2>2. ASSUME NEW u \in Thread, call'[u].op = "none"
        PROVE  call'[u].on = NULL
    BY <2>2, <1>4 DEF IInv, CallInv
  <2>3. ASSUME NEW u \in Thread, call'[u].op = "accept"
        PROVE  /\ call'[u].on \in SCB
               /\ \/ Port_Map'[scb'[call'[u].on].port] = NULL
                  \/ Port_Map'[scb'[call'[u].on].port] = call'[u].on
                     /\ scb'[call'[u].on].refcount > 0
    <3> DEFINE k == call[u].on
    <3>1. /\ k \in SCB /\ call'[u].on = k /\ call[u].op = "accept"
          /\ \/ Port_Map[scb[k].port] = NULL
             \/ Port_Map[scb[k].port] = k /\ scb[k].refcount > 0
      BY <2>1, <2>3 DEF IInv, CallInv
    <3>2. scb'[k].port = scb[k].port /\ scb[k].port \in Port
      BY <3>1, <1>7, <1>8 DEF IInv, FieldInv
    <3> HIDE DEF k
    <3>3. CASE k # s
      BY <3>1, <3>2, <3>3, <1>5, <1>8
    <3>4. CASE k = s
      <4>1. Port_Map[scb[s].port] = s => scb[s].type = "listener"
        BY <1>2 DEF IInv, Ports
      <4> QED BY <3>1, <3>2, <3>4, <4>1, <1>5
    <3> QED BY <3>3, <3>4
  <2>4. ASSUME NEW u \in Thread, call'[u].op = "connect"
        PROVE  /\ call'[u].on \in open' /\ scb'[call'[u].on].type \in {"unbound", "peer"}
               /\ scb'[call'[u].on].refcount > 0
    BY <2>1, <2>4, <1>8 DEF IInv, CallInv
  <2>5. ASSUME NEW u \in Thread, call'[u].op = "read"
        PROVE  /\ call'[u].on \in SCB /\ scb'[call'[u].on].type = "peer"
               /\ scb'[call'[u].on].read_pipe \in Pipe
               /\ pipe'[scb'[call'[u].on].read_pipe].reader
    <3> DEFINE k == call[u].on
    <3>1. /\ k \in SCB /\ k # s /\ call'[u].on = k /\ call[u].op = "read"
          /\ scb[k].type = "peer" /\ scb[k].read_pipe \in Pipe
          /\ pipe[scb[k].read_pipe].reader
      BY <2>1, <2>5 DEF IInv, CallInv
    <3>2. Used(k)
      BY <3>1 DEF Used
    <3> HIDE DEF k
    <3>3. scb'[k].type = "peer" /\ scb'[k].read_pipe = scb[k].read_pipe
      BY <3>1, <1>8
    <3>4. scb[k].read_pipe # scb[s].read_pipe
      BY <3>1, <3>2, <1>14, NullIsNoSCB
    <3>5. closed[scb[k].read_pipe].reader
      BY <3>1, <3>4, <1>11
    <3>6. pipe'[scb[k].read_pipe] = closed[scb[k].read_pipe]
      BY <3>1, <3>3, <1>12
    <3> QED BY <3>1, <3>3, <3>5, <3>6
  <2> QED BY <2>2, <2>3, <2>4, <2>5 DEF CallInv
<1>20. CallerInv'
  BY <1>4 DEF IInv, CallerInv
<1>21. RequestInv'
  <2>1. \A k \in SCB : \A i \in 1 .. Len(queue'[k]) :
          i \in 1 .. Len(queue[k]) /\ queue'[k][i] = queue[k][i]
    <3>1. CASE scb'[s].type = "freed"
      <4>1. /\ \A k \in SCB \ {s} : queue'[k] = queue[k]
            /\ Len(queue'[s]) = 0
        BY <3>1, <1>1, <1>3 DEF Typed
      <4> QED BY <4>1
    <3>2. CASE scb'[s].type # "freed"
      BY <3>2, <1>3
    <3> QED BY <3>1, <3>2
  <2>2. \A x \in open : x # s => x \in open' /\ scb'[x].type = scb[x].type
    BY <1>1, <1>8 DEF Typed
  <2>3. ASSUME NEW k \in SCB, NEW i \in 1 .. Len(queue'[k])
        PROVE  /\ queue'[k][i].peer \in open' /\ scb'[queue'[k][i].peer].type = "unbound"
    BY <2>1, <2>2 DEF IInv, RequestInv
  <2>4. ASSUME NEW k \in SCB, NEW h \in SCB, NEW i \in 1 .. Len(queue'[k]),
               NEW j \in 1 .. Len(queue'[h]),
               queue'[k][i].peer = queue'[h][j].peer
        PROVE  k = h /\ i = j
    <3>1. /\ i \in 1 .. Len(queue[k]) /\ queue'[k][i] = queue[k][i]
          /\ j \in 1 .. Len(queue[h]) /\ queue'[h][j] = queue[h][j]
      BY <2>1
    <3> QED BY <2>4, <3>1 DEF IInv, RequestInv
  <2> QED BY <2>3, <2>4 DEF RequestInv
<1>22. Ports'
  <2> SUFFICES ASSUME NEW port \in Port, NEW x \in SCB
               PROVE  Port_Map'[port] = x <=>
                        x \in open' /\ scb'[x].type = "listener" /\ scb'[x].port = port
    BY DEF Ports
  <2>1. Port_Map[port] = x <=>
          x \in open /\ scb[x].type = "listener" /\ scb[x].port = port
    BY DEF IInv, Ports
  <2>2. Port_Map[port] = s <=>
          s \in open /\ scb[s].type = "listener" /\ scb[s].port = port
    BY DEF IInv, Ports
  <2>3. CASE x = s
    BY <2>2, <2>3, <1>2, <1>5, NullIsNoSCB
  <2>4. CASE x # s
    BY <2>1, <2>2, <2>4, <1>2, <1>5, <1>8, NullIsNoSCB
  <2> QED BY <2>3, <2>4
<1> QED BY <1>13, <1>15, <1>16, <1>17, <1>18, <1>19, <1>20, <1>21, <1>22, Types DEF IInv

\* A step of the file ids or of the calls that leaves every socket in use.
LEMMA Unclosed ==
  ASSUME IInv, scb' = scb, Port_Map' = Port_Map, queue' = queue, pipe' = pipe,
         open' \subseteq open, call' \in [Thread -> CallRecord],
         \A u \in Thread :
           \/ call'[u].op = call[u].op /\ call'[u].on = call[u].on
           \/ call[u].op = "read" /\ call'[u].op = "none" /\ call'[u].on = NULL,
         \A x \in SCB : Used(x) => Used(x)',
         \A x \in open \ open' :
           /\ scb[x].type = "peer"
           /\ \A u \in Thread : ~(call[u].op = "connect" /\ call[u].on = x)
           /\ \A l \in SCB : \A i \in 1 .. Len(queue[l]) : queue[l][i].peer # x
  PROVE  IInv'
<1>1. Typed'
  BY Types DEF IInv, Typed
<1>2. \A x \in SCB : Used(x)' => Used(x)
  BY DEF Used
<1>3. PipeInv' /\ PeerInv' /\ UseInv'
  BY <1>2, Quiet
<1>4. CallInv' /\ CallerInv'
  BY DEF IInv, CallInv, CallerInv
<1>5. FieldInv'
  BY DEF IInv, FieldInv
<1>6. RequestInv'
  BY DEF IInv, RequestInv
<1>7. Ports'
  BY DEF IInv, Ports
<1> QED BY <1>1, <1>3, <1>4, <1>5, <1>6, <1>7, Types DEF IInv

\* sys_Close of a socket.
LEMMA CloseStep ==
  ASSUME IInv, NEW s \in open, Idle(s), Close(s)
  PROVE  IInv'
<1>1. /\ open' = open \ {s}
      /\ IF In("read", s) = {} THEN socket_close(s, pipe, call)
         ELSE UNCHANGED <<scb, Port_Map, queue, pipe, call>>
  BY DEF Close
<1>2. Typed /\ s \in SCB /\ Used(s)
  BY Types DEF IInv, Typed, Used
<1>3. /\ \A l \in SCB : \A i \in 1 .. Len(queue[l]) : queue[l][i].peer # s
      /\ \A u \in Thread : ~(call[u].op = "connect" /\ call[u].on = s)
  BY <1>2, QueueDomain DEF Idle, Requested, In
<1>4. call \in [Thread -> CallRecord]
  BY <1>2 DEF Typed
<1>5. CASE In("read", s) = {}
  <2>1. \A u \in Thread : ~(call[u].op = "read" /\ call[u].on = s)
    BY <1>5 DEF In
  <2>2. socket_close(s, pipe, call)
    BY <1>1, <1>5
  <2> QED BY <2>1, <2>2, <1>1, <1>2, <1>3, <1>4, CloseLemma
<1>6. CASE In("read", s) # {}
  <2>1. PICK v \in Thread : call[v].op = "read" /\ call[v].on = s
    BY <1>6 DEF In
  <2>2. scb[s].type = "peer"
    BY <2>1 DEF IInv, CallInv
  <2>3. /\ scb' = scb /\ Port_Map' = Port_Map /\ queue' = queue
        /\ pipe' = pipe /\ call' = call
    BY <1>1, <1>6
  <2>4. \A x \in SCB : Used(x) => Used(x)'
    BY <2>1, <2>3, <1>1 DEF Used
  <2> QED BY <2>2, <2>3, <2>4, <1>1, <1>3, <1>4, Unclosed
<1> QED BY <1>5, <1>6

\* The end of pipe_read: of the call, and perhaps of the socket.
LEMMA ReadEndsStep ==
  ASSUME IInv, NEW t \in Thread, ReadEnds(t)
  PROVE  IInv'
<1> DEFINE s == call[t].on
           returned == [call EXCEPT ![t] = User]
<1>1. /\ call[t].op = "read" /\ open' = open
      /\ IF s \notin open /\ In("read", s) = {t} THEN socket_close(s, pipe, returned)
         ELSE /\ call' = returned /\ scb' = scb /\ Port_Map' = Port_Map
              /\ queue' = queue /\ pipe' = pipe
  BY DEF ReadEnds
<1>2. Typed
  BY Types DEF IInv
<1>3. s \in SCB /\ Used(s) /\ scb[s].type = "peer"
  BY <1>1, Callers DEF IInv, CallInv, Used
<1>4. /\ returned \in [Thread -> CallRecord]
      /\ returned[t].op = "none" /\ returned[t].on = NULL
      /\ \A u \in Thread \ {t} : returned[u] = call[u]
  BY <1>2, UserFields DEF Typed
<1>5. PICK k \in SCB : k = s
  BY <1>3
<1> HIDE DEF returned
<1>6. CASE s \notin open /\ In("read", s) = {t}
  <2>1. socket_close(k, pipe, returned) /\ open' = open \ {k} /\ Used(k)
    BY <1>1, <1>3, <1>5, <1>6
  <2>2. \A u \in Thread :
          /\ ~(returned[u].op = "read" /\ returned[u].on = k)
          /\ \/ returned[u].op = call[u].op /\ returned[u].on = call[u].on
             \/ /\ returned[u].op = "none" /\ returned[u].on = NULL
                /\ call[u].op = "read" /\ call[u].on = k
    BY <1>1, <1>4, <1>5, <1>6 DEF In
  <2>3. \A u \in Thread : ~(call[u].op = "connect" /\ call[u].on = k)
    BY <1>5, <1>6 DEF IInv, CallInv
  <2>4. \A l \in SCB : \A i \in 1 .. Len(queue[l]) : queue[l][i].peer # k
    BY <1>5, <1>6 DEF IInv, RequestInv
  <2> QED BY <2>1, <2>2, <2>3, <2>4, <1>4, CloseLemma
<1>7. CASE ~(s \notin open /\ In("read", s) = {t})
  <2>1. /\ call' = returned /\ scb' = scb /\ Port_Map' = Port_Map
        /\ queue' = queue /\ pipe' = pipe
    BY <1>1, <1>7
  <2>2. \A u \in Thread :
          \/ call'[u].op = call[u].op /\ call'[u].on = call[u].on
          \/ call[u].op = "read" /\ call'[u].op = "none" /\ call'[u].on = NULL
    BY <2>1, <1>1, <1>4
  <2>3. Used(k)'
    <3>1. CASE s \in open
      BY <3>1, <1>1, <1>5 DEF Used
    <3>2. CASE In("read", s) # {t}
      <4>1. PICK u \in Thread \ {t} : call[u].op = "read" /\ call[u].on = s
        BY <3>2, <1>1 DEF In
      <4> QED BY <4>1, <2>1, <1>4, <1>5 DEF Used
    <3> QED BY <3>1, <3>2, <1>7
  <2>4. \A x \in SCB : Used(x) => Used(x)'
    <3> SUFFICES ASSUME NEW x \in SCB, Used(x), x # k
                 PROVE  Used(x)'
      BY <2>3
    <3>1. CASE x \in open
      BY <3>1, <1>1 DEF Used
    <3>2. CASE \E u \in Thread : call[u].op = "read" /\ call[u].on = x
      BY <3>2, <2>1, <1>4, <1>5 DEF Used
    <3> QED BY <3>1, <3>2 DEF Used
  <2> QED BY <2>1, <2>2, <2>4, <1>1, <1>4, Unclosed
<1> QED BY <1>6, <1>7

\* A ShutDown closes an end of a pipe whose other end is open, forgets pipes, and
\* keeps the reader of a pipe that somebody reads.
LEMMA ShutDown ==
  ASSUME IInv, NEW s \in open, scb[s].type = "peer",
         scb' \in [SCB -> SCBRecord],
         \A x \in SCB :
           /\ scb'[x].type = scb[x].type /\ scb'[x].port = scb[x].port
           /\ scb'[x].refcount = scb[x].refcount /\ scb'[x].peer = scb[x].peer
           /\ scb'[x].write_pipe \in {scb[x].write_pipe, NULL}
           /\ scb'[x].read_pipe \in {scb[x].read_pipe, NULL}
           /\ scb'[x].read_pipe # scb[x].read_pipe => x = s,
         pipe' \in [Pipe -> PipeRecord],
         \A q \in Pipe :
           /\ pipe[q].reader => pipe'[q].reader \/ q = scb[s].read_pipe
           /\ pipe'[q] # pipe[q] => pipe'[q].writer \/ pipe'[q].reader,
         \/ \A u \in Thread : ~(call[u].op = "read" /\ call[u].on = s)
         \/ /\ \A q \in Pipe : pipe'[q].reader = pipe[q].reader
            /\ \A x \in SCB : scb'[x].read_pipe = scb[x].read_pipe,
         open' = open, Port_Map' = Port_Map, queue' = queue, call' = call
  PROVE  IInv'
<1>1. Typed
  BY Types DEF IInv
<1>2. Typed'
  BY <1>1 DEF Typed, PipeRecord
<1>3. \A x \in SCB : Used(x)' <=> Used(x)
  BY DEF Used
<1>4. PipeInv'
  BY <1>3, NullIsNoSCB DEF IInv, PipeInv
<1>5. PeerInv'
  BY <1>3, NullIsNoSCB DEF IInv, PeerInv
<1>6. UseInv'
  <2> SUFFICES ASSUME NEW x \in SCB, Used(x)'
               PROVE  /\ scb'[x].type # "freed"
                      /\ scb'[x].peer # NULL =>
                           \A q \in {scb'[x].read_pipe, scb'[x].write_pipe} \ {NULL} :
                             pipe'[q].writer \/ pipe'[q].reader
    BY DEF UseInv
  <2>1. Used(x) /\ scb[x].type # "freed"
    BY <1>3 DEF IInv, UseInv
  <2>2. ASSUME scb'[x].peer # NULL,
               NEW q \in {scb'[x].read_pipe, scb'[x].write_pipe} \ {NULL}
        PROVE  pipe'[q].writer \/ pipe'[q].reader
    <3>1. q \in {scb[x].read_pipe, scb[x].write_pipe} \ {NULL} /\ scb[x].peer # NULL
      BY <2>2
    <3>2. q \in Pipe
      BY <3>1, <1>1, Fields
    <3>3. pipe[q].writer \/ pipe[q].reader
      BY <2>1, <3>1 DEF IInv, UseInv
    <3> QED BY <3>2, <3>3
  <2> QED BY <2>1, <2>2
<1>7. FieldInv'
  BY DEF IInv, FieldInv
<1>8. CallInv' /\ CallerInv'
  <2>1. CallerInv'
    BY DEF IInv, CallerInv
  <2>2. ASSUME NEW u \in Thread, call[u].op = "read"
        PROVE  /\ call[u].on \in SCB /\ scb'[call[u].on].type = "peer"
               /\ scb'[call[u].on].read_pipe \in Pipe
               /\ pipe'[scb'[call[u].on].read_pipe].reader
    <3> DEFINE k == call[u].on
    <3>1. /\ k \in SCB /\ scb[k].type = "peer" /\ scb[k].read_pipe \in Pipe
          /\ pipe[scb[k].read_pipe].reader
      BY <2>2 DEF IInv, CallInv
    <3>2. Used(k) /\ Used(s) /\ s \in SCB
      BY <2>2, <1>1 DEF Used, Typed
    <3>3. call[u].on = k
      OBVIOUS
    <3> HIDE DEF k
    <3>4. CASE k # s
      <4>1. scb[k].read_pipe # scb[s].read_pipe
        BY <3>1, <3>2, <3>4, NullIsNoSCB DEF IInv, PipeInv
      <4> QED BY <3>1, <3>3, <3>4, <4>1
    <3>5. CASE k = s
      <4>1. /\ \A q \in Pipe : pipe'[q].reader = pipe[q].reader
            /\ \A x \in SCB : scb'[x].read_pipe = scb[x].read_pipe
        <5>1. \E v \in Thread : call[v].op = "read" /\ call[v].on = s
          BY <2>2, <3>3, <3>5
        <5> QED BY <5>1
      <4> QED BY <3>1, <3>3, <4>1
    <3> QED BY <3>4, <3>5
  <2>3. \A u \in Thread : call[u].op # "none" => call[u].on \in SCB
    BY Callers
  <2> QED BY <2>1, <2>2, <2>3 DEF IInv, CallInv
<1>9. RequestInv'
  <2>1. \A x \in open : x \in open' /\ scb'[x].type = scb[x].type
    BY <1>1 DEF Typed
  <2>2. queue' = queue
    OBVIOUS
  <2> QED BY <2>1, <2>2 DEF IInv, RequestInv
<1>10. Ports'
  BY DEF IInv, Ports
<1> QED BY <1>2, <1>4, <1>5, <1>6, <1>7, <1>8, <1>9, <1>10, Types DEF IInv

\* sys_ShutDown, SHUTDOWN_READ.
LEMMA ShutDownReadStep ==
  ASSUME IInv, NEW s \in open, Whole(scb[s].read_pipe), In("read", s) = {},
         ShutDownRead(s)
  PROVE  IInv'
<1> DEFINE q == scb[s].read_pipe
<1>1. /\ pipe' = pipe_reader_close(pipe, q) /\ scb[s].type = "peer" /\ q # NULL
      /\ scb' = scb /\ open' = open /\ Port_Map' = Port_Map
      /\ queue' = queue /\ call' = call /\ pipe[q].writer
  BY DEF ShutDownRead, Whole
<1>2. Typed /\ pipe \in [Pipe -> PipeRecord]
  BY Types DEF IInv, Typed, PipeRecord
<1>3. q \in Pipe
  BY <1>1, <1>2, Fields DEF Typed
<1> HIDE DEF q
<1>4. /\ pipe' \in [Pipe -> PipeRecord]
      /\ \A x \in Pipe :
           /\ pipe'[x].reader = (pipe[x].reader /\ x # q)
           /\ pipe'[x].writer = pipe[x].writer
           /\ pipe[x] \in PipeRecord
  BY <1>1, <1>2, <1>3, PipeEnds
<1>5. \A x \in Pipe : x # q => pipe'[x] = pipe[x]
  BY <1>2, <1>3, <1>1 DEF pipe_reader_close
<1>6. \A u \in Thread : ~(call[u].op = "read" /\ call[u].on = s)
  BY DEF In
<1>7. \A x \in Pipe :
        /\ pipe[x].reader => pipe'[x].reader \/ x = scb[s].read_pipe
        /\ pipe'[x] # pipe[x] => pipe'[x].writer \/ pipe'[x].reader
  BY <1>1, <1>4, <1>5 DEF q
<1>8. scb' \in [SCB -> SCBRecord]
  BY <1>1, <1>2 DEF Typed
<1> QED BY <1>1, <1>4, <1>6, <1>7, <1>8, ShutDown

\* sys_ShutDown, SHUTDOWN_WRITE.
LEMMA ShutDownWriteStep ==
  ASSUME IInv, NEW s \in open, Whole(scb[s].write_pipe), ShutDownWrite(s)
  PROVE  IInv'
<1> DEFINE q == scb[s].write_pipe
<1>1. /\ pipe' = pipe_writer_close(pipe, q) /\ scb[s].type = "peer" /\ q # NULL
      /\ scb' = [scb EXCEPT ![s].write_pipe = NULL]
      /\ open' = open /\ Port_Map' = Port_Map
      /\ queue' = queue /\ call' = call /\ pipe[q].reader
  BY DEF ShutDownWrite, Whole
<1>2. Typed /\ pipe \in [Pipe -> PipeRecord] /\ s \in SCB
  BY Types DEF IInv, Typed, PipeRecord
<1>3. q \in Pipe
  BY <1>1, <1>2, Fields
<1> HIDE DEF q
<1>4. /\ pipe' \in [Pipe -> PipeRecord]
      /\ \A x \in Pipe :
           /\ pipe'[x].writer = (pipe[x].writer /\ x # q)
           /\ pipe'[x].reader = pipe[x].reader
  BY <1>1, <1>2, <1>3, PipeEnds
<1>5. \A x \in Pipe : x # q => pipe'[x] = pipe[x]
  BY <1>2, <1>3, <1>1 DEF pipe_writer_close
<1>6. \A x \in Pipe :
        /\ pipe[x].reader => pipe'[x].reader \/ x = scb[s].read_pipe
        /\ pipe'[x] # pipe[x] => pipe'[x].writer \/ pipe'[x].reader
  BY <1>1, <1>4, <1>5
<1>7. /\ scb' \in [SCB -> SCBRecord]
      /\ \A x \in SCB :
           /\ scb'[x].type = scb[x].type /\ scb'[x].port = scb[x].port
           /\ scb'[x].refcount = scb[x].refcount /\ scb'[x].peer = scb[x].peer
           /\ scb'[x].write_pipe \in {scb[x].write_pipe, NULL}
           /\ scb'[x].read_pipe = scb[x].read_pipe
  <2> DEFINE r == [scb[s] EXCEPT !.write_pipe = NULL]
  <2>1. /\ r \in SCBRecord /\ r.type = scb[s].type /\ r.port = scb[s].port
        /\ r.refcount = scb[s].refcount /\ r.peer = scb[s].peer
        /\ r.write_pipe = NULL /\ r.read_pipe = scb[s].read_pipe
    BY <1>2, Fields DEF SCBRecord
  <2>2. scb' = [scb EXCEPT ![s] = r]
    BY <1>1
  <2> HIDE DEF r
  <2>3. scb' \in [SCB -> SCBRecord] /\ \A x \in SCB : scb'[x] = IF x = s THEN r ELSE scb[x]
    BY <2>1, <2>2, <1>2 DEF Typed
  <2> QED BY <2>1, <2>3
<1> QED BY <1>1, <1>4, <1>6, <1>7, ShutDown

\* sys_ShutDown, SHUTDOWN_BOTH.
LEMMA ShutDownBothStep ==
  ASSUME IInv, NEW s \in open, Whole(scb[s].read_pipe), In("read", s) = {},
         ShutDownBoth(s)
  PROVE  IInv'
<1> DEFINE q == scb[s].read_pipe
<1>1. /\ pipe' = pipe_reader_close(pipe, q) /\ scb[s].type = "peer" /\ q # NULL
      /\ scb' = [scb EXCEPT ![s].read_pipe = NULL, ![s].write_pipe = NULL]
      /\ open' = open /\ Port_Map' = Port_Map
      /\ queue' = queue /\ call' = call /\ pipe[q].writer
  BY DEF ShutDownBoth, Whole
<1>2. Typed /\ pipe \in [Pipe -> PipeRecord] /\ s \in SCB
  BY Types DEF IInv, Typed, PipeRecord
<1>3. q \in Pipe
  BY <1>1, <1>2, Fields
<1> HIDE DEF q
<1>4. /\ pipe' \in [Pipe -> PipeRecord]
      /\ \A x \in Pipe :
           /\ pipe'[x].reader = (pipe[x].reader /\ x # q)
           /\ pipe'[x].writer = pipe[x].writer
  BY <1>1, <1>2, <1>3, PipeEnds
<1>5. \A x \in Pipe : x # q => pipe'[x] = pipe[x]
  BY <1>2, <1>3, <1>1 DEF pipe_reader_close
<1>6. \A u \in Thread : ~(call[u].op = "read" /\ call[u].on = s)
  BY DEF In
<1>7. \A x \in Pipe :
        /\ pipe[x].reader => pipe'[x].reader \/ x = scb[s].read_pipe
        /\ pipe'[x] # pipe[x] => pipe'[x].writer \/ pipe'[x].reader
  <2>1. \A x \in Pipe : pipe[x].reader \in BOOLEAN
    BY <1>2 DEF PipeRecord
  <2> QED BY <2>1, <1>1, <1>4, <1>5 DEF q
<1>8. /\ scb' \in [SCB -> SCBRecord]
      /\ \A x \in SCB :
           /\ scb'[x].type = scb[x].type /\ scb'[x].port = scb[x].port
           /\ scb'[x].refcount = scb[x].refcount /\ scb'[x].peer = scb[x].peer
           /\ scb'[x].write_pipe \in {scb[x].write_pipe, NULL}
           /\ scb'[x].read_pipe \in {scb[x].read_pipe, NULL}
           /\ scb'[x].read_pipe # scb[x].read_pipe => x = s
  <2> DEFINE r == [scb[s] EXCEPT !.read_pipe = NULL, !.write_pipe = NULL]
  <2>1. /\ r \in SCBRecord /\ r.type = scb[s].type /\ r.port = scb[s].port
        /\ r.refcount = scb[s].refcount /\ r.peer = scb[s].peer
        /\ r.write_pipe = NULL /\ r.read_pipe = NULL
    BY <1>2, Fields DEF SCBRecord
  <2>2. scb' = [scb EXCEPT ![s] = r]
    BY <1>1, <1>2 DEF Typed
  <2> HIDE DEF r
  <2>3. scb' \in [SCB -> SCBRecord] /\ \A x \in SCB : scb'[x] = IF x = s THEN r ELSE scb[x]
    BY <2>1, <2>2, <1>2 DEF Typed
  <2> QED BY <2>1, <2>3
<1> QED BY <1>1, <1>4, <1>6, <1>7, <1>8, ShutDown

\* sys_Accept, from its call and from its wakeups.
LEMMA AcceptSteps ==
  ASSUME IInv, NEW t \in Thread,
         \/ \E l \in open : In("accept", l) = {} /\ Accept(t, l)
         \/ AcceptWake(t)
  PROVE  IInv'
<1>1. Typed
  BY Types DEF IInv
<1>2. CASE \E l \in open : In("accept", l) = {} /\ Accept(t, l)
  <2>1. PICK l \in open : In("accept", l) = {} /\ Accept(t, l)
    BY <1>2
  <2> DEFINE refs == scb[l].refcount + 1
  <2>2. /\ call[t].op = "none" /\ scb[l].type = "listener" /\ AcceptBody(t, l, refs)
    BY <2>1, UserFields DEF Accept
  <2>3. l \in SCB
    BY <1>1 DEF Typed
  <2>4. scb[l].refcount \in Nat
    BY <1>1, <2>3, Fields
  <2>5. refs \in Nat \ {0} /\ refs \in Nat /\ refs >= scb[l].refcount
    BY <2>4
  <2>6. Port_Map[scb[l].port] \in {l, NULL}
    BY <2>2, <2>3 DEF IInv, Ports, FieldInv
  <2>7. \A u \in Thread \ {t} : ~(call[u].op = "accept" /\ call[u].on = l)
    BY <2>1 DEF In
  <2>8. scb[l].type # "peer" /\ call[t].op \in {"none", "accept"}
    BY <2>2
  <2> HIDE DEF refs
  <2>9. CASE AcceptWaits(t, l, refs)
    BY <2>3, <2>5, <2>6, <2>7, <2>8, <2>9, AcceptWaitsStep
  <2>10. CASE AcceptRefuses(t, l, refs)
    BY <2>3, <2>5, <2>8, <2>10, AcceptRefusesStep
  <2>11. CASE AcceptServes(t, l, refs)
    BY <2>3, <2>5, <2>6, <2>7, <2>8, <2>11, AcceptServesStep
  <2> QED BY <2>2, <2>9, <2>10, <2>11 DEF AcceptBody
<1>3. CASE AcceptWake(t)
  <2>1. call[t].op = "accept" /\ AcceptBody(t, call[t].on, scb[call[t].on].refcount)
    BY <1>3 DEF AcceptWake
  <2>2. PICK l \in SCB : l = call[t].on
    BY <2>1, Callers
  <2>3. /\ \/ Port_Map[scb[l].port] = NULL
           \/ Port_Map[scb[l].port] = l /\ scb[l].refcount > 0
        /\ \A u \in Thread \ {t} : ~(call[u].op = "accept" /\ call[u].on = l)
    BY <2>1, <2>2 DEF IInv, CallInv, CallerInv
  <2>4. PICK refs \in Nat : refs = scb[l].refcount
    BY <1>1, Fields
  <2>5. AcceptBody(t, l, refs) /\ call[t].op \in {"none", "accept"}
    BY <2>1, <2>2, <2>4
  <2>6. Port_Map[scb[l].port] # NULL => refs \in Nat \ {0} /\ scb[l].type # "peer"
    BY <2>3, <2>4, NullIsNoSCB DEF IInv, Ports, FieldInv
  <2>7. Port_Map[scb[l].port] \in {l, NULL} /\ refs >= scb[l].refcount
    BY <2>3, <2>4
  <2>8. CASE AcceptWaits(t, l, refs)
    <3>1. Port_Map[scb[l].port] # NULL
      BY <2>8 DEF AcceptWaits
    <3> QED BY <2>3, <2>5, <2>6, <2>7, <2>8, <3>1, AcceptWaitsStep
  <2>9. CASE AcceptRefuses(t, l, refs)
    BY <2>5, <2>7, <2>9, AcceptRefusesStep
  <2>10. CASE AcceptServes(t, l, refs)
    <3>1. Port_Map[scb[l].port] # NULL
      BY <2>10 DEF AcceptServes
    <3> QED BY <2>3, <2>5, <2>6, <2>7, <2>10, <3>1, AcceptServesStep
  <2> QED BY <2>5, <2>8, <2>9, <2>10 DEF AcceptBody
<1> QED BY <1>2, <1>3

LEMMA SocketNext == IInv /\ [Next]_vars => IInv'
<1> SUFFICES ASSUME IInv, [Next]_vars
             PROVE  IInv'
  OBVIOUS
<1>1. ASSUME NEW port \in Port, Room /\ Socket(port)
      PROVE  IInv'
  BY <1>1, SocketStep
<1>2. ASSUME NEW s \in open, Idle(s) /\ Closable(s) /\ Close(s)
      PROVE  IInv'
  BY <1>2, CloseStep
<1>3. ASSUME NEW s \in open, Idle(s) /\ Settled(scb[s].port) /\ Listen(s)
      PROVE  IInv'
  BY <1>3, ListenStep
<1>4. ASSUME NEW s \in open, NEW t \in Thread, Write(s, t)
      PROVE  IInv'
  BY <1>4, ReadEndsStep DEF Write
<1>5. ASSUME NEW s \in open,
             Whole(scb[s].read_pipe) /\ In("read", s) = {} /\ ShutDownRead(s)
      PROVE  IInv'
  BY <1>5, ShutDownReadStep
<1>6. ASSUME NEW s \in open, Whole(scb[s].write_pipe) /\ ShutDownWrite(s)
      PROVE  IInv'
  BY <1>6, ShutDownWriteStep
<1>7. ASSUME NEW s \in open,
             /\ Whole(scb[s].read_pipe) /\ Whole(scb[s].write_pipe)
             /\ In("read", s) = {} /\ ShutDownBoth(s)
      PROVE  IInv'
  BY <1>7, ShutDownBothStep
<1>8. ASSUME NEW s \in open, NEW t \in Thread, In("accept", s) = {} /\ Accept(t, s)
      PROVE  IInv'
  BY <1>8, AcceptSteps
<1>9. ASSUME NEW s \in open, NEW t \in Thread, Read(t, s)
      PROVE  IInv'
  BY <1>9, ReadStep
<1>10. ASSUME NEW s \in open, NEW t \in Thread, NEW port \in Port,
              NEW patient \in BOOLEAN,
              Idle(s) /\ scb[s].refcount < MAX_REFS /\ Connect(t, s, port, patient)
       PROVE  IInv'
  BY <1>10, ConnectStep
<1>11. ASSUME NEW t \in Thread, Expire(t)
       PROVE  IInv'
  BY <1>11, ExpireStep
<1>12. ASSUME NEW t \in Thread, AcceptWake(t)
       PROVE  IInv'
  BY <1>12, AcceptSteps
<1>13. ASSUME NEW t \in Thread, ConnectWake(t)
       PROVE  IInv'
  BY <1>13, ConnectWakeStep
<1>14. ASSUME NEW t \in Thread, ReadEOF(t)
       PROVE  IInv'
  BY <1>14, ReadEndsStep DEF ReadEOF
<1>15. CASE UserCalls
  BY <1>15, <1>1, <1>2, <1>3, <1>4, <1>5, <1>6, <1>7, <1>8, <1>9, <1>10, Zenon
  DEF UserCalls
<1>16. CASE \E t \in Thread : Expire(t) \/ Returns(t)
  BY <1>16, <1>11, <1>12, <1>13, <1>14, Zenon DEF Returns
<1>17. CASE UNCHANGED vars
  <2>1. /\ scb' = scb /\ open' = open /\ Port_Map' = Port_Map
        /\ queue' = queue /\ pipe' = pipe /\ call' = call
    BY <1>17 DEF vars
  <2>2. \A x \in SCB : Used(x)' <=> Used(x)
    BY <2>1 DEF Used
  <2>3. call' \in [Thread -> CallRecord]
    BY <2>1, Types DEF IInv, Typed
  <2> QED BY <2>1, <2>2, <2>3, Unclosed
<1> QED BY <1>15, <1>16, <1>17 DEF Next

-----------------------------------------------------------------------------
(* The theorems.                                                           *)

\* The inductive invariant says of every reachable state what each call that
\* waits, each queued request and each pipe in use relies on.
THEOREM SocketInvariant == Spec => []IInv
BY SocketInit, SocketNext, PTL DEF Spec

\* kernel_socket.c: ports belong to open listeners, connected sockets are each
\* other's peers over crossed pipes, and neither a close, a Read nor an Accept
\* uses what has been freed.
THEOREM SocketsAreSound == Spec => []SocketsSound
<1>1. IInv => SocketsSound
  <2> SUFFICES ASSUME IInv
               PROVE  SocketsSound
    OBVIOUS
  <2>1. Typed
    BY Types DEF IInv
  <2>2. \A s \in SCB : InUse(s) <=> Used(s)
    BY Using
  <2>3. Connected
    <3> SUFFICES ASSUME NEW s \in SCB, Used(s), scb[s].peer # NULL, scb[s].type = "peer"
                 PROVE  \E r \in SCB :
                          /\ r = scb[s].peer
                          /\ Used(r) /\ r # s /\ scb[r].type = "peer" /\ scb[r].peer = s
                          /\ scb[s].read_pipe # scb[s].write_pipe \/ scb[s].read_pipe = NULL
                          /\ \/ NULL \in {scb[s].write_pipe, scb[r].read_pipe}
                             \/ scb[s].write_pipe = scb[r].read_pipe
      BY <2>2 DEF Connected
    <3>1. scb[s].read_pipe # scb[s].write_pipe \/ scb[s].read_pipe = NULL
      BY DEF IInv, PipeInv
    <3> QED BY <3>1 DEF IInv, PeerInv
  <2>4. NoFreedUse
    <3>1. ASSUME NEW s \in SCB, InUse(s)
          PROVE  scb[s].type # "freed"
      BY <3>1, <2>2 DEF IInv, UseInv
    <3>2. ASSUME NEW s \in SCB, InUse(s), scb[s].peer # NULL,
                 NEW q \in {scb[s].read_pipe, scb[s].write_pipe} \ {NULL}
          PROVE  pipe[q] # FreedPipe
      BY <3>2, <2>2 DEF IInv, UseInv, FreedPipe
    <3>3. ASSUME NEW s \in SCB, Requested(s)
          PROVE  s \in open
      BY <3>3, <2>1, QueueDomain DEF IInv, RequestInv, Requested
    <3>4. ASSUME NEW t \in Thread, call[t].op = "read"
          PROVE  pipe[scb[call[t].on].read_pipe] # FreedPipe
      BY <3>4 DEF IInv, CallInv, FreedPipe
    <3> QED BY <3>1, <3>2, <3>3, <3>4 DEF NoFreedUse
  <2> QED BY <2>3, <2>4 DEF SocketsSound, IInv
<1> QED BY <1>1, SocketInvariant, PTL

=============================================================================
