-------------------------------- MODULE Socket --------------------------------
(***************************************************************************)
(* Sockets: kernel_socket.c.                                               *)
(*                                                                         *)
(* A listener owns a port and a queue of the requests of Connect; Accept   *)
(* takes the first one and joins its socket to a new one by two pipes.  A  *)
(* call runs under the kernel lock, so it is a step up to the point where  *)
(* it waits and a step from its wakeup on; call[t] says where thread t is. *)
(*                                                                         *)
(* The file id of a socket is the socket itself: Streams has the table of  *)
(* file ids, and the two calls that hold an FCB while they wait, Read and  *)
(* Write.  Pipe has the buffer of a pipe; here a Read is one that finds no *)
(* data, and goes on when there are some or no writer is left, for both    *)
(* are broadcast.  Calls that fail and change nothing are left out.        *)
(*                                                                         *)
(* Memory is the numbers 1 .. MAX_SCB and 1 .. MAX_PIPES; xmalloc gives    *)
(* the first that nothing refers to, so what the code leaks is available   *)
(* again, and a freed socket keeps its port as long as a call looks at it. *)
(***************************************************************************)
EXTENDS Integers, FiniteSets, Sequences

CONSTANTS
  Thread, Port, MAX_SCB, MAX_PIPES, NULL,
  MAX_REFS         \* bound: the references that failed Connects leave to a socket

ASSUME SocketAssumption ==
  /\ IsFiniteSet(Thread) /\ Port # {}
  /\ MAX_SCB \in Nat /\ MAX_PIPES \in Nat /\ NULL \notin Int

VARIABLES
  scb,        \* the socket control blocks
  open,       \* the sockets that a file id refers to
  Port_Map,
  queue,      \* of each listener: the requests, each the socket and the thread
              \* of its Connect, or NULL when that has returned
  pipe,       \* which of its ends are open
  call        \* of each thread: the call that waits, and how its wait ended

vars == <<scb, open, Port_Map, queue, pipe, call>>

SCB  == 1 .. MAX_SCB
Pipe == 1 .. MAX_PIPES

Call(op, s, woken) == [op |-> op, on |-> s, woken |-> woken, admitted |-> FALSE,
                       patient |-> TRUE]
User == Call("none", NULL, "")

Freed(port) == [type |-> "freed", refcount |-> 0, port |-> port, peer |-> NULL,
                read_pipe |-> NULL, write_pipe |-> NULL]

FreedPipe == [writer |-> FALSE, reader |-> FALSE]
NewPipe   == [writer |-> TRUE, reader |-> TRUE]

Init ==
  /\ scb = [s \in SCB |-> Freed(CHOOSE port \in Port : TRUE)]
  /\ open = {}
  /\ Port_Map = [port \in Port |-> NULL]
  /\ queue = [s \in SCB |-> <<>>]
  /\ pipe = [q \in Pipe |-> FreedPipe]
  /\ call = [t \in Thread |-> User]

In(op, s) == {t \in Thread : call[t].op = op /\ call[t].on = s}

Requested(s) ==
  \E l \in SCB : \E i \in DOMAIN queue[l] : queue[l][i].peer = s

-----------------------------------------------------------------------------
(* Memory.                                                                 *)

AvailableSCBs ==
  {s \in SCB \ open : ~Requested(s) /\ \A t \in Thread : call[t].on # s}

AvailablePipes ==
  {q \in Pipe : \A s \in SCB \ AvailableSCBs :
                  scb[s].read_pipe # q /\ scb[s].write_pipe # q}

First(S) == CHOOSE x \in S : \A y \in S : x <= y

-----------------------------------------------------------------------------
(* Closing.                                                                *)

pipe_writer_close(p, q) == [p EXCEPT ![q].writer = FALSE]
pipe_reader_close(p, q) == [p EXCEPT ![q].reader = FALSE]

\* Both ends of a peer, unless the other peer has closed first.
PipesClosed_Swapped(p, s) ==
  IF scb[s].type # "peer" \/ scb[s].peer = NULL THEN p
  ELSE pipe_reader_close(pipe_writer_close(p, scb[s].read_pipe), scb[s].write_pipe)

PipesClosed(p, s) ==
  IF scb[s].type # "peer" \/ scb[s].peer = NULL THEN p
  ELSE pipe_reader_close(pipe_writer_close(p, scb[s].write_pipe), scb[s].read_pipe)

PeerForgets_Not(peer) == peer

PeerForgets(peer) == NULL

Unreferenced(refcount) == refcount - 1 <= 0

Decremented(block) == [block EXCEPT !.refcount = @ - 1]

SCBsClosed(s) ==
  [r \in SCB |->
    IF r = s
    THEN IF Unreferenced(scb[s].refcount) THEN Freed(scb[s].port)
         ELSE Decremented(scb[s])
    ELSE IF scb[s].type = "peer" /\ scb[s].peer = r
         THEN [scb[r] EXCEPT !.peer = PeerForgets(@)]
         ELSE scb[r]]

PortClosed(l) == [Port_Map EXCEPT ![scb[l].port] = NULL]

\* A signal wakes one of the sleepers, if there is one.
Signalled(calls, sleepers, u) ==
  IF sleepers = {} THEN calls ELSE [calls EXCEPT ![u].woken = "signal"]

Sleepers(op, s) == {t \in In(op, s) : call[t].woken = "no"}

OneOf(S) == IF S = {} THEN {NULL} ELSE S

\* Whom the close of a listener wakes.
WokenByClose(l) == Sleepers("accept", l)

\* A pipe that no socket refers to is gone, freed or not.
Reachable(p, scbs) ==
  [q \in Pipe |-> IF \E s \in SCB : q \in {scbs[s].read_pipe, scbs[s].write_pipe}
                  THEN p[q] ELSE FreedPipe]

\* socket_close, after which the pipes are p and the calls are calls.
socket_close(s, p, calls) ==
  /\ scb' = SCBsClosed(s)
  /\ pipe' = Reachable(PipesClosed(p, s), scb')
  /\ queue' = IF scb'[s].type = "freed" THEN [queue EXCEPT ![s] = <<>>] ELSE queue
  /\ IF scb[s].type = "listener"
     THEN /\ Port_Map' = PortClosed(s)
          /\ \E u \in OneOf(WokenByClose(s)) :
               call' = Signalled(calls, WokenByClose(s), u)
     ELSE call' = calls /\ UNCHANGED Port_Map

\* The last reference to the FCB is that of the file id, or of a Read.
Close(s) ==
  /\ s \in open
  /\ open' = open \ {s}
  /\ IF In("read", s) = {} THEN socket_close(s, pipe, call)
     ELSE UNCHANGED <<scb, Port_Map, queue, pipe, call>>

-----------------------------------------------------------------------------
(* Making sockets.                                                         *)

New(type, port) == [Freed(port) EXCEPT !.type = type]

Socket(port) ==
  /\ AvailableSCBs # {}
  /\ LET s == First(AvailableSCBs)
     IN  scb' = [scb EXCEPT ![s] = New("unbound", port)] /\ open' = open \cup {s}
  /\ UNCHANGED <<Port_Map, queue, pipe, call>>

PortFree(port) == Port_Map[port] = NULL

Listen(s) ==
  /\ s \in open /\ scb[s].type = "unbound"
  /\ scb[s].port \in Port /\ PortFree(scb[s].port)
  /\ Port_Map' = [Port_Map EXCEPT ![scb[s].port] = s]
  /\ scb' = [scb EXCEPT ![s].type = "listener"]
  /\ queue' = [queue EXCEPT ![s] = <<>>]
  /\ UNCHANGED <<open, pipe, call>>

-----------------------------------------------------------------------------
(* Accept.                                                                 *)

\* The queue is empty and the port is valid: wait.
AcceptWaits(t, l, refs) ==
  /\ queue[l] = <<>> /\ Port_Map[scb[l].port] # NULL
  /\ scb' = [scb EXCEPT ![l].refcount = refs]
  /\ call' = [call EXCEPT ![t] = Call("accept", l, "no")]
  /\ UNCHANGED <<open, Port_Map, queue, pipe>>

\* The listener has been closed: NOFILE.
AcceptRefuses(t, l, refs) ==
  /\ Port_Map[scb[l].port] = NULL
  /\ scb' = [scb EXCEPT ![l].refcount = refs]
  /\ call' = [call EXCEPT ![t] = User]
  /\ UNCHANGED <<open, Port_Map, queue, pipe>>

ReadPipe(pipe1, pipe2) == pipe1

\* The signal goes to the Connect of the request, if it sleeps.
Answered_Unsignalled(t) == [call[t] EXCEPT !.admitted = TRUE]

Answered(t) ==
  [call[t] EXCEPT !.admitted = TRUE, !.woken = IF @ = "no" THEN "signal" ELSE @]

\* The first request is admitted and joined to a new socket.
AcceptServes(t, l, refs) ==
  LET request == Head(queue[l])
      scb1    == request.peer
      scb2    == First(AvailableSCBs)
      pipe1   == First(AvailablePipes)
      pipe2   == First(AvailablePipes \ {pipe1})
  IN
  /\ queue[l] # <<>> /\ Port_Map[scb[l].port] # NULL
  /\ AvailableSCBs # {} /\ Cardinality(AvailablePipes) >= 2
  /\ queue' = [queue EXCEPT ![l] = Tail(@)]
  /\ scb' = [scb EXCEPT
       ![scb1] = [@ EXCEPT !.type = "peer", !.peer = scb2,
                           !.read_pipe = pipe2, !.write_pipe = pipe1],
       ![scb2] = [New("peer", scb[l].port) EXCEPT
                    !.peer = scb1, !.read_pipe = ReadPipe(pipe1, pipe2),
                    !.write_pipe = pipe2],
       ![l].refcount = refs - 1]
  /\ open' = open \cup {scb2}
  /\ pipe' = [pipe EXCEPT ![pipe1] = NewPipe, ![pipe2] = NewPipe]
  /\ call' = [u \in Thread |->
       IF u = t THEN User
       ELSE IF u = request.who THEN Answered(u)
       ELSE call[u]]
  /\ UNCHANGED Port_Map

AcceptBody(t, l, refs) ==
  AcceptWaits(t, l, refs) \/ AcceptRefuses(t, l, refs) \/ AcceptServes(t, l, refs)

Accept(t, l) ==
  /\ call[t] = User
  /\ l \in open /\ scb[l].type = "listener"
  /\ AcceptBody(t, l, scb[l].refcount + 1)

AcceptWake(t) ==
  /\ call[t].op = "accept" /\ call[t].woken # "no"
  /\ AcceptBody(t, call[t].on, scb[call[t].on].refcount)

-----------------------------------------------------------------------------
(* Connect.                                                                *)

\* A negative timeout is infinite.
Connect(t, s, port, patient) ==
  LET l == Port_Map[port]
  IN
  /\ call[t] = User
  /\ s \in open /\ scb[s].type = "unbound"
  /\ l # NULL
  /\ scb[l].type = "listener"
  /\ scb' = [scb EXCEPT ![s].refcount = @ + 1]
  /\ queue' = [queue EXCEPT ![l] = Append(@, [peer |-> s, who |-> t])]
  /\ \E u \in OneOf(Sleepers("accept", l)) :
       call' = Signalled([call EXCEPT ![t] = [Call("connect", s, "no") EXCEPT
                                                !.patient = patient]],
                         Sleepers("accept", l), u)
  /\ UNCHANGED <<open, Port_Map, pipe>>

Expire(t) ==
  /\ call[t].op = "connect" /\ call[t].woken = "no" /\ ~call[t].patient
  /\ call' = [call EXCEPT ![t].woken = "timeout"]
  /\ UNCHANGED <<scb, open, Port_Map, queue, pipe>>

\* The request of a Connect that returns is nobody's.
Abandoned(t) ==
  [l \in SCB |-> [i \in DOMAIN queue[l] |->
     IF queue[l][i].who = t THEN [queue[l][i] EXCEPT !.who = NULL] ELSE queue[l][i]]]

\* A Connect that was not admitted leaves its request in the queue, one that
\* timed out does not give its reference back.
ConnectWake(t) ==
  LET s == call[t].on
  IN
  /\ call[t].op = "connect" /\ call[t].woken # "no"
  /\ queue' = Abandoned(t)
  /\ scb' = IF call[t].admitted /\ call[t].woken = "signal"
            THEN [scb EXCEPT ![s] = IF @.refcount - 1 < 0 THEN Freed(@.port)
                                    ELSE Decremented(@)]
            ELSE scb
  /\ call' = [call EXCEPT ![t] = User]
  /\ UNCHANGED <<open, Port_Map, pipe>>

-----------------------------------------------------------------------------
(* Reading, writing and shutting down.                                     *)

Read(t, s) ==
  /\ call[t] = User
  /\ s \in open /\ scb[s].type = "peer" /\ scb[s].read_pipe # NULL
  /\ pipe[scb[s].read_pipe].reader
  /\ call' = [call EXCEPT ![t] = Call("read", s, "no")]
  /\ UNCHANGED <<scb, open, Port_Map, queue, pipe>>

\* The end of a Read, which may be the last reference to a closed file id.
ReadEnds(t) ==
  LET s == call[t].on
      returned == [call EXCEPT ![t] = User]
  IN
  /\ call[t].op = "read"
  /\ IF s \notin open /\ In("read", s) = {t} THEN socket_close(s, pipe, returned)
     ELSE call' = returned /\ UNCHANGED <<scb, Port_Map, queue, pipe>>
  /\ UNCHANGED open

\* The writer is gone.
ReadEOF(t) ==
  /\ call[t].op = "read" /\ ~pipe[scb[call[t].on].read_pipe].writer
  /\ ReadEnds(t)

\* A Write that a waiting Read takes.
Write(s, t) ==
  /\ s \in open /\ scb[s].type = "peer" /\ scb[s].write_pipe # NULL
  /\ pipe[scb[s].write_pipe].writer /\ pipe[scb[s].write_pipe].reader
  /\ call[t].op = "read" /\ scb[call[t].on].read_pipe = scb[s].write_pipe
  /\ ReadEnds(t)

ShutDownRead(s) ==
  /\ s \in open /\ scb[s].type = "peer" /\ scb[s].read_pipe # NULL
  /\ pipe' = pipe_reader_close(pipe, scb[s].read_pipe)
  /\ UNCHANGED <<scb, open, Port_Map, queue, call>>

ShutDownWrite(s) ==
  /\ s \in open /\ scb[s].type = "peer" /\ scb[s].write_pipe # NULL
  /\ pipe' = pipe_writer_close(pipe, scb[s].write_pipe)
  /\ scb' = [scb EXCEPT ![s].write_pipe = NULL]
  /\ UNCHANGED <<open, Port_Map, queue, call>>

\* reader_close returns 0, so && never closes the writer.
ShutDownBoth(s) ==
  /\ s \in open /\ scb[s].type = "peer" /\ scb[s].read_pipe # NULL
  /\ pipe' = pipe_reader_close(pipe, scb[s].read_pipe)
  /\ scb' = [scb EXCEPT ![s].read_pipe = NULL, ![s].write_pipe = NULL]
  /\ UNCHANGED <<open, Port_Map, queue, call>>

-----------------------------------------------------------------------------
(* How programs use sockets.                                               *)

\* A socket whose request is queued, or whose Connect has not returned.
Idle(s) == ~Requested(s) /\ In("connect", s) = {}

\* No Accept is still to find out that its listener is closed.
Settled(port) ==
  \A t \in Thread : call[t].op = "accept" /\ scb[call[t].on].port = port
                    => Port_Map[port] = call[t].on

\* Both ends of a pipe are open.
Whole(q) == q # NULL /\ pipe[q].writer /\ pipe[q].reader

\* The new sockets of Accept do not run out of memory or file ids.
Room == Cardinality(AvailableSCBs) > 1

\* An assertion stops a close that is given no pipe.
Closable(s) ==
  scb[s].type = "peer" /\ scb[s].peer # NULL => scb[s].write_pipe # NULL

UserCalls ==
  \/ \E port \in Port : Room /\ Socket(port)
  \/ \E s \in open :
       \/ Idle(s) /\ Closable(s) /\ Close(s)
       \/ Idle(s) /\ Settled(scb[s].port) /\ Listen(s)
       \/ \E t \in Thread : Write(s, t)
       \/ Whole(scb[s].read_pipe) /\ In("read", s) = {} /\ ShutDownRead(s)
       \/ Whole(scb[s].write_pipe) /\ ShutDownWrite(s)
       \/ /\ Whole(scb[s].read_pipe) /\ Whole(scb[s].write_pipe)
          /\ In("read", s) = {} /\ ShutDownBoth(s)
       \/ \E t \in Thread :
            \/ In("accept", s) = {} /\ Accept(t, s)
            \/ Read(t, s)
            \/ \E port \in Port, patient \in BOOLEAN :
                 /\ Idle(s) /\ scb[s].refcount < MAX_REFS
                 /\ Connect(t, s, port, patient)

Returns(t) == AcceptWake(t) \/ ConnectWake(t) \/ ReadEOF(t)

Next == UserCalls \/ \E t \in Thread : Expire(t) \/ Returns(t)

Spec == Init /\ [][Next]_vars

\* Whoever has been woken runs again: Sched's threads are all scheduled.
FairSpec == Spec /\ \A t \in Thread : WF_vars(Returns(t))

-----------------------------------------------------------------------------
TypeOK ==
  /\ scb \in [SCB -> [type : {"freed", "unbound", "listener", "peer"},
                      refcount : Nat, port : Port \cup {NULL},
                      peer : SCB \cup {NULL},
                      read_pipe : Pipe \cup {NULL}, write_pipe : Pipe \cup {NULL}]]
  /\ open \subseteq SCB
  /\ Port_Map \in [Port -> SCB \cup {NULL}]
  /\ queue \in [SCB -> Seq([peer : SCB, who : Thread \cup {NULL}])]
  /\ pipe \in [Pipe -> [writer : BOOLEAN, reader : BOOLEAN]]
  /\ call \in [Thread -> [op : {"none", "accept", "connect", "read"},
                          on : SCB \cup {NULL},
                          woken : {"", "no", "signal", "timeout"},
                          admitted : BOOLEAN, patient : BOOLEAN]]

\* A port belongs to the open listener that called Listen on it, and to no other.
Ports ==
  \A port \in Port, s \in SCB :
    Port_Map[port] = s <=> s \in open /\ scb[s].type = "listener" /\ scb[s].port = port

InUse(s) == s \in open \/ In("read", s) # {}

\* Two sockets are each other's peers, and each reads from the pipe the other
\* writes to, unless either has shut it down.
Connected ==
  \A s \in SCB : InUse(s) /\ scb[s].type = "peer" /\ scb[s].peer # NULL =>
    LET r == scb[s].peer
    IN  /\ InUse(r) /\ r # s /\ scb[r].type = "peer" /\ scb[r].peer = s
        /\ scb[s].read_pipe # scb[s].write_pipe \/ scb[s].read_pipe = NULL
        /\ \/ NULL \in {scb[s].write_pipe, scb[r].read_pipe}
           \/ scb[s].write_pipe = scb[r].read_pipe

\* Nothing that has been freed is used again: by a close, by a Read, by the
\* Accept that takes a request.
NoFreedUse ==
  /\ \A s \in SCB :
       /\ InUse(s) => scb[s].type # "freed"
       /\ InUse(s) /\ scb[s].type = "peer" /\ scb[s].peer # NULL =>
            \A q \in {scb[s].read_pipe, scb[s].write_pipe} \ {NULL} : pipe[q] # FreedPipe
       /\ Requested(s) => s \in open
  /\ \A t \in Thread :
       call[t].op = "read" => pipe[scb[call[t].on].read_pipe] # FreedPipe

\* kernel_socket.c: what has been closed or shut down is never used again, and what
\* is connected is connected both ways.
SocketsSound == TypeOK /\ Ports /\ Connected /\ NoFreedUse

\* What the comments in sys_Connect say of a timeout: no Accept has served the
\* request, and it is removed from the queue.  So a socket is connected only
\* during a Connect.
ConnectedByConnect ==
  [][\A s \in open :
       scb[s].type = "unbound" /\ scb'[s].type = "peer" => In("connect", s) # {}]_vars

\* An Accept whose listener is closed returns.
AcceptReturns ==
  \A t \in Thread :
    call[t].op = "accept" /\ call[t].on \notin open ~> call[t].op # "accept"

\* A Connect whose request has been admitted returns.
ConnectAnswered ==
  \A t \in Thread : call[t].admitted ~> ~call[t].admitted

\* kernel_socket.c:61-65 and 238-239: no call waits for an answer that has been
\* given.
CallsAnswered == AcceptReturns /\ ConnectAnswered

\* A Read returns once the other end has closed or has called ShutDown with
\* SHUTDOWN_WRITE.  SHUTDOWN_BOTH has no such effect.
EOFDelivered ==
  \A t \in Thread :
    /\ call[t].op = "read"
    /\ LET r == scb[call[t].on].peer
       IN  r = NULL \/ (scb[r].write_pipe = NULL /\ scb[r].read_pipe # NULL)
    ~> call[t].op # "read"

=============================================================================
