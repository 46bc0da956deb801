------------------------------ MODULE RemoteServer ------------------------------
(***************************************************************************)
(* The remote server of tinyos_shell.c: the console, which waits for 'q';  *)
(* the thread that accepts connections; a detached thread per connection;  *)
(* and their common variables, which live on the stack of the console's    *)
(* thread.                                                                 *)
(*                                                                         *)
(* active_conn is decremented with mx and incremented without: the two     *)
(* halves of GS(active_conn)++ are steps of their own.  torn tells whether *)
(* a decrement came between them, and early whether 'q' came before        *)
(* listener_socket had its value: then Close gets an int that nobody has   *)
(* set.  What a stretch of code does with mx is one step.  Clients connect *)
(* and send their request or not; the command of a request ends.  File ids *)
(* do not run out.                                                         *)
(***************************************************************************)
EXTENDS Integers, FiniteSets

CONSTANTS
  Conn,           \* the connections that clients may open: a bound
  SizeT           \* size_t counts modulo SizeT

ServerAssumption ==
  IsFiniteSet(Conn) /\ SizeT \in Nat /\ SizeT > Cardinality(Conn) + 1

VARIABLES
  console,          \* "loop", "close", "join", "lock", "wait", "woken", "gone", "eof"
  listening,        \* the thread: "start", "accept", "got", "add", "spawn", "end"
  listener_socket,  \* "unset", "open", "closed"
  quit,
  active_conn, total_conn, conn_id_counter,
  log,              \* how many records the log has
  old_conn,         \* the value that active_conn++ has read
  conn,             \* of each connection: "none", "asked", "accepted", "start",
                    \* "serve", "finish", "end", "refused"
  torn, early

threadVars == <<console, listening, listener_socket, quit, conn>>
countVars == <<active_conn, total_conn, conn_id_counter, log, old_conn>>
serverVars == <<threadVars, countVars, torn, early>>

In(where) == {c \in Conn : conn[c] = where}

\* RemoteServer, up to the loop
Init ==
  /\ console = "loop" /\ listening = "start" /\ listener_socket = "unset"
  /\ quit = FALSE
  /\ active_conn = 0 /\ total_conn = 0 /\ conn_id_counter = 0 /\ log = 0
  /\ old_conn = 0
  /\ conn = [c \in Conn |-> "none"]
  /\ torn = FALSE /\ early = FALSE

-----------------------------------------------------------------------------
(* rsrv_listener_thread.                                                   *)

\* Listen may find the port taken.
Listens ==
  /\ listening = "start"
  /\ \/ listening' = "accept" /\ listener_socket' = "open"
     \/ listening' = "end" /\ UNCHANGED listener_socket
  /\ UNCHANGED <<console, quit, conn, countVars, torn, early>>

Accepts(c) ==
  /\ listening = "accept" /\ listener_socket = "open"
  /\ conn[c] = "asked"
  /\ conn' = [conn EXCEPT ![c] = "accepted"]
  /\ listening' = "got"
  /\ UNCHANGED <<console, listener_socket, quit, countVars, torn, early>>

\* Accept fails when the socket is closed, which the console does to quit.
AcceptFails ==
  /\ listening = "accept" /\ listener_socket = "closed" /\ quit
  /\ listening' = "end"
  /\ UNCHANGED <<console, listener_socket, quit, conn, countVars, torn, early>>

\* GS(active_conn)++
Reads ==
  /\ listening = "got"
  /\ listening' = "add"
  /\ old_conn' = active_conn
  /\ UNCHANGED <<console, listener_socket, quit, conn, active_conn, total_conn,
                 conn_id_counter, log, torn, early>>

Adds ==
  /\ listening = "add"
  /\ listening' = "spawn"
  /\ active_conn' = (old_conn + 1) % SizeT
  /\ total_conn' = total_conn + 1
  /\ torn' = (torn \/ old_conn # active_conn)
  /\ UNCHANGED <<console, listener_socket, quit, conn, conn_id_counter, log,
                 old_conn, early>>

\* CreateThread and ThreadDetach
Spawns ==
  /\ listening = "spawn"
  /\ listening' = "accept"
  /\ conn' = [c \in Conn |-> IF conn[c] = "accepted" THEN "start" ELSE conn[c]]
  /\ UNCHANGED <<console, listener_socket, quit, countVars, torn, early>>

-----------------------------------------------------------------------------
(* Clients, and rsrv_client.                                               *)

\* Connect: the request waits in the queue of the listener.
Connects(c) ==
  /\ conn[c] = "none" /\ listener_socket = "open"
  /\ conn' = [conn EXCEPT ![c] = "asked"]
  /\ UNCHANGED <<console, listening, listener_socket, quit, countVars, torn, early>>

Starts(c) ==
  /\ conn[c] = "start"
  /\ conn' = [conn EXCEPT ![c] = "serve"]
  /\ conn_id_counter' = conn_id_counter + 1
  /\ log' = log + 1
  /\ UNCHANGED <<console, listening, listener_socket, quit, active_conn, total_conn,
                 old_conn, torn, early>>

AfterError == {"finish"}

\* The request is served, or the client has gone: a line of log either way.
Serves(c) ==
  /\ conn[c] = "serve"
  /\ \E next \in {"finish"} \cup AfterError : conn' = [conn EXCEPT ![c] = next]
  /\ log' = log + 1
  /\ UNCHANGED <<console, listening, listener_socket, quit, active_conn, total_conn,
                 conn_id_counter, old_conn, torn, early>>

Woken_None == console

Woken == IF console = "wait" THEN "woken" ELSE console

Finishes(c) ==
  /\ conn[c] = "finish"
  /\ conn' = [conn EXCEPT ![c] = "end"]
  /\ active_conn' = (active_conn + SizeT - 1) % SizeT
  /\ console' = Woken
  /\ UNCHANGED <<listening, listener_socket, quit, total_conn, conn_id_counter,
                 log, old_conn, torn, early>>

-----------------------------------------------------------------------------
(* RemoteServer.                                                           *)

\* 'q' is typed.
Quits ==
  /\ console = "loop"
  /\ console' = "close" /\ quit' = TRUE
  /\ UNCHANGED <<listening, listener_socket, conn, countVars, torn, early>>

\* The end of the input: nobody waits for the others.
InputEnds ==
  /\ console = "loop"
  /\ console' = "eof"
  /\ UNCHANGED <<listening, listener_socket, quit, conn, countVars, torn, early>>

Closed == "join"

\* Close(GS(listener_socket)); those in the queue of the socket get no answer.
Closes ==
  /\ console = "close"
  /\ console' = Closed
  /\ IF listener_socket = "open"
     THEN /\ listener_socket' = "closed"
          /\ conn' = [c \in Conn |-> IF conn[c] = "asked" THEN "refused" ELSE conn[c]]
          /\ UNCHANGED early
     ELSE early' = TRUE /\ UNCHANGED <<listener_socket, conn>>
  /\ UNCHANGED <<listening, quit, countVars, torn>>

Joins ==
  /\ console = "join" /\ listening = "end"
  /\ console' = "lock"
  /\ UNCHANGED <<listening, listener_socket, quit, conn, countVars, torn, early>>

\* The loop over active_conn, and log_truncate after it.
Waits ==
  /\ console \in {"lock", "woken"}
  /\ IF active_conn > 0 THEN console' = "wait" /\ UNCHANGED log
                        ELSE console' = "gone" /\ log' = 0
  /\ UNCHANGED <<listening, listener_socket, quit, conn, active_conn, total_conn,
                 conn_id_counter, old_conn, torn, early>>

-----------------------------------------------------------------------------
Console  == Closes \/ Joins \/ Waits
Listener == Listens \/ (\E c \in Conn : Accepts(c)) \/ Reads \/ Adds \/ Spawns
            \/ AcceptFails
Client(c) == Starts(c) \/ Serves(c) \/ Finishes(c)

Resting == UNCHANGED serverVars

Next ==
  \/ Console \/ Listener \/ Quits \/ InputEnds
  \/ \E c \in Conn : Client(c) \/ Connects(c)
  \/ Resting

\* The scheduler runs every thread; nobody has to connect or to type.
Fairness ==
  /\ WF_serverVars(Console) /\ WF_serverVars(Listener)
  /\ \A c \in Conn : WF_serverVars(Client(c))

Spec == Init /\ [][Next]_serverVars /\ Fairness

-----------------------------------------------------------------------------
TypeOK ==
  /\ console \in {"loop", "close", "join", "lock", "wait", "woken", "gone", "eof"}
  /\ listening \in {"start", "accept", "got", "add", "spawn", "end"}
  /\ listener_socket \in {"unset", "open", "closed"} /\ quit \in BOOLEAN
  /\ active_conn \in 0 .. SizeT - 1 /\ old_conn \in 0 .. SizeT - 1
  /\ {total_conn, conn_id_counter} \subseteq 0 .. Cardinality(Conn)
  /\ log \in Nat
  /\ conn \in [Conn -> {"none", "asked", "accepted", "start", "serve", "finish", "end",
                        "refused"}]
  /\ {torn, early} \subseteq BOOLEAN

\* active_conn counts the connections accepted and not finished, unless a
\* decrement was lost or taken back (tinyos_shell.c:463, 713).
ConnsCounted ==
  ~torn => active_conn = Cardinality(In("start") \cup In("serve") \cup In("finish"))
                         + (IF listening = "spawn" THEN 1 ELSE 0)

\* When the server has quit, nobody uses the variables of its stack any more, and
\* no record of the log is left behind (tinyos_shell.c:518-530).
QuitAlone ==
  console = "gone" /\ ~torn =>
    /\ listening = "end" /\ log = 0
    /\ In("accepted") \cup In("start") \cup In("serve") \cup In("finish") = {}

\* 'q' quits the server, if no count was lost and it was listening.
QuitEnds == console = "close" ~> console = "gone" \/ torn \/ early

=============================================================================
