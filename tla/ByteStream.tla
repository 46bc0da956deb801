----------------------------- MODULE ByteStream -----------------------------
(***************************************************************************)
(* What tinyos.h promises of a pipe: a queue of bytes of bounded length    *)
(* with two ends.  Bytes are read in the order they were written, each     *)
(* once.  A Read ends with as many bytes as were asked for, or, once the   *)
(* write end is closed, with those that are left; a Write ends when it has *)
(* written them all, or with an error once the read end is closed.  An end *)
(* is not closed under a call that uses it.                                *)
(***************************************************************************)
EXTENDS Integers, Sequences

CONSTANTS
  Thread,
  Byte,
  Capacity,   \* the most bytes a pipe holds
  MaxSize     \* bounds the size of a Read or a Write

VARIABLES
  stream,     \* the bytes written and not yet read
  open,       \* of each end
  call,       \* of each thread: "idle", "read", "write" or "return"
  buf,        \* the bytes to write, or those read so far
  size,       \* how many bytes the call is to transfer
  moved,      \* how many it has
  ret         \* what it returns

vars == <<stream, open, call, buf, size, moved, ret>>

End == {"read", "write"}

Init ==
  /\ stream = <<>>
  /\ open = [e \in End |-> TRUE]
  /\ call = [t \in Thread |-> "idle"]
  /\ buf = [t \in Thread |-> <<>>]
  /\ size = [t \in Thread |-> 0]
  /\ moved = [t \in Thread |-> 0]
  /\ ret = [t \in Thread |-> 0]

Begin(t, e, n, bytes) ==
  /\ call[t] = "idle" /\ open[e]
  /\ call' = [call EXCEPT ![t] = e]
  /\ buf' = [buf EXCEPT ![t] = bytes]
  /\ size' = [size EXCEPT ![t] = n]
  /\ UNCHANGED <<stream, open, moved, ret>>

Put(t) ==
  /\ call[t] = "write" /\ moved[t] < size[t] /\ open["read"]
  /\ Len(stream) < Capacity
  /\ stream' = Append(stream, buf[t][moved[t] + 1])
  /\ moved' = [moved EXCEPT ![t] = @ + 1]
  /\ UNCHANGED <<open, call, buf, size, ret>>

Get(t) ==
  /\ call[t] = "read" /\ moved[t] < size[t]
  /\ stream # <<>>
  /\ stream' = Tail(stream)
  /\ buf' = [buf EXCEPT ![t] = Append(@, Head(stream))]
  /\ moved' = [moved EXCEPT ![t] = @ + 1]
  /\ UNCHANGED <<open, call, size, ret>>

Return(t, value) ==
  /\ call' = [call EXCEPT ![t] = "return"]
  /\ ret' = [ret EXCEPT ![t] = value]
  /\ UNCHANGED <<stream, open, buf, size, moved>>

EndWrite(t) ==
  /\ call[t] = "write"
  /\ \/ moved[t] = size[t] /\ Return(t, moved[t])
     \/ /\ moved[t] < size[t] \/ size[t] = 0
        /\ ~open["read"] /\ Return(t, -1)

EndRead(t) ==
  /\ call[t] = "read"
  /\ moved[t] = size[t] \/ (stream = <<>> /\ ~open["write"])
  /\ Return(t, moved[t])

\* The thread has what its call returned; nobody else is told.  The end that it
\* used may be closed now, if every file id of it is.
Done(t, e, last) ==
  /\ call[t] = "return"
  /\ last => open[e] /\ \A u \in Thread : call[u] # e
  /\ open' = [open EXCEPT ![e] = @ /\ ~last]
  /\ call' = [call EXCEPT ![t] = "idle"]
  /\ buf' = [buf EXCEPT ![t] = <<>>]
  /\ size' = [size EXCEPT ![t] = 0]
  /\ moved' = [moved EXCEPT ![t] = 0]
  /\ ret' = [ret EXCEPT ![t] = 0]
  /\ UNCHANGED stream

Close(e) ==
  /\ open[e] /\ \A u \in Thread : call[u] # e
  /\ open' = [open EXCEPT ![e] = FALSE]
  /\ UNCHANGED <<stream, call, buf, size, moved, ret>>

Texts == UNION {[1 .. n -> Byte] : n \in 0 .. MaxSize}

Next ==
  \/ \E t \in Thread :
       \/ \E n \in 0 .. MaxSize : Begin(t, "read", n, <<>>)
       \/ \E text \in Texts : Begin(t, "write", Len(text), text)
       \/ Put(t) \/ Get(t) \/ EndWrite(t) \/ EndRead(t)
       \/ \E e \in End, last \in BOOLEAN : Done(t, e, last)
  \/ \E e \in End : Close(e)

Spec == Init /\ [][Next]_vars

=============================================================================
