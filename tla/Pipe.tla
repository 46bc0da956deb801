-------------------------------- MODULE Pipe --------------------------------
(***************************************************************************)
(* A pipe: kernel_pipe.c, with the calls of kernel_streams.c that use and  *)
(* close it.                                                               *)
(*                                                                         *)
(* The Pipe_CB is a ring of PIPE_BUFFER_SIZE bytes with a reading and a    *)
(* writing position, empty when they are equal, full when the writing one  *)
(* is just behind the other.  Its two ends are FCBs; `reader' and `writer' *)
(* say that the pointers of the Pipe_CB to them are not NULL.  An FCB is   *)
(* closed when it is referred to by no file id and by no call.             *)
(*                                                                         *)
(* System calls run under the kernel lock, as in KernelMonitor: `kernel'   *)
(* is the thread inside, a wait on has_data or has_space gives the lock up *)
(* in the same step, and pc[t] is the place at which thread t runs on:     *)
(*   "read", "write"  in the loop of pipe_read or pipe_write               *)
(*   "decref"         at the FCB_decref that ends sys_Read or sys_Write    *)
(*                                                                         *)
(* pipe_write also tests its own end, and pipe_read its own.  The call has *)
(* a reference to it, so the test cannot fail (Lifetime): it is a guard    *)
(* here, and a run where it failed would end in a deadlock.                *)
(***************************************************************************)
EXTENDS Integers, FiniteSets, Sequences

CONSTANTS
  Thread,
  Byte,
  PIPE_BUFFER_SIZE,
  MaxSize,         \* bounds the size of a Read or a Write
  MaxFids,         \* bounds the file ids of an end
  NULL

ASSUME PipeAssumption ==
  /\ IsFiniteSet(Thread)
  /\ PIPE_BUFFER_SIZE \in Nat /\ PIPE_BUFFER_SIZE >= 2
  /\ MaxSize \in Nat
  /\ MaxFids \in Nat
  /\ NULL \notin Thread

VARIABLES
  r_position, w_position, buffer,
  reader, writer,
  freed,           \* the Pipe_CB has been freed
  has_data, has_space,   \* the threads asleep on them
  fids,            \* how many file ids refer to the FCB of each end
  kernel,
  pc,
  end,             \* the end that the call of each thread uses
  buf, n, i,       \* the buffer and size of its call; what it has transferred
  ret

vars == <<r_position, w_position, buffer, reader, writer, freed, has_data,
          has_space, fids, kernel, pc, end, buf, n, i, ret>>
ring  == <<r_position, w_position, buffer>>
ends  == <<reader, writer, freed>>
calls == <<end, buf, n, i, ret>>

End   == {"read", "write"}
Place == 0 .. PIPE_BUFFER_SIZE - 1

Init ==
  /\ r_position = 0 /\ w_position = 0
  /\ buffer \in [Place -> Byte]
  /\ reader = TRUE /\ writer = TRUE /\ freed = FALSE
  /\ has_data = {} /\ has_space = {}
  /\ fids = [e \in End |-> 1]
  /\ kernel = NULL
  /\ pc = [t \in Thread |-> "user"]
  /\ end = [t \in Thread |-> "read"]
  /\ buf = [t \in Thread |-> <<>>]
  /\ n = [t \in Thread |-> 0]
  /\ i = [t \in Thread |-> 0]
  /\ ret = [t \in Thread |-> 0]

To(t, next) == pc' = [pc EXCEPT ![t] = next]

\* The calls that hold a reference to the FCB of an end, by FCB_incref.
Users_Uncounted(e) == {}

Users(e) == {t \in Thread : pc[t] # "user" /\ end[t] = e}

refcount(e) == fids[e] + Cardinality(Users(e))

\* The position after p.
Step(p) == (p + 1) % PIPE_BUFFER_SIZE

Empty == w_position = r_position

Full_Unwrapped == r_position = w_position + 1

Full == r_position = Step(w_position)

-----------------------------------------------------------------------------
(* sys_Read and sys_Write, up to the call of pipe_read or pipe_write.      *)

Call(t, e, bytes, count) ==
  /\ kernel = NULL /\ pc[t] = "user"
  /\ fids[e] > 0
  /\ kernel' = t
  /\ To(t, e)
  /\ end' = [end EXCEPT ![t] = e]
  /\ buf' = [buf EXCEPT ![t] = bytes]
  /\ n' = [n EXCEPT ![t] = count]
  /\ UNCHANGED <<ring, ends, has_data, has_space, fids, i, ret>>

Texts == UNION {[1 .. k -> Byte] : k \in 0 .. MaxSize}

Read(t, count) == Call(t, "read", <<>>, count)
Write(t, text) == Call(t, "write", text, Len(text))

\* The return of kernel_wait, once the thread is awake and gets the kernel.
Wakeup(t) ==
  /\ kernel = NULL
  /\ pc[t] \in End /\ t \notin has_data \cup has_space
  /\ kernel' = t
  /\ UNCHANGED <<ring, ends, has_data, has_space, fids, pc, calls>>

-----------------------------------------------------------------------------
(* pipe_write.                                                             *)

WriterWaits == Full /\ reader

WriteWait(t) ==
  /\ kernel = t /\ pc[t] = "write" /\ i[t] < n[t]
  /\ WriterWaits
  /\ has_data' = {}
  /\ has_space' = has_space \cup {t}
  /\ kernel' = NULL
  /\ UNCHANGED <<ring, ends, fids, pc, calls>>

WriteByte(t) ==
  /\ kernel = t /\ pc[t] = "write" /\ i[t] < n[t]
  /\ ~WriterWaits /\ reader /\ writer
  /\ buffer' = [buffer EXCEPT ![w_position] = buf[t][i[t] + 1]]
  /\ w_position' = Step(w_position)
  /\ i' = [i EXCEPT ![t] = @ + 1]
  /\ UNCHANGED <<r_position, ends, has_data, has_space, fids, kernel, pc, end,
                 buf, n, ret>>

\* The returns: -1 without a reader, before the loop or in it; else what was
\* written.
WriteEnd(t) ==
  LET broken == ~reader /\ (i[t] < n[t] \/ n[t] = 0)
  IN
  /\ kernel = t /\ pc[t] = "write"
  /\ broken \/ i[t] = n[t]
  /\ has_data' = IF broken THEN has_data ELSE {}
  /\ ret' = [ret EXCEPT ![t] = IF broken THEN -1 ELSE i[t]]
  /\ To(t, "decref")
  /\ UNCHANGED <<ring, ends, has_space, fids, kernel, end, buf, n, i>>

-----------------------------------------------------------------------------
(* pipe_read.                                                              *)

ReadWait(t) ==
  /\ kernel = t /\ pc[t] = "read" /\ i[t] < n[t]
  /\ Empty /\ writer
  /\ has_space' = {}
  /\ has_data' = has_data \cup {t}
  /\ kernel' = NULL
  /\ UNCHANGED <<ring, ends, fids, pc, calls>>

ReadByte(t) ==
  /\ kernel = t /\ pc[t] = "read" /\ i[t] < n[t]
  /\ ~Empty /\ reader
  /\ buf' = [buf EXCEPT ![t] = Append(@, buffer[r_position])]
  /\ r_position' = Step(r_position)
  /\ i' = [i EXCEPT ![t] = @ + 1]
  /\ UNCHANGED <<w_position, buffer, ends, has_data, has_space, fids, kernel,
                 pc, end, n, ret>>

\* kernel_broadcast(&has_space) when reading has finished.
SpaceBroadcast_Never == has_space

SpaceBroadcast == {}

ReadEnd(t) ==
  /\ kernel = t /\ pc[t] = "read"
  /\ reader
  /\ i[t] = n[t] \/ (Empty /\ ~writer)
  /\ has_space' = SpaceBroadcast
  /\ ret' = [ret EXCEPT ![t] = i[t]]
  /\ To(t, "decref")
  /\ UNCHANGED <<ring, ends, has_data, fids, kernel, end, buf, n, i>>

-----------------------------------------------------------------------------
(* Closing.                                                                *)

\* kernel_broadcast(&has_data) of pipe_writer_close.
EndOfFile_Unannounced == has_data

EndOfFile == {}

pipe_writer_close ==
  /\ writer' = FALSE
  /\ has_data' = IF reader THEN EndOfFile ELSE has_data
  /\ freed' = (freed \/ ~reader)
  /\ UNCHANGED <<reader, has_space>>

pipe_reader_close ==
  /\ reader' = FALSE
  /\ has_space' = IF writer THEN {} ELSE has_space
  /\ freed' = (freed \/ ~writer)
  /\ UNCHANGED <<writer, has_data>>

\* FCB_decref by the holder of one reference out of `count'.
FCB_decref(e, count) ==
  IF count > 1 THEN UNCHANGED <<ends, has_data, has_space>>
  ELSE IF e = "read" THEN pipe_reader_close ELSE pipe_writer_close

\* The end of sys_Read and sys_Write.
Decref(t) ==
  /\ kernel = t /\ pc[t] = "decref"
  /\ FCB_decref(end[t], refcount(end[t]))
  /\ kernel' = NULL
  /\ To(t, "user")
  /\ end' = [end EXCEPT ![t] = "read"]
  /\ buf' = [buf EXCEPT ![t] = <<>>]
  /\ n' = [n EXCEPT ![t] = 0]
  /\ i' = [i EXCEPT ![t] = 0]
  /\ ret' = [ret EXCEPT ![t] = 0]
  /\ UNCHANGED <<ring, fids>>

\* sys_Close, by a thread that is in no call.
Close(e) ==
  /\ kernel = NULL /\ fids[e] > 0
  /\ \E t \in Thread : pc[t] = "user"
  /\ fids' = [fids EXCEPT ![e] = @ - 1]
  /\ FCB_decref(e, refcount(e))
  /\ UNCHANGED <<ring, kernel, pc, calls>>

\* sys_Dup2 to a free file id, or Exec.
Dup2(e) ==
  /\ kernel = NULL /\ fids[e] > 0 /\ fids[e] < MaxFids
  /\ \E t \in Thread : pc[t] = "user"
  /\ fids' = [fids EXCEPT ![e] = @ + 1]
  /\ UNCHANGED <<ring, ends, has_data, has_space, kernel, pc, calls>>

-----------------------------------------------------------------------------
\* Those in a call sleep, and nobody is left, or willing, to do anything else.
Quiet ==
  /\ kernel = NULL
  /\ \A t \in Thread : pc[t] = "user" \/ t \in has_data \cup has_space
  /\ UNCHANGED vars

Inside(t) ==
  \/ WriteWait(t) \/ WriteByte(t) \/ WriteEnd(t)
  \/ ReadWait(t) \/ ReadByte(t) \/ ReadEnd(t)
  \/ Decref(t)

Next ==
  \/ \E t \in Thread :
       \/ \E count \in 0 .. MaxSize : Read(t, count)
       \/ \E text \in Texts : Write(t, text)
       \/ Wakeup(t) \/ Inside(t)
  \/ \E e \in End : Close(e) \/ Dup2(e)
  \/ Quiet

Spec == Init /\ [][Next]_vars

\* A thread inside the kernel runs on, and one that is awake and finds the
\* kernel free again and again gets in.
FairSpec ==
  Spec /\ \A t \in Thread : WF_vars(Inside(t)) /\ SF_vars(Wakeup(t))

-----------------------------------------------------------------------------
TypeOK ==
  /\ r_position \in Place /\ w_position \in Place
  /\ buffer \in [Place -> Byte]
  /\ reader \in BOOLEAN /\ writer \in BOOLEAN /\ freed \in BOOLEAN
  /\ has_data \in SUBSET Thread /\ has_space \in SUBSET Thread
  /\ fids \in [End -> Nat]
  /\ kernel \in Thread \cup {NULL}
  /\ pc \in [Thread -> {"user", "read", "write", "decref"}]
  /\ end \in [Thread -> End]
  /\ buf \in [Thread -> Seq(Byte)]
  /\ n \in [Thread -> Nat] /\ i \in [Thread -> Nat]
  /\ ret \in [Thread -> Int]

\* The pipe lives as long as an end is open, an end as long as a file id or a
\* call refers to it; so no call sleeps in a pipe that is freed under it.
Lifetime ==
  /\ freed <=> ~reader /\ ~writer
  /\ reader <=> refcount("read") > 0
  /\ writer <=> refcount("write") > 0

\* Nobody sleeps beside what they wait for.  While no thread is in the kernel,
\* a sleeping reader has nothing to read and may yet get something; a sleeping
\* writer has no room and may yet get some.  So readers and writers do not
\* sleep at once.
NoMissedBroadcast ==
  kernel = NULL =>
    /\ has_data # {} => Empty /\ writer
    /\ has_space # {} => Full /\ reader

\* A Read that has found the write end closed, or that sleeps when it closes,
\* comes to an end; so does a Write that is left without a reader.
CloseReleases ==
  \A t \in Thread :
    /\ pc[t] = "read" /\ ~writer ~> pc[t] = "user"
    /\ pc[t] = "write" /\ ~reader ~> pc[t] = "user"

-----------------------------------------------------------------------------
(* Refinement: a pipe is a queue of bytes.                                 *)

\* The k-th place from p on.
Along(p, k) ==
  IF p + k < PIPE_BUFFER_SIZE THEN p + k ELSE p + k - PIPE_BUFFER_SIZE

Used ==
  IF r_position <= w_position THEN w_position - r_position
                              ELSE w_position - r_position + PIPE_BUFFER_SIZE

Contents == [k \in 1 .. Used |-> buffer[Along(r_position, k - 1)]]

Open(e) == IF e = "read" THEN reader ELSE writer

CallOf(t) ==
  CASE pc[t] = "user"   -> "idle"
    [] pc[t] = "decref" -> "return"
    [] OTHER            -> pc[t]

Stream == INSTANCE ByteStream WITH
  Capacity <- PIPE_BUFFER_SIZE - 1,
  stream   <- Contents,
  open     <- [e \in End |-> Open(e)],
  call     <- [t \in Thread |-> CallOf(t)],
  size     <- n,
  moved    <- i

\* pipe_read and pipe_write implement the queue of bytes of ByteStream.
RefinesStream == Stream!Spec

=============================================================================
