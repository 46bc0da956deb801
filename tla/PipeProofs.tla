----------------------------- MODULE PipeProofs -----------------------------
(***************************************************************************)
(* Proofs about a pipe, for any buffer size and any number of threads: the *)
(* references keep it alive, no broadcast is missed, and it is a queue of  *)
(* bytes.                                                                  *)
(***************************************************************************)
EXTENDS Pipe, FiniteSetTheorems, SequenceTheorems, TLAPS

-----------------------------------------------------------------------------
(* Positions.                                                              *)

\* The position after p, without the remainder.
LEMMA StepValue ==
  ASSUME NEW p \in Place
  PROVE  Step(p) = IF p = PIPE_BUFFER_SIZE - 1 THEN 0 ELSE p + 1
BY PipeAssumption DEF Place, Step

\* A position stays in the buffer, and moves.
LEMMA StepPlace ==
  ASSUME NEW p \in Place
  PROVE  Step(p) \in Place /\ Step(p) # p
BY StepValue, PipeAssumption DEF Place

-----------------------------------------------------------------------------
(* The inductive invariant.                                                *)

\* What the place of a thread says of its call.
CallInv ==
  \A t \in Thread :
    /\ pc[t] = "user" => buf[t] = <<>> /\ n[t] = 0 /\ i[t] = 0 /\ ret[t] = 0
    /\ pc[t] \in End => end[t] = pc[t] /\ i[t] <= n[t] /\ ret[t] = 0
    /\ pc[t] = "write" => Len(buf[t]) = n[t]
    /\ pc[t] = "read" => Len(buf[t]) = i[t]
    /\ pc[t] = "decref" => kernel = t
    /\ kernel = t => pc[t] # "user"

\* Who sleeps, and that the thread in the kernel does not.
SleepInv ==
  /\ \A t \in has_data : pc[t] = "read" /\ kernel # t
  /\ \A t \in has_space : pc[t] = "write" /\ kernel # t

\* NoMissedBroadcast, with the threads that are in the middle of pipe_read or
\* pipe_write and will yet broadcast.
Runs(op) == kernel # NULL /\ pc[kernel] = op

BroadcastInv ==
  /\ has_data # {} => writer /\ (Empty \/ Runs("write"))
  /\ has_space # {} => reader /\ (Full \/ Runs("read"))

\* An end is open while it is referred to.
EndInv ==
  /\ freed <=> ~reader /\ ~writer
  /\ reader <=> \/ fids["read"] > 0
              \/ \E t \in Thread : pc[t] # "user" /\ end[t] = "read"
  /\ writer <=> \/ fids["write"] > 0
              \/ \E t \in Thread : pc[t] # "user" /\ end[t] = "write"

IInv == TypeOK /\ CallInv /\ SleepInv /\ BroadcastInv /\ EndInv

-----------------------------------------------------------------------------
(* Reference counts.                                                       *)

\* The calls that use an end can be counted.
LEMMA UsersFinite ==
  ASSUME NEW e \in End
  PROVE  IsFiniteSet(Users(e)) /\ Cardinality(Users(e)) \in Nat
<1>1. Users(e) \subseteq Thread
  BY DEF Users
<1> QED BY <1>1, PipeAssumption, FS_Subset, FS_CardinalityType

\* refcount is positive while a file id or a call refers to the end.
LEMMA SomeReference ==
  ASSUME TypeOK, NEW e \in End
  PROVE  refcount(e) > 0 <=>
           fids[e] > 0 \/ \E t \in Thread : pc[t] # "user" /\ end[t] = e
<1>1. fids[e] \in Nat
  BY DEF TypeOK
<1>2. Cardinality(Users(e)) = 0 <=> Users(e) = {}
  BY UsersFinite, FS_EmptySet
<1>3. Users(e) = {} <=> ~ \E t \in Thread : pc[t] # "user" /\ end[t] = e
  BY DEF Users
<1> QED BY <1>1, <1>2, <1>3, UsersFinite DEF refcount

\* The reference of a call is the last one.
LEMMA LastCall ==
  ASSUME TypeOK, NEW t \in Thread, pc[t] # "user"
  PROVE  refcount(end[t]) > 1 <=>
           \/ fids[end[t]] > 0
           \/ \E u \in Thread : u # t /\ pc[u] # "user" /\ end[u] = end[t]
<1> DEFINE e == end[t]
           Others == Users(e) \ {t}
<1>1. e \in End /\ fids[e] \in Nat
  BY DEF TypeOK
<1>2. t \in Users(e)
  BY DEF Users
<1>3. /\ Cardinality(Others) = Cardinality(Users(e)) - 1
      /\ IsFiniteSet(Others) /\ Cardinality(Others) \in Nat
  BY <1>1, <1>2, UsersFinite, FS_RemoveElement, FS_CardinalityType
<1>4. Cardinality(Others) = 0 <=> Others = {}
  BY <1>3, FS_EmptySet
<1>5. Others = {} <=> ~ \E u \in Thread : u # t /\ pc[u] # "user" /\ end[u] = e
  BY DEF Users
<1> HIDE DEF Others
<1> QED BY <1>1, <1>3, <1>4, <1>5, UsersFinite DEF refcount

\* The reference of a file id is the last one.
LEMMA LastFid ==
  ASSUME TypeOK, NEW e \in End, fids[e] > 0
  PROVE  refcount(e) > 1 <=>
           fids[e] > 1 \/ \E t \in Thread : pc[t] # "user" /\ end[t] = e
<1>1. fids[e] \in Nat
  BY DEF TypeOK
<1>2. Cardinality(Users(e)) = 0 <=> Users(e) = {}
  BY UsersFinite, FS_EmptySet
<1>3. Users(e) = {} <=> ~ \E t \in Thread : pc[t] # "user" /\ end[t] = e
  BY DEF Users
<1> QED BY <1>1, <1>2, <1>3, UsersFinite DEF refcount

-----------------------------------------------------------------------------
(* The initial states and the steps.                                       *)

\* The pipe as sys_Pipe leaves it satisfies the invariant.
LEMMA InitLemma == Init => IInv
<1> SUFFICES ASSUME Init PROVE IInv
  OBVIOUS
<1>1. TypeOK
  <2>1. <<>> \in Seq(Byte) /\ 0 \in Place
    BY PipeAssumption DEF Place
  <2>2. /\ buf \in [Thread -> Seq(Byte)] /\ n \in [Thread -> Nat]
        /\ i \in [Thread -> Nat] /\ ret \in [Thread -> Int]
    BY <2>1 DEF Init
  <2>3. /\ pc \in [Thread -> {"user", "read", "write", "decref"}]
        /\ end \in [Thread -> End] /\ fids \in [End -> Nat]
    BY DEF Init, End
  <2> QED BY <2>1, <2>2, <2>3 DEF Init, TypeOK
<1>2. CallInv /\ SleepInv /\ BroadcastInv
  BY PipeAssumption DEF Init, CallInv, SleepInv, BroadcastInv, End
<1>3. EndInv
  BY DEF Init, EndInv, End
<1> QED BY <1>1, <1>2, <1>3 DEF IInv

\* A Read or a Write begins, under a file id: the end it will use is open.
LEMMA CallStep ==
  ASSUME IInv, NEW t \in Thread, NEW e \in End, NEW count \in Nat,
         NEW bytes \in Seq(Byte), Len(bytes) = IF e = "read" THEN 0 ELSE count,
         Call(t, e, bytes, count)
  PROVE  IInv'
<1>1. TypeOK'
  BY DEF Call, IInv, TypeOK, To, End, ring, ends
<1>2. CallInv'
  BY PipeAssumption DEF Call, IInv, TypeOK, CallInv, To, End
<1>3. SleepInv'
  BY DEF Call, IInv, SleepInv, To
<1>4. BroadcastInv'
  BY DEF Call, IInv, BroadcastInv, Runs, Empty, Full, ring, ends
<1>5. EndInv'
  BY DEF Call, IInv, TypeOK, EndInv, To, ends
<1> QED BY <1>1, <1>2, <1>3, <1>4, <1>5 DEF IInv

\* kernel_wait returns: nothing that the pipe holds has changed.
LEMMA WakeupStep ==
  ASSUME IInv, NEW t \in Thread, Wakeup(t)
  PROVE  IInv'
<1>1. TypeOK'
  BY DEF Wakeup, IInv, TypeOK, ring, ends, calls
<1>2. CallInv'
  BY PipeAssumption DEF Wakeup, IInv, CallInv, End, calls
<1>3. SleepInv'
  BY DEF Wakeup, IInv, SleepInv
<1>4. BroadcastInv'
  BY DEF Wakeup, IInv, BroadcastInv, Runs, Empty, Full, ring, ends
<1>5. EndInv'
  BY DEF Wakeup, IInv, EndInv, ends, calls
<1> QED BY <1>1, <1>2, <1>3, <1>4, <1>5 DEF IInv

\* A writer sleeps in a full pipe, and no reader is left asleep.
LEMMA WriteWaitStep ==
  ASSUME IInv, NEW t \in Thread, WriteWait(t)
  PROVE  IInv'
<1>1. TypeOK'
  BY DEF WriteWait, IInv, TypeOK, ring, ends, calls
<1>2. CallInv'
  BY PipeAssumption DEF WriteWait, IInv, CallInv, calls
<1>3. SleepInv'
  BY PipeAssumption DEF WriteWait, IInv, TypeOK, SleepInv
<1>4. BroadcastInv'
  BY DEF WriteWait, WriterWaits, IInv, BroadcastInv, Full, ring, ends
<1>5. EndInv'
  BY DEF WriteWait, IInv, EndInv, ends, calls
<1> QED BY <1>1, <1>2, <1>3, <1>4, <1>5 DEF IInv

\* A byte goes in; readers may sleep beside it while its writer runs.
LEMMA WriteByteStep ==
  ASSUME IInv, NEW t \in Thread, WriteByte(t)
  PROVE  IInv'
<1>1. TypeOK'
  BY StepPlace DEF WriteByte, IInv, TypeOK, ends, CallInv
<1>2. CallInv'
  BY DEF WriteByte, IInv, TypeOK, CallInv
<1>3. SleepInv'
  BY DEF WriteByte, IInv, SleepInv
<1>4. BroadcastInv'
  BY PipeAssumption DEF WriteByte, WriterWaits, IInv, BroadcastInv, Runs, ends
<1>5. EndInv'
  BY DEF WriteByte, IInv, EndInv, ends
<1> QED BY <1>1, <1>2, <1>3, <1>4, <1>5 DEF IInv

\* pipe_write returns: it has broadcast, or there is no reader.
LEMMA WriteEndStep ==
  ASSUME IInv, NEW t \in Thread, WriteEnd(t)
  PROVE  IInv'
<1>1. TypeOK'
  BY DEF WriteEnd, IInv, TypeOK, To, ring, ends
<1>2. CallInv'
  BY DEF WriteEnd, IInv, TypeOK, CallInv, To, End
<1>3. SleepInv'
  BY DEF WriteEnd, IInv, SleepInv, To
<1>4. BroadcastInv'
  BY DEF WriteEnd, IInv, TypeOK, CallInv, SleepInv, BroadcastInv, EndInv,
         Runs, Full, End, ring, ends
<1>5. EndInv'
  BY DEF WriteEnd, IInv, EndInv, To, ends
<1> QED BY <1>1, <1>2, <1>3, <1>4, <1>5 DEF IInv

\* A reader sleeps in an empty pipe, and no writer is left asleep.
LEMMA ReadWaitStep ==
  ASSUME IInv, NEW t \in Thread, ReadWait(t)
  PROVE  IInv'
<1>1. TypeOK'
  BY DEF ReadWait, IInv, TypeOK, ring, ends, calls
<1>2. CallInv'
  BY PipeAssumption DEF ReadWait, IInv, CallInv, calls
<1>3. SleepInv'
  BY PipeAssumption DEF ReadWait, IInv, TypeOK, SleepInv
<1>4. BroadcastInv'
  BY DEF ReadWait, IInv, BroadcastInv, Empty, ring, ends
<1>5. EndInv'
  BY DEF ReadWait, IInv, EndInv, ends, calls
<1> QED BY <1>1, <1>2, <1>3, <1>4, <1>5 DEF IInv

\* A byte comes out; writers may sleep beside the room while its reader runs.
LEMMA ReadByteStep ==
  ASSUME IInv, NEW t \in Thread, ReadByte(t)
  PROVE  IInv'
<1>1. TypeOK'
  BY StepPlace DEF ReadByte, IInv, TypeOK, ends
<1>2. CallInv'
  BY DEF ReadByte, IInv, TypeOK, CallInv
<1>3. SleepInv'
  BY DEF ReadByte, IInv, SleepInv
<1>4. BroadcastInv'
  BY PipeAssumption DEF ReadByte, IInv, BroadcastInv, Runs, ends
<1>5. EndInv'
  BY DEF ReadByte, IInv, EndInv, ends
<1> QED BY <1>1, <1>2, <1>3, <1>4, <1>5 DEF IInv

\* pipe_read returns and has broadcast.
LEMMA ReadEndStep ==
  ASSUME IInv, NEW t \in Thread, ReadEnd(t)
  PROVE  IInv'
<1>1. TypeOK'
  BY DEF ReadEnd, SpaceBroadcast, IInv, TypeOK, To, ring, ends
<1>2. CallInv'
  BY DEF ReadEnd, IInv, TypeOK, CallInv, To, End
<1>3. SleepInv'
  BY DEF ReadEnd, SpaceBroadcast, IInv, SleepInv, To
<1>4. BroadcastInv'
  BY DEF ReadEnd, SpaceBroadcast, IInv, BroadcastInv, Runs, Empty, ring, ends
<1>5. EndInv'
  BY DEF ReadEnd, IInv, EndInv, To, ends
<1> QED BY <1>1, <1>2, <1>3, <1>4, <1>5 DEF IInv

\* sys_Read or sys_Write ends; it closes the end if nothing else refers to it.
LEMMA DecrefStep ==
  ASSUME IInv, NEW t \in Thread, Decref(t)
  PROVE  IInv'
<1>0. /\ reader' \in BOOLEAN /\ writer' \in BOOLEAN /\ freed' \in BOOLEAN
      /\ has_data' \in {has_data, {}} /\ has_space' \in {has_space, {}}
  BY DEF Decref, FCB_decref, pipe_reader_close, pipe_writer_close, EndOfFile,
         ends, IInv, TypeOK
<1>1. TypeOK'
  <2>1. <<>> \in Seq(Byte)
    OBVIOUS
  <2> QED BY <1>0, <2>1 DEF Decref, IInv, TypeOK, To, End, ring
<1>2. CallInv'
  BY PipeAssumption DEF Decref, IInv, TypeOK, CallInv, To, End
<1>3. SleepInv'
  BY PipeAssumption
     DEF Decref, FCB_decref, pipe_reader_close, pipe_writer_close, EndOfFile,
         IInv, TypeOK, SleepInv, To
<1>4. BroadcastInv'
  BY PipeAssumption
     DEF Decref, FCB_decref, pipe_reader_close, pipe_writer_close, EndOfFile,
         IInv, TypeOK, CallInv, SleepInv, BroadcastInv, EndInv, Runs, Empty,
         Full, End, ring, ends
<1>5. EndInv'
  BY LastCall
     DEF Decref, FCB_decref, pipe_reader_close, pipe_writer_close, EndOfFile,
         IInv, TypeOK, EndInv, To, End, ends
<1> QED BY <1>1, <1>2, <1>3, <1>4, <1>5 DEF IInv

\* sys_Close; it closes the end if nothing else refers to it.
LEMMA CloseStep ==
  ASSUME IInv, NEW e \in End, Close(e)
  PROVE  IInv'
<1>0. /\ reader' \in BOOLEAN /\ writer' \in BOOLEAN /\ freed' \in BOOLEAN
      /\ has_data' \in {has_data, {}} /\ has_space' \in {has_space, {}}
  BY DEF Close, FCB_decref, pipe_reader_close, pipe_writer_close, EndOfFile,
         ends, IInv, TypeOK
<1>1. TypeOK'
  <2>1. fids' \in [End -> Nat]
    BY DEF Close, IInv, TypeOK
  <2> QED BY <1>0, <2>1 DEF Close, IInv, TypeOK, ring, calls
<1>2. CallInv'
  BY DEF Close, IInv, CallInv, calls
<1>3. SleepInv'
  BY DEF Close, FCB_decref, pipe_reader_close, pipe_writer_close, EndOfFile,
         IInv, SleepInv
<1>4. BroadcastInv'
  BY DEF Close, FCB_decref, pipe_reader_close, pipe_writer_close, EndOfFile,
         IInv, TypeOK, CallInv, SleepInv, BroadcastInv, EndInv, Runs, Empty,
         Full, End, ring, ends
<1>5. EndInv'
  <2>1. /\ fids[e] \in Nat /\ fids[e] > 0 /\ fids'[e] = fids[e] - 1
        /\ \A f \in End : f # e => fids'[f] = fids[f]
        /\ UNCHANGED <<pc, end>>
    BY DEF Close, IInv, TypeOK, calls
  <2>2. CASE refcount(e) > 1
    <3>1. UNCHANGED ends
      BY <2>2 DEF Close, FCB_decref
    <3> QED BY <2>1, <2>2, <3>1, LastFid DEF IInv, EndInv, End, ends
  <2>3. CASE ~(refcount(e) > 1)
    <3>1. fids'[e] = 0 /\ ~ \E t \in Thread : pc[t] # "user" /\ end[t] = e
      BY <2>1, <2>3, LastFid DEF IInv
    <3>2. CASE e = "read"
      BY <2>1, <2>3, <3>1, <3>2
         DEF Close, FCB_decref, pipe_reader_close, IInv, TypeOK, EndInv, End
    <3>3. CASE e = "write"
      BY <2>1, <2>3, <3>1, <3>3
         DEF Close, FCB_decref, pipe_writer_close, IInv, TypeOK, EndInv, End
    <3> QED BY <3>2, <3>3 DEF End
  <2> QED BY <2>2, <2>3
<1> QED BY <1>1, <1>2, <1>3, <1>4, <1>5 DEF IInv

\* An end that is open gets one more file id.
LEMMA Dup2Step ==
  ASSUME IInv, NEW e \in End, Dup2(e)
  PROVE  IInv'
<1>1. TypeOK'
  BY DEF Dup2, IInv, TypeOK, ring, ends, calls
<1>2. CallInv'
  BY DEF Dup2, IInv, CallInv, calls
<1>3. SleepInv'
  BY DEF Dup2, IInv, SleepInv
<1>4. BroadcastInv'
  BY DEF Dup2, IInv, BroadcastInv, Runs, Empty, Full, ring, ends
<1>5. EndInv'
  BY DEF Dup2, IInv, TypeOK, EndInv, ends, calls
<1> QED BY <1>1, <1>2, <1>3, <1>4, <1>5 DEF IInv

\* Every step keeps the invariant.
LEMMA StepLemma == IInv /\ [Next]_vars => IInv'
<1> SUFFICES ASSUME IInv, [Next]_vars PROVE IInv'
  OBVIOUS
<1>1. CASE UNCHANGED vars \/ Quiet
  <2>1. UNCHANGED vars
    BY <1>1 DEF Quiet
  <2>2. TypeOK' /\ CallInv' /\ SleepInv'
    BY <2>1 DEF vars, IInv, TypeOK, CallInv, SleepInv
  <2>3. BroadcastInv'
    BY <2>1 DEF vars, IInv, BroadcastInv, Runs, Empty, Full, Step
  <2>4. EndInv'
    BY <2>1 DEF vars, IInv, EndInv
  <2> QED BY <2>2, <2>3, <2>4 DEF IInv
<1>2. ASSUME NEW t \in Thread, NEW count \in 0 .. MaxSize, Read(t, count)
      PROVE  IInv'
  <2>1. count \in Nat /\ "read" \in End
    BY PipeAssumption DEF End
  <2>2. PICK bytes : bytes = <<>>
    OBVIOUS
  <2>3. bytes \in Seq(Byte) /\ Len(bytes) = 0
    BY <2>2
  <2>4. Call(t, "read", bytes, count)
    BY <1>2, <2>2 DEF Read
  <2> QED BY <2>1, <2>3, <2>4, CallStep
<1>3. ASSUME NEW t \in Thread, NEW text \in Texts, Write(t, text)
      PROVE  IInv'
  <2>1. text \in Seq(Byte) /\ Len(text) \in Nat /\ "write" \in End
    BY PipeAssumption DEF Texts, End
  <2> QED BY <1>3, <2>1, CallStep DEF Write
<1>4. ASSUME NEW t \in Thread, Wakeup(t) \/ Inside(t)
      PROVE  IInv'
  BY <1>4, WakeupStep, WriteWaitStep, WriteByteStep, WriteEndStep, ReadWaitStep,
     ReadByteStep, ReadEndStep, DecrefStep DEF Inside
<1>5. ASSUME NEW e \in End, Close(e) \/ Dup2(e)
      PROVE  IInv'
  BY <1>5, CloseStep, Dup2Step
<1> QED BY <1>1, <1>2, <1>3, <1>4, <1>5 DEF Next

\* What pipe_read, pipe_write and the closing of the ends keep up together.
THEOREM PipeInvariant == Spec => []IInv
<1> QED BY InitLemma, StepLemma, PTL DEF Spec

\* The positions stay in the buffer, and every other field keeps its type.
THEOREM PipeTypes == Spec => []TypeOK
<1>1. IInv => TypeOK
  BY DEF IInv
<1> QED BY <1>1, PipeInvariant, PTL

\* FCB_incref and FCB_decref around every call keep the Pipe_CB alive for as
\* long as a file id or a call refers to it, and no longer.
THEOREM PipeLives == Spec => []Lifetime
<1>1. ASSUME IInv PROVE Lifetime
  <2>1. TypeOK /\ EndInv
    BY <1>1 DEF IInv
  <2>2. "read" \in End /\ "write" \in End
    BY DEF End
  <2> QED BY <2>1, <2>2, SomeReference DEF EndInv, Lifetime
<1> QED BY <1>1, PipeInvariant, PTL

\* The broadcasts of pipe_read, pipe_write and the closes are enough: nobody is
\* left asleep who could go on.
THEOREM BroadcastsSuffice == Spec => []NoMissedBroadcast
<1>1. IInv => NoMissedBroadcast
  BY DEF IInv, BroadcastInv, NoMissedBroadcast, Runs
<1> QED BY <1>1, PipeInvariant, PTL

-----------------------------------------------------------------------------
(* The bytes in the ring.                                                  *)

\* How many bytes a pipe holds, and what its two tests say of it.
LEMMA UsedLemma ==
  ASSUME TypeOK
  PROVE  /\ Used \in 0 .. PIPE_BUFFER_SIZE - 1
         /\ Empty <=> Used = 0
         /\ Full <=> Used = PIPE_BUFFER_SIZE - 1
BY PipeAssumption, StepValue DEF TypeOK, Used, Empty, Full, Place

\* From r_position on, w_position is met after Used places and not before.
LEMMA AlongLemma ==
  ASSUME TypeOK, NEW k \in 0 .. Used
  PROVE  /\ Along(r_position, k) \in Place
         /\ Along(r_position, 0) = r_position
         /\ Along(r_position, k) = w_position <=> k = Used
BY PipeAssumption DEF TypeOK, Used, Along, Place

\* Contents is a sequence of Used bytes.
LEMMA ContentsLemma ==
  ASSUME TypeOK
  PROVE  /\ Contents \in Seq(Byte) /\ Len(Contents) = Used
         /\ \A k \in 1 .. Used : Contents[k] = buffer[Along(r_position, k - 1)]
<1>1. Used \in Nat
  BY UsedLemma, PipeAssumption
<1>2. \A k \in 1 .. Used : buffer[Along(r_position, k - 1)] \in Byte
  BY <1>1, AlongLemma DEF TypeOK
<1> QED BY <1>1, <1>2 DEF Contents

\* The writing position moves: one byte more.
LEMMA WritePosition ==
  ASSUME TypeOK, ~Full, r_position' = r_position,
         w_position' = Step(w_position)
  PROVE  Used' = Used + 1
<1>1. w_position \in Place /\ r_position \in Place
  BY DEF TypeOK
<1>2. Step(w_position) = IF w_position = PIPE_BUFFER_SIZE - 1
                         THEN 0 ELSE w_position + 1
  BY <1>1, StepValue
<1> QED BY PipeAssumption, <1>1, <1>2 DEF Used, Full, Place

\* The reading position moves: one byte less, and the others keep their places.
LEMMA ReadPosition ==
  ASSUME TypeOK, ~Empty, w_position' = w_position,
         r_position' = Step(r_position)
  PROVE  /\ Used' = Used - 1
         /\ \A k \in 0 .. Used - 1 :
              Along(r_position', k) = Along(r_position, k + 1)
<1>1. w_position \in Place /\ r_position \in Place
  BY DEF TypeOK
<1>2. Step(r_position) = IF r_position = PIPE_BUFFER_SIZE - 1
                         THEN 0 ELSE r_position + 1
  BY <1>1, StepValue
<1> QED BY PipeAssumption, <1>1, <1>2 DEF Used, Empty, Place, Along

\* A byte written comes last.
LEMMA WriteContents ==
  ASSUME TypeOK, ~Full, NEW byte \in Byte,
         r_position' = r_position, w_position' = Step(w_position),
         buffer' = [buffer EXCEPT ![w_position] = byte]
  PROVE  Contents' = Append(Contents, byte)
<1> DEFINE u == Used
<1>1. u \in Nat /\ Used' = u + 1
  BY UsedLemma, WritePosition, PipeAssumption
<1>2. Contents \in Seq(Byte) /\ Len(Contents) = u
  BY ContentsLemma
<1>3. Contents' = [k \in 1 .. u + 1 |-> buffer'[Along(r_position', k - 1)]]
  BY <1>1 DEF Contents
<1>4. Append(Contents, byte)
        = [k \in 1 .. u + 1 |-> IF k = u + 1 THEN byte ELSE Contents[k]]
  <2>1. Append(Contents, byte) \in [1 .. u + 1 -> Byte]
    BY <1>1, <1>2, AppendProperties, LenProperties
  <2>2. \A k \in 1 .. u : Append(Contents, byte)[k] = Contents[k]
    BY <1>1, <1>2, AppendProperties
  <2>3. Append(Contents, byte)[u + 1] = byte
    BY <1>1, <1>2, AppendProperties
  <2>4. \A k \in 1 .. u + 1 :
          Append(Contents, byte)[k] = IF k = u + 1 THEN byte ELSE Contents[k]
    <3>1. u \in Nat
      BY <1>1
    <3> HIDE DEF u
    <3>2. \A k \in 1 .. u + 1 : k # u + 1 => k \in 1 .. u
      BY <3>1
    <3> QED BY <3>2, <2>2, <2>3
  <2> QED BY <2>1, <2>4
<1>5. ASSUME NEW k \in 1 .. u + 1
      PROVE  buffer'[Along(r_position', k - 1)]
               = IF k = u + 1 THEN byte ELSE Contents[k]
  <2>1. k - 1 \in 0 .. u
    BY <1>1
  <2>2. Along(r_position, k - 1) \in Place
        /\ (Along(r_position, k - 1) = w_position <=> k - 1 = u)
    BY <2>1, AlongLemma
  <2>3. buffer'[Along(r_position, k - 1)]
          = IF k - 1 = u THEN byte ELSE buffer[Along(r_position, k - 1)]
    BY <2>2 DEF TypeOK
  <2> QED BY <1>1, <2>1, <2>3, ContentsLemma DEF Along
<1> HIDE DEF u
<1> QED BY <1>3, <1>4, <1>5

\* A byte read was the first.
LEMMA ReadContents ==
  ASSUME TypeOK, ~Empty,
         r_position' = Step(r_position), w_position' = w_position,
         buffer' = buffer
  PROVE  /\ Contents # <<>> /\ Head(Contents) = buffer[r_position]
         /\ Contents' = Tail(Contents)
<1> DEFINE u == Used
<1>1. u \in Nat /\ u >= 1 /\ Used' = u - 1
  BY UsedLemma, ReadPosition, PipeAssumption
<1>2. Contents \in Seq(Byte) /\ Len(Contents) = u
  BY ContentsLemma
<1>3. Contents # <<>> /\ Head(Contents) = Contents[1]
  BY <1>1, <1>2
<1>4. Contents[1] = buffer[r_position]
  BY <1>1, ContentsLemma, AlongLemma
<1>5. Contents' = [k \in 1 .. u - 1 |-> buffer[Along(r_position', k - 1)]]
  BY <1>1 DEF Contents
<1>6. Tail(Contents) = [k \in 1 .. u - 1 |-> Contents[k + 1]]
  <2>1. Tail(Contents) \in [1 .. u - 1 -> Byte]
    BY <1>1, <1>2, <1>3, HeadTailProperties, LenProperties
  <2>2. \A k \in 1 .. u - 1 : Tail(Contents)[k] = Contents[k + 1]
    BY <1>1, <1>2, <1>3, HeadTailProperties
  <2> QED BY <1>1, <2>1, <2>2
<1>7. ASSUME NEW k \in 1 .. u - 1
      PROVE  buffer[Along(r_position', k - 1)] = Contents[k + 1]
  <2>1. Along(r_position', k - 1) = Along(r_position, (k - 1) + 1)
    BY <1>1, ReadPosition
  <2>2. (k - 1) + 1 = k /\ k = (k + 1) - 1 /\ k + 1 \in 1 .. u
    BY <1>1
  <2> QED BY <2>1, <2>2, ContentsLemma
<1> HIDE DEF u
<1> QED BY <1>3, <1>4, <1>5, <1>6, <1>7

-----------------------------------------------------------------------------
(* The refinement of ByteStream.                                           *)

\* What the abstract variables depend on.
LEMMA FrameLemma ==
  /\ UNCHANGED ring => UNCHANGED Contents
  /\ UNCHANGED <<reader, writer>> => UNCHANGED [e \in End |-> Open(e)]
  /\ UNCHANGED pc => UNCHANGED [t \in Thread |-> CallOf(t)]
BY DEF ring, Contents, Used, Along, Open, CallOf

\* A step that changes none of the bytes, ends and calls is not seen.
LEMMA StutterLemma ==
  ASSUME UNCHANGED <<ring, reader, writer, pc, buf, n, i, ret>>
  PROVE  UNCHANGED Stream!vars
BY FrameLemma DEF Stream!vars

\* A step of one thread from one place in the code to another.
LEMMA CallOfLemma ==
  ASSUME TypeOK, NEW t \in Thread,
         NEW next \in {"user", "read", "write", "decref"},
         To(t, next)
  PROVE  [u \in Thread |-> CallOf(u)]'
           = [[u \in Thread |-> CallOf(u)] EXCEPT ![t] =
                CASE next = "user" -> "idle" [] next = "decref" -> "return"
                  [] OTHER -> next]
BY DEF TypeOK, To, CallOf

\* A call that begins.
LEMMA CallRefines ==
  ASSUME IInv, NEW t \in Thread, NEW e \in End, NEW count, NEW bytes,
         Call(t, e, bytes, count)
  PROVE  Stream!Begin(t, e, count, bytes)
<1>1. UNCHANGED Contents /\ UNCHANGED [f \in End |-> Open(f)]
  BY FrameLemma DEF Call, ring, ends
<1>2. Open(e) /\ CallOf(t) = "idle"
  BY DEF Call, IInv, EndInv, Open, CallOf, End
<1>3. [u \in Thread |-> CallOf(u)]'
        = [[u \in Thread |-> CallOf(u)] EXCEPT ![t] = e]
  BY CallOfLemma DEF Call, IInv, End
<1> QED BY <1>1, <1>2, <1>3 DEF Stream!Begin, Call

\* A turn of the loop of pipe_write appends a byte, and there is room for it.
LEMMA WriteByteRefines ==
  ASSUME IInv, NEW t \in Thread, WriteByte(t)
  PROVE  Stream!Put(t)
<1>1. /\ pc[t] = "write" /\ i[t] < n[t] /\ i[t] \in Nat /\ n[t] \in Nat
      /\ buf[t] \in Seq(Byte) /\ Len(buf[t]) = n[t]
  BY DEF WriteByte, IInv, TypeOK, CallInv
<1>2. buf[t][i[t] + 1] \in Byte
  BY <1>1, ElementOfSeq
<1>3. ~Full /\ reader
  BY DEF WriteByte, WriterWaits
<1>4. Contents' = Append(Contents, buf[t][i[t] + 1])
  BY <1>2, <1>3, WriteContents DEF WriteByte, IInv
<1>5. Len(Contents) < PIPE_BUFFER_SIZE - 1
  BY <1>3, PipeAssumption, UsedLemma, ContentsLemma DEF IInv
<1>6. CallOf(t) = "write" /\ Open("read") /\ "read" \in End
  BY <1>1, <1>3 DEF CallOf, Open, End
<1>7. /\ UNCHANGED [e \in End |-> Open(e)]
      /\ UNCHANGED [u \in Thread |-> CallOf(u)]
  BY FrameLemma DEF WriteByte, ends
<1> QED BY <1>1, <1>4, <1>5, <1>6, <1>7 DEF Stream!Put, WriteByte

\* pipe_write returns all that was asked for, or -1 without a reader.
LEMMA WriteEndRefines ==
  ASSUME IInv, NEW t \in Thread, WriteEnd(t)
  PROVE  Stream!EndWrite(t)
<1>1. pc[t] = "write" /\ i[t] \in Nat /\ n[t] \in Nat /\ i[t] <= n[t]
  BY DEF WriteEnd, IInv, TypeOK, CallInv, End
<1>2. CallOf(t) = "write" /\ (Open("read") <=> reader) /\ "read" \in End
  BY <1>1 DEF CallOf, Open, End
<1>3. UNCHANGED Contents /\ UNCHANGED [e \in End |-> Open(e)]
  BY FrameLemma DEF WriteEnd, ring, ends
<1>4. [u \in Thread |-> CallOf(u)]'
        = [[u \in Thread |-> CallOf(u)] EXCEPT ![t] = "return"]
  BY CallOfLemma DEF WriteEnd, IInv
<1> QED BY <1>1, <1>2, <1>3, <1>4 DEF Stream!EndWrite, Stream!Return, WriteEnd

\* A turn of the loop of pipe_read takes the first byte.
LEMMA ReadByteRefines ==
  ASSUME IInv, NEW t \in Thread, ReadByte(t)
  PROVE  Stream!Get(t)
<1>1. /\ Contents # <<>> /\ Head(Contents) = buffer[r_position]
      /\ Contents' = Tail(Contents)
  BY ReadContents DEF ReadByte, IInv
<1>2. CallOf(t) = "read"
  BY DEF ReadByte, CallOf
<1>3. /\ UNCHANGED [e \in End |-> Open(e)]
      /\ UNCHANGED [u \in Thread |-> CallOf(u)]
  BY FrameLemma DEF ReadByte, ends
<1> QED BY <1>1, <1>2, <1>3 DEF Stream!Get, ReadByte

\* pipe_read returns short of what was asked for at the end of file only.
LEMMA ReadEndRefines ==
  ASSUME IInv, NEW t \in Thread, ReadEnd(t)
  PROVE  Stream!EndRead(t)
<1>1. CallOf(t) = "read" /\ (Open("write") <=> writer) /\ "write" \in End
  BY DEF ReadEnd, CallOf, Open, End
<1>2. Empty => Contents = <<>>
  BY UsedLemma, ContentsLemma DEF IInv
<1>3. UNCHANGED Contents /\ UNCHANGED [e \in End |-> Open(e)]
  BY FrameLemma DEF ReadEnd, ring, ends
<1>4. [u \in Thread |-> CallOf(u)]'
        = [[u \in Thread |-> CallOf(u)] EXCEPT ![t] = "return"]
  BY CallOfLemma DEF ReadEnd, IInv
<1> QED BY <1>1, <1>2, <1>3, <1>4 DEF Stream!EndRead, Stream!Return, ReadEnd

\* The call is over; an end closes with its last reference, so under no other
\* call.
LEMMA DecrefRefines ==
  ASSUME IInv, NEW t \in Thread, Decref(t)
  PROVE  \E e \in End, last \in BOOLEAN : Stream!Done(t, e, last)
<1> DEFINE e == end[t]
           last == ~(refcount(e) > 1)
<1>1. pc[t] = "decref" /\ e \in End /\ last \in BOOLEAN
  BY DEF Decref, IInv, TypeOK
<1>2. UNCHANGED Contents
  BY FrameLemma DEF Decref, ring
<1>3. [u \in Thread |-> CallOf(u)]'
        = [[u \in Thread |-> CallOf(u)] EXCEPT ![t] = "idle"]
  BY CallOfLemma DEF Decref, IInv
<1>4. Open(e)
  BY <1>1 DEF IInv, EndInv, Open, End
<1>5. last => \A u \in Thread : CallOf(u) # e
  <2>1. last => ~ \E u \in Thread : u # t /\ pc[u] # "user" /\ end[u] = e
    BY <1>1, LastCall DEF IInv
  <2>2. \A u \in Thread : CallOf(u) = e => u # t /\ pc[u] # "user" /\ end[u] = e
    BY <1>1 DEF IInv, CallInv, TypeOK, CallOf, End
  <2> QED BY <2>1, <2>2
<1>6. [f \in End |-> Open(f)]'
        = [[f \in End |-> Open(f)] EXCEPT ![e] = @ /\ ~last]
  <2>1. FCB_decref(e, refcount(e))
    BY DEF Decref
  <2>2. CASE last
    <3>1. \A f \in End : Open(f)' = IF f = e THEN FALSE ELSE Open(f)
      BY <1>1, <2>1, <2>2
         DEF FCB_decref, pipe_reader_close, pipe_writer_close, Open, End
    <3> QED BY <1>1, <2>2, <3>1
  <2>3. CASE ~last
    <3>1. \A f \in End : Open(f)' = Open(f) /\ Open(f) \in BOOLEAN
      BY <2>1, <2>3 DEF FCB_decref, ends, Open, IInv, TypeOK
    <3> QED BY <1>1, <2>3, <3>1
  <2> QED BY <2>2, <2>3
<1>7. [u \in Thread |-> CallOf(u)][t] = "return"
  BY <1>1 DEF CallOf
<1>8. last => [f \in End |-> Open(f)][e]
              /\ \A u \in Thread : [v \in Thread |-> CallOf(v)][u] # e
  BY <1>1, <1>4, <1>5
<1> HIDE DEF last
<1>9. Stream!Done(t, e, last)
  BY <1>2, <1>3, <1>6, <1>7, <1>8 DEF Stream!Done, Decref
<1> QED BY <1>1, <1>9

\* sys_Close closes an end that no call uses, or drops one of several references.
LEMMA CloseRefines ==
  ASSUME IInv, NEW e \in End, Close(e)
  PROVE  Stream!Close(e) \/ UNCHANGED Stream!vars
<1>1. CASE refcount(e) > 1
  BY <1>1, StutterLemma DEF Close, FCB_decref, ends, calls
<1>2. CASE ~(refcount(e) > 1)
  <2>1. ~ \E t \in Thread : pc[t] # "user" /\ end[t] = e
    BY <1>2, LastFid DEF Close, IInv
  <2>2. \A t \in Thread : CallOf(t) # e
    BY <2>1 DEF IInv, CallInv, TypeOK, CallOf, End
  <2>3. Open(e)
    BY DEF Close, IInv, EndInv, Open, End
  <2>4. \A f \in End : Open(f)' = IF f = e THEN FALSE ELSE Open(f)
    BY <1>2
       DEF Close, FCB_decref, pipe_reader_close, pipe_writer_close, Open, End
  <2>5. [f \in End |-> Open(f)]' = [[f \in End |-> Open(f)] EXCEPT ![e] = FALSE]
    BY <2>4
  <2>6. UNCHANGED Contents /\ UNCHANGED [t \in Thread |-> CallOf(t)]
    BY FrameLemma DEF Close, ring
  <2> QED BY <2>2, <2>3, <2>5, <2>6 DEF Stream!Close, Close, calls
<1> QED BY <1>1, <1>2

\* A new pipe is empty and both its ends are open.
LEMMA InitRefines == Init => Stream!Init
<1> SUFFICES ASSUME Init PROVE Stream!Init
  OBVIOUS
<1>1. Contents = <<>>
  <2>1. TypeOK /\ Used = 0
    BY InitLemma DEF IInv, Init, Used
  <2> QED BY <2>1, ContentsLemma
<1>2. [e \in End |-> Open(e)] = [e \in End |-> TRUE]
  BY DEF Init, Open
<1>3. [t \in Thread |-> CallOf(t)] = [t \in Thread |-> "idle"]
  BY DEF Init, CallOf
<1> QED BY <1>1, <1>2, <1>3 DEF Init, Stream!Init, Stream!End, End

\* Every step of the pipe is a step of the byte queue or is not seen there.
LEMMA NextRefines == IInv /\ [Next]_vars => [Stream!Next]_(Stream!vars)
<1> SUFFICES ASSUME IInv, [Next]_vars
             PROVE  Stream!Next \/ UNCHANGED Stream!vars
  OBVIOUS
<1>0. Stream!End = End /\ Stream!Texts = Texts
  BY DEF Stream!End, End, Stream!Texts, Texts
<1>1. CASE UNCHANGED vars \/ Quiet
  BY <1>1, StutterLemma DEF Quiet, vars, ring
<1>2. ASSUME NEW t \in Thread, NEW count \in 0 .. MaxSize, Read(t, count)
      PROVE  Stream!Next
  <2>1. Stream!Begin(t, "read", count, <<>>)
    BY <1>2, CallRefines DEF Read, End
  <2> QED BY <2>1 DEF Stream!Next
<1>3. ASSUME NEW t \in Thread, NEW text \in Texts, Write(t, text)
      PROVE  Stream!Next
  <2>1. Stream!Begin(t, "write", Len(text), text)
    BY <1>3, CallRefines DEF Write, End
  <2> QED BY <1>0, <2>1 DEF Stream!Next
<1>4. ASSUME NEW t \in Thread, Wakeup(t) \/ WriteWait(t) \/ ReadWait(t)
      PROVE  UNCHANGED Stream!vars
  BY <1>4, StutterLemma DEF Wakeup, WriteWait, ReadWait, ends, calls
<1>5. ASSUME NEW t \in Thread,
             WriteByte(t) \/ WriteEnd(t) \/ ReadByte(t) \/ ReadEnd(t)
      PROVE  Stream!Next
  <2>1. \/ Stream!Put(t) \/ Stream!EndWrite(t)
        \/ Stream!Get(t) \/ Stream!EndRead(t)
    BY <1>5, WriteByteRefines, WriteEndRefines, ReadByteRefines, ReadEndRefines
  <2> QED BY <2>1 DEF Stream!Next
<1>6. ASSUME NEW t \in Thread, Decref(t)
      PROVE  Stream!Next
  <2>1. \E e \in Stream!End, last \in BOOLEAN : Stream!Done(t, e, last)
    BY <1>0, <1>6, DecrefRefines
  <2> QED BY <2>1 DEF Stream!Next
<1>7. ASSUME NEW e \in End, Close(e)
      PROVE  Stream!Next \/ UNCHANGED Stream!vars
  <2>1. Stream!Close(e) \/ UNCHANGED Stream!vars
    BY <1>7, CloseRefines
  <2> QED BY <1>0, <2>1 DEF Stream!Next
<1>8. ASSUME NEW e \in End, Dup2(e)
      PROVE  UNCHANGED Stream!vars
  BY <1>8, StutterLemma DEF Dup2, ends, calls
<1> QED BY <1>1, <1>2, <1>3, <1>4, <1>5, <1>6, <1>7, <1>8 DEF Next, Inside

\* pipe_read and pipe_write make the ring, the two positions and the two
\* conditions a queue of bytes: each byte written is read once, in order, and
\* no end is closed under a call.
THEOREM PipeRefinement == Spec => RefinesStream
<1>1. Init => Stream!Init
  BY InitRefines
<1>2. IInv /\ [Next]_vars => [Stream!Next]_(Stream!vars)
  BY NextRefines
<1> QED BY <1>1, <1>2, PipeInvariant, PTL DEF Spec, RefinesStream, Stream!Spec

=============================================================================
