---------------------------- MODULE MachineProofs ----------------------------
(***************************************************************************)
(* Proofs about Machine, for any number of cores and any set of threads.   *)
(***************************************************************************)
EXTENDS Machine, TLAPS

\* Until the cores enter the scheduler nothing has been started.
Early == {"start", "boot"}

BootInv ==
  \A c \in Core : place[c] \in Early =>
    /\ timer = {} /\ sigalrm = {}
    /\ \A d \in Core : /\ place[d] = place[c] /\ current[d] = d
                       /\ ALARM \notin intr_pending[d]
    /\ \A x \in Context : /\ handler[x] = "none" /\ timer_id[x] = NULL
                          /\ pc[x] = IF x \in Core THEN "cancel" ELSE "arm"

\* An idle thread runs on its own core only.
IdleInv == \A c, d \in Core : current[c] = d => c = d

\* A context that can be given a core is in gain.
RestInv ==
  \A x \in Core \cup alive : x \notin Running =>
    handler[x] = "arm" \/ (handler[x] = "none" /\ pc[x] = "arm")

\* A halted core has its idle thread, and dispatches nothing.
HaltInv ==
  \A c \in Core : pc[c] = "halt" =>
    place[c] = "sched" /\ current[c] = c /\ handler[c] = "none"

AlarmInv ==
  \A c \in Core : place[c] = "sched" /\ ALARM \in intr_pending[c] =>
    signal[c] \/ (inside[current[c]] = c /\ handler[current[c]] = "loop")

IInv ==
  /\ TypeOK /\ BootInv /\ IdleInv /\ RestInv /\ HaltInv
  /\ AlarmInv /\ TimeSlicesEnd /\ RestartSeen

LEMMA InitLemma == Init => IInv
<1> SUFFICES ASSUME Init PROVE IInv
  OBVIOUS
<1> USE MachineAssumption DEF Init, Core, Context, Early
<1>1. TypeOK
  BY DEF TypeOK, Interrupt
<1>2. BootInv /\ IdleInv /\ RestInv /\ HaltInv
  BY DEF BootInv, IdleInv, RestInv, HaltInv, Running
<1>3. AlarmInv /\ TimeSlicesEnd /\ RestartSeen
  BY DEF AlarmInv, TimeSlicesEnd, RestartSeen
<1> QED
  BY <1>1, <1>2, <1>3 DEF IInv

LEMMA DeliverKeeps ==
  ASSUME IInv, NEW c \in Core, Deliver(c)
  PROVE  IInv'
<1> USE MachineAssumption DEF IInv, Deliver, Masked, Core, Context, Early, coreVars, intrVars, lifeVars
<1>1. TypeOK'
  BY DEF TypeOK, Interrupt, Running, IdleInv
<1>2. BootInv'
  BY DEF TypeOK, BootInv
<1>3. IdleInv'
  BY DEF TypeOK, IdleInv
<1>4. RestInv'
  BY DEF TypeOK, RestInv, Running, IdleInv
<1>5. HaltInv'
  BY DEF TypeOK, HaltInv, IdleInv
<1>6. AlarmInv'
  BY DEF TypeOK, AlarmInv, BootInv, Interrupt, ALARM, SERIAL
<1>7. TimeSlicesEnd'
  BY DEF TypeOK, TimeSlicesEnd, Ticking, RestInv, Running, BootInv
<1>8. RestartSeen'
  BY DEF TypeOK, RestartSeen, HaltInv
<1> QED
  BY <1>1, <1>2, <1>3, <1>4, <1>5, <1>6, <1>7, <1>8

LEMMA DispatchKeeps ==
  ASSUME IInv, NEW c \in Core, Dispatch(c)
  PROVE  IInv'
<1> USE MachineAssumption DEF IInv, Dispatch, Core, Context, Early, coreVars, intrVars, lifeVars
<1>1. TypeOK'
  <2>1. CASE Lowest(intr_pending[c]) = ALARM
    <3>1. /\ intr_pending' \in [Core -> SUBSET Interrupt] /\ timer' \subseteq Core
          /\ handler' \in [Context -> {"none", "loop", "yield", "arm"}]
      BY <2>1 DEF TypeOK
    <3>2. \A x \in Context : inside'[x] = NULL <=> handler'[x] = "none"
      BY <2>1 DEF TypeOK
    <3> QED
      BY <3>1, <3>2 DEF TypeOK
  <2>2. CASE Lowest(intr_pending[c]) # ALARM
    BY <2>2 DEF TypeOK, Interrupt
  <2> QED
    BY <2>1, <2>2
<1>2. BootInv'
  BY DEF TypeOK, BootInv
<1>3. IdleInv'
  BY DEF TypeOK, IdleInv
<1>4. RestInv'
  <2>1. current[c] \in Running /\ Running' = Running
    BY DEF Running
  <2>2. \A x \in Context \ {current[c]} : handler'[x] = handler[x] /\ pc'[x] = pc[x]
    BY DEF TypeOK
  <2> QED
    BY <2>1, <2>2 DEF RestInv, TypeOK
<1>5. HaltInv'
  BY DEF TypeOK, HaltInv, IdleInv
<1>6. AlarmInv'
  BY DEF TypeOK, AlarmInv, BootInv, Interrupt, ALARM, SERIAL
<1>7. TimeSlicesEnd'
  BY DEF TypeOK, TimeSlicesEnd, Ticking, RestInv, Running, BootInv
<1>8. RestartSeen'
  BY DEF TypeOK, RestartSeen, HaltInv
<1> QED
  BY <1>1, <1>2, <1>3, <1>4, <1>5, <1>6, <1>7, <1>8

LEMMA DispatchEndsKeeps ==
  ASSUME IInv, NEW c \in Core, DispatchEnds(c)
  PROVE  IInv'
<1> USE MachineAssumption DEF IInv, DispatchEnds, Core, Context, Early, coreVars, intrVars, lifeVars
<1>1. TypeOK'
  BY DEF TypeOK, Interrupt, Running, IdleInv
<1>2. BootInv'
  BY DEF TypeOK, BootInv
<1>3. IdleInv'
  BY DEF TypeOK, IdleInv
<1>4. RestInv'
  BY DEF TypeOK, RestInv, Running, IdleInv
<1>5. HaltInv'
  BY DEF TypeOK, HaltInv, IdleInv
<1>6. AlarmInv'
  BY DEF TypeOK, AlarmInv, BootInv, Interrupt, ALARM, SERIAL
<1>7. TimeSlicesEnd'
  BY DEF TypeOK, TimeSlicesEnd, Ticking, RestInv, Running, BootInv
<1>8. RestartSeen'
  BY DEF TypeOK, RestartSeen, HaltInv
<1> QED
  BY <1>1, <1>2, <1>3, <1>4, <1>5, <1>6, <1>7, <1>8

LEMMA IgnoreKeeps ==
  ASSUME IInv, NEW c \in Core, Ignore(c)
  PROVE  IInv'
<1> USE MachineAssumption DEF IInv, Ignore, Core, Context, Early, coreVars, intrVars, lifeVars
<1>1. TypeOK'
  BY DEF TypeOK, Interrupt, Running, IdleInv
<1>2. BootInv'
  BY DEF TypeOK, BootInv
<1>3. IdleInv'
  BY DEF TypeOK, IdleInv
<1>4. RestInv'
  BY DEF TypeOK, RestInv, Running, IdleInv
<1>5. HaltInv'
  BY DEF TypeOK, HaltInv, IdleInv
<1>6. AlarmInv'
  BY DEF TypeOK, AlarmInv, BootInv, Interrupt, ALARM, SERIAL
<1>7. TimeSlicesEnd'
  BY DEF TypeOK, TimeSlicesEnd, Ticking, RestInv, Running, BootInv
<1>8. RestartSeen'
  BY DEF TypeOK, RestartSeen, HaltInv
<1> QED
  BY <1>1, <1>2, <1>3, <1>4, <1>5, <1>6, <1>7, <1>8

LEMMA TimerExpiresKeeps ==
  ASSUME IInv, NEW c \in Core, TimerExpires(c)
  PROVE  IInv'
<1> USE MachineAssumption DEF IInv, TimerExpires, Core, Context, Early, coreVars, intrVars, lifeVars
<1>1. TypeOK'
  BY DEF TypeOK, Interrupt, Running, IdleInv
<1>2. BootInv'
  BY DEF TypeOK, BootInv
<1>3. IdleInv'
  BY DEF TypeOK, IdleInv
<1>4. RestInv'
  BY DEF TypeOK, RestInv, Running, IdleInv
<1>5. HaltInv'
  BY DEF TypeOK, HaltInv, IdleInv
<1>6. AlarmInv'
  BY DEF TypeOK, AlarmInv, BootInv, Interrupt, ALARM, SERIAL
<1>7. TimeSlicesEnd'
  BY DEF TypeOK, TimeSlicesEnd, Ticking, RestInv, Running, BootInv
<1>8. RestartSeen'
  BY DEF TypeOK, RestartSeen, HaltInv
<1> QED
  BY <1>1, <1>2, <1>3, <1>4, <1>5, <1>6, <1>7, <1>8

LEMMA PICAlarmKeeps ==
  ASSUME IInv, NEW c \in Core, PICAlarm(c)
  PROVE  IInv'
<1> USE MachineAssumption DEF IInv, PICAlarm, Raise, RaiseSignal, Core, Context, Early, coreVars, intrVars, lifeVars
<1>1. TypeOK'
  BY DEF TypeOK, Interrupt, Running, IdleInv
<1>2. BootInv'
  BY DEF TypeOK, BootInv
<1>3. IdleInv'
  BY DEF TypeOK, IdleInv
<1>4. RestInv'
  BY DEF TypeOK, RestInv, Running, IdleInv
<1>5. HaltInv'
  BY DEF TypeOK, HaltInv, IdleInv
<1>6. AlarmInv'
  BY DEF TypeOK, AlarmInv, BootInv, Interrupt, ALARM, SERIAL
<1>7. TimeSlicesEnd'
  BY DEF TypeOK, TimeSlicesEnd, Ticking, RestInv, Running, BootInv
<1>8. RestartSeen'
  BY DEF TypeOK, RestartSeen, HaltInv
<1> QED
  BY <1>1, <1>2, <1>3, <1>4, <1>5, <1>6, <1>7, <1>8

LEMMA PICSerialKeeps ==
  ASSUME IInv, PICSerial
  PROVE  IInv'
<1> USE MachineAssumption DEF IInv, PICSerial, Raise, RaiseSignal, Core, Context, Early, coreVars, intrVars, lifeVars
<1>1. TypeOK'
  BY DEF TypeOK, Interrupt, Running, IdleInv
<1>2. BootInv'
  BY DEF TypeOK, BootInv, ALARM, SERIAL
<1>3. IdleInv'
  BY DEF TypeOK, IdleInv
<1>4. RestInv'
  BY DEF TypeOK, RestInv, Running, IdleInv
<1>5. HaltInv'
  BY DEF TypeOK, HaltInv, IdleInv
<1>6. AlarmInv'
  BY DEF TypeOK, AlarmInv, BootInv, Interrupt, ALARM, SERIAL
<1>7. TimeSlicesEnd'
  BY DEF TypeOK, TimeSlicesEnd, Ticking, RestInv, Running, BootInv
<1>8. RestartSeen'
  BY DEF TypeOK, RestartSeen, HaltInv
<1> QED
  BY <1>1, <1>2, <1>3, <1>4, <1>5, <1>6, <1>7, <1>8

LEMMA ReadTimerIdKeeps ==
  ASSUME IInv, NEW c \in Core, ReadTimerId(c)
  PROVE  IInv'
<1> USE MachineAssumption DEF IInv, ReadTimerId, Yields, Core, Context, Early, coreVars, intrVars, lifeVars
<1>1. TypeOK'
  BY DEF TypeOK, Interrupt, Running, IdleInv
<1>2. BootInv'
  BY DEF TypeOK, BootInv
<1>3. IdleInv'
  BY DEF TypeOK, IdleInv
<1>4. RestInv'
  BY DEF TypeOK, RestInv, Running, IdleInv
<1>5. HaltInv'
  BY DEF TypeOK, HaltInv, IdleInv
<1>6. AlarmInv'
  BY DEF TypeOK, AlarmInv, BootInv, Interrupt, ALARM, SERIAL
<1>7. TimeSlicesEnd'
  BY DEF TypeOK, TimeSlicesEnd, Ticking, RestInv, Running, BootInv
<1>8. RestartSeen'
  BY DEF TypeOK, RestartSeen, HaltInv
<1> QED
  BY <1>1, <1>2, <1>3, <1>4, <1>5, <1>6, <1>7, <1>8

LEMMA CancelTimerKeeps ==
  ASSUME IInv, NEW c \in Core, CancelTimer(c)
  PROVE  IInv'
<1> USE MachineAssumption DEF IInv, CancelTimer, Yields, Core, Context, Early, coreVars, intrVars, lifeVars
<1>1. TypeOK'
  BY DEF TypeOK, Interrupt, Running, IdleInv
<1>2. BootInv'
  BY DEF TypeOK, BootInv
<1>3. IdleInv'
  BY DEF TypeOK, IdleInv
<1>4. RestInv'
  BY DEF TypeOK, RestInv, Running, IdleInv
<1>5. HaltInv'
  BY DEF TypeOK, HaltInv, IdleInv
<1>6. AlarmInv'
  BY DEF TypeOK, AlarmInv, BootInv, Interrupt, ALARM, SERIAL
<1>7. TimeSlicesEnd'
  BY DEF TypeOK, TimeSlicesEnd, Ticking, RestInv, Running, BootInv
<1>8. RestartSeen'
  BY DEF TypeOK, RestartSeen, HaltInv
<1> QED
  BY <1>1, <1>2, <1>3, <1>4, <1>5, <1>6, <1>7, <1>8

LEMMA SwapKeeps ==
  ASSUME IInv, NEW c \in Core, NEW y \in Context, place[c] = "sched", Swap(c, y)
  PROVE  IInv'
<1> USE MachineAssumption DEF IInv, Core, Context, Early
<1> DEFINE x == current[c]
<1>1. /\ x \in Context /\ x \in Running
      /\ current' = [current EXCEPT ![c] = y]
      /\ alive' \in {alive, alive \ {x}}
      /\ y = c \/ (y \in alive /\ y \notin Running \ {x})
  BY DEF Swap, TypeOK, Running
<1>2. UNCHANGED <<intr_pending, signal, halt_vector, timer, sigalrm, inside,
                  timer_id, place, pic, PIC_active, stolen>>
  BY DEF Swap, intrVars, lifeVars
<1>3. \/ /\ handler[x] = "none" /\ pc[x] = "yield" /\ handler' = handler
         /\ pc' = [pc EXCEPT ![x] = "arm"]
      \/ /\ handler[x] = "yield" /\ pc' = pc
         /\ handler' = [handler EXCEPT ![x] = "arm"]
  BY DEF Swap
<1>4. \A d \in Core \ {c} : current[d] # y
  BY <1>1 DEF TypeOK, IdleInv, Running
<1>5. TypeOK'
  <2>1. current' \in [Core -> Context] /\ alive' \subseteq Thread
    BY <1>1 DEF TypeOK
  <2>2. \A d, e \in Core : d # e => current'[d] # current'[e]
    BY <1>1, <1>4 DEF TypeOK
  <2>3. CASE handler' = handler
    BY <1>1, <1>2, <1>3, <2>1, <2>2, <2>3 DEF TypeOK, Interrupt
  <2>4. CASE handler[x] = "yield"
    BY <1>1, <1>2, <1>3, <2>1, <2>2, <2>4 DEF TypeOK, Interrupt
  <2> QED
    BY <1>3, <2>3, <2>4
<1>6. BootInv'
  BY <1>1, <1>2 DEF TypeOK, BootInv
<1>7. IdleInv'
  BY <1>1 DEF TypeOK, IdleInv
<1>8. \A z \in Context : z \notin {x, y} => (z \in Running' <=> z \in Running)
  BY <1>1 DEF TypeOK, Running
<1>9. RestInv'
  <2>1. handler'[x] = "arm" \/ (handler'[x] = "none" /\ pc'[x] = "arm")
    BY <1>1, <1>3 DEF TypeOK
  <2>2. y \in Running'
    BY <1>1 DEF TypeOK, Running
  <2>3. \A z \in Context \ {x} : handler'[z] = handler[z] /\ pc'[z] = pc[z]
    BY <1>3 DEF TypeOK
  <2> QED
    BY <1>1, <1>8, <2>1, <2>2, <2>3 DEF TypeOK, RestInv
<1>10. HaltInv'
  <2> SUFFICES ASSUME NEW d \in Core, pc'[d] = "halt"
               PROVE  place'[d] = "sched" /\ current'[d] = d /\ handler'[d] = "none"
    BY DEF HaltInv
  <2>1. d # x /\ pc[d] = "halt"
    BY <1>1, <1>3 DEF TypeOK, HaltInv
  <2>2. d # c
    BY <2>1 DEF HaltInv
  <2> QED
    BY <1>1, <1>2, <1>3, <2>1, <2>2 DEF TypeOK, HaltInv
<1>11. AlarmInv'
  <2>1. \A d \in Core \ {c} : current'[d] = current[d] /\ handler'[current[d]] = handler[current[d]]
    BY <1>1, <1>3 DEF TypeOK
  <2>2. handler[x] # "loop"
    BY <1>3
  <2> QED
    BY <1>2, <2>1, <2>2 DEF TypeOK, AlarmInv
<1>12. TimeSlicesEnd'
  <2>1. ASSUME NEW d \in Core, d # c, place[d] = "sched"
        PROVE  Ticking(d)' \/ d \in stolen
    BY <1>1, <1>2, <1>3, <2>1 DEF TypeOK, TimeSlicesEnd, Ticking
  <2>2. "arm" \in {pc'[y], handler'[y]}
    <3>1. CASE y = x
      BY <1>1, <1>3, <3>1 DEF TypeOK
    <3>2. CASE y # x
      <4>1. y \in Core \cup alive /\ y \notin Running
        BY <1>1, <1>4, <3>2 DEF TypeOK, Running
      <4>2. handler[y] = "arm" \/ pc[y] = "arm"
        BY <4>1 DEF RestInv
      <4>3. handler'[y] = handler[y] /\ pc'[y] = pc[y]
        BY <1>3, <3>2 DEF TypeOK
      <4> QED
        BY <4>2, <4>3
    <3> QED
      BY <3>1, <3>2
  <2>3. current'[c] = y
    BY <1>1 DEF TypeOK
  <2>4. Ticking(c)'
    BY <2>2, <2>3 DEF Ticking
  <2> QED
    BY <1>2, <2>1, <2>4 DEF TimeSlicesEnd
<1>13. RestartSeen'
  BY <1>1, <1>2, <1>3 DEF TypeOK, RestartSeen, HaltInv
<1> QED
  BY <1>5, <1>6, <1>7, <1>9, <1>10, <1>11, <1>12, <1>13

LEMMA ArmKeeps ==
  ASSUME IInv, NEW c \in Core, Arm(c)
  PROVE  IInv'
<1> USE MachineAssumption DEF IInv, Arm, Armed, Core, Context, Early, coreVars, intrVars, lifeVars
<1>1. TypeOK'
  <2>1. CASE handler[current[c]] = "none"
    BY <2>1 DEF TypeOK, Interrupt
  <2>2. CASE handler[current[c]] # "none"
    BY <2>2 DEF TypeOK, Interrupt
  <2> QED
    BY <2>1, <2>2
<1>2. BootInv'
  BY DEF TypeOK, BootInv
<1>3. IdleInv'
  BY DEF TypeOK, IdleInv
<1>4. RestInv'
  <2>1. current[c] \in Running /\ Running' = Running
    BY DEF Running
  <2>2. \A x \in Context \ {current[c]} : handler'[x] = handler[x] /\ pc'[x] = pc[x]
    BY DEF TypeOK
  <2> QED
    BY <2>1, <2>2 DEF RestInv, TypeOK
<1>5. HaltInv'
  BY DEF TypeOK, HaltInv, IdleInv
<1>6. AlarmInv'
  BY DEF TypeOK, AlarmInv, BootInv, Interrupt, ALARM, SERIAL
<1>7. TimeSlicesEnd'
  BY DEF TypeOK, TimeSlicesEnd, Ticking, RestInv, Running, BootInv
<1>8. RestartSeen'
  BY DEF TypeOK, RestartSeen, HaltInv
<1> QED
  BY <1>1, <1>2, <1>3, <1>4, <1>5, <1>6, <1>7, <1>8

LEMMA IdleTestsKeeps ==
  ASSUME IInv, NEW c \in Core, IdleTests(c)
  PROVE  IInv'
<1> USE MachineAssumption DEF IInv, IdleTests, IdleRuns, Core, Context, Early, coreVars, intrVars, lifeVars
<1>1. TypeOK'
  BY DEF TypeOK, Interrupt, Running, IdleInv
<1>2. BootInv'
  BY DEF TypeOK, BootInv
<1>3. IdleInv'
  BY DEF TypeOK, IdleInv
<1>4. RestInv'
  BY DEF TypeOK, RestInv, Running, IdleInv
<1>5. HaltInv'
  BY DEF TypeOK, HaltInv, IdleInv
<1>6. AlarmInv'
  BY DEF TypeOK, AlarmInv, BootInv, Interrupt, ALARM, SERIAL
<1>7. TimeSlicesEnd'
  BY DEF TypeOK, TimeSlicesEnd, Ticking, RestInv, Running, BootInv
<1>8. RestartSeen'
  BY DEF TypeOK, RestartSeen, HaltInv
<1> QED
  BY <1>1, <1>2, <1>3, <1>4, <1>5, <1>6, <1>7, <1>8

LEMMA HaltKeeps ==
  ASSUME IInv, NEW c \in Core, Halt(c)
  PROVE  IInv'
<1> USE MachineAssumption DEF IInv, Halt, IdleRuns, Core, Context, Early, coreVars, intrVars, lifeVars
<1>1. TypeOK'
  BY DEF TypeOK, Interrupt, Running, IdleInv
<1>2. BootInv'
  BY DEF TypeOK, BootInv
<1>3. IdleInv'
  BY DEF TypeOK, IdleInv
<1>4. RestInv'
  BY DEF TypeOK, RestInv, Running, IdleInv
<1>5. HaltInv'
  BY DEF TypeOK, HaltInv, IdleInv
<1>6. AlarmInv'
  BY DEF TypeOK, AlarmInv, BootInv, Interrupt, ALARM, SERIAL
<1>7. TimeSlicesEnd'
  BY DEF TypeOK, TimeSlicesEnd, Ticking, RestInv, Running, BootInv
<1>8. RestartSeen'
  BY DEF TypeOK, RestartSeen, HaltInv
<1> QED
  BY <1>1, <1>2, <1>3, <1>4, <1>5, <1>6, <1>7, <1>8

LEMMA WakeKeeps ==
  ASSUME IInv, NEW c \in Core, Wake(c)
  PROVE  IInv'
<1> USE MachineAssumption DEF IInv, Wake, IdleRuns, Core, Context, Early, coreVars, intrVars, lifeVars
<1>1. TypeOK'
  BY DEF TypeOK, Interrupt, Running, IdleInv
<1>2. BootInv'
  BY DEF TypeOK, BootInv
<1>3. IdleInv'
  BY DEF TypeOK, IdleInv
<1>4. RestInv'
  BY DEF TypeOK, RestInv, Running, IdleInv
<1>5. HaltInv'
  BY DEF TypeOK, HaltInv, IdleInv
<1>6. AlarmInv'
  BY DEF TypeOK, AlarmInv, BootInv, Interrupt, ALARM, SERIAL
<1>7. TimeSlicesEnd'
  BY DEF TypeOK, TimeSlicesEnd, Ticking, RestInv, Running, BootInv
<1>8. RestartSeen'
  BY DEF TypeOK, RestartSeen, HaltInv
<1> QED
  BY <1>1, <1>2, <1>3, <1>4, <1>5, <1>6, <1>7, <1>8

LEMMA UnhaltKeeps ==
  ASSUME IInv, NEW c \in Core, Unhalt(c)
  PROVE  IInv'
<1> USE MachineAssumption DEF IInv, Unhalt, IdleRuns, Core, Context, Early, coreVars, intrVars, lifeVars
<1>1. TypeOK'
  BY DEF TypeOK, Interrupt, Running, IdleInv
<1>2. BootInv'
  BY DEF TypeOK, BootInv
<1>3. IdleInv'
  BY DEF TypeOK, IdleInv
<1>4. RestInv'
  BY DEF TypeOK, RestInv, Running, IdleInv
<1>5. HaltInv'
  BY DEF TypeOK, HaltInv, IdleInv
<1>6. AlarmInv'
  BY DEF TypeOK, AlarmInv, BootInv, Interrupt, ALARM, SERIAL
<1>7. TimeSlicesEnd'
  BY DEF TypeOK, TimeSlicesEnd, Ticking, RestInv, Running, BootInv
<1>8. RestartSeen'
  BY DEF TypeOK, RestartSeen, HaltInv
<1> QED
  BY <1>1, <1>2, <1>3, <1>4, <1>5, <1>6, <1>7, <1>8

LEMMA RestartOneKeeps ==
  ASSUME IInv, NEW c \in Core, RestartOne(c)
  PROVE  IInv'
<1> USE MachineAssumption DEF IInv, RestartOne, Restart, Interrupted, Core, Context, Early, coreVars, intrVars, lifeVars
<1>1. TypeOK'
  BY DEF TypeOK, Interrupt, Running, IdleInv
<1>2. BootInv'
  BY DEF TypeOK, BootInv
<1>3. IdleInv'
  BY DEF TypeOK, IdleInv
<1>4. RestInv'
  BY DEF TypeOK, RestInv, Running, IdleInv
<1>5. HaltInv'
  BY DEF TypeOK, HaltInv, IdleInv
<1>6. AlarmInv'
  BY DEF TypeOK, AlarmInv, BootInv, Interrupt, ALARM, SERIAL
<1>7. TimeSlicesEnd'
  BY DEF TypeOK, TimeSlicesEnd, Ticking, RestInv, Running, BootInv
<1>8. RestartSeen'
  BY DEF TypeOK, RestartSeen, HaltInv
<1> QED
  BY <1>1, <1>2, <1>3, <1>4, <1>5, <1>6, <1>7, <1>8

LEMMA IdleLeavesKeeps ==
  ASSUME IInv, NEW c \in Core, IdleLeaves(c)
  PROVE  IInv'
<1> USE MachineAssumption DEF IInv, IdleLeaves, IdleRuns, Restart, Interrupted, Core, Context, Early, coreVars, intrVars, lifeVars
<1>1. TypeOK'
  BY DEF TypeOK, Interrupt, Running, IdleInv
<1>2. BootInv'
  BY DEF TypeOK, BootInv
<1>3. IdleInv'
  BY DEF TypeOK, IdleInv
<1>4. RestInv'
  BY DEF TypeOK, RestInv, Running, IdleInv
<1>5. HaltInv'
  BY DEF TypeOK, HaltInv, IdleInv
<1>6. AlarmInv'
  BY DEF TypeOK, AlarmInv, BootInv, Interrupt, ALARM, SERIAL
<1>7. TimeSlicesEnd'
  BY DEF TypeOK, TimeSlicesEnd, Ticking, RestInv, Running, BootInv
<1>8. RestartSeen'
  BY DEF TypeOK, RestartSeen, HaltInv
<1> QED
  BY <1>1, <1>2, <1>3, <1>4, <1>5, <1>6, <1>7, <1>8

LEMMA StartKeeps ==
  ASSUME IInv, Start
  PROVE  IInv'
<1> USE MachineAssumption DEF IInv, Start, SystemBarrier, All, Core, Context, Early, coreVars, intrVars, lifeVars
<1>1. TypeOK'
  BY DEF TypeOK, Interrupt, Running, IdleInv
<1>2. BootInv'
  BY DEF TypeOK, BootInv
<1>3. IdleInv'
  BY DEF TypeOK, IdleInv
<1>4. RestInv'
  BY DEF TypeOK, RestInv, Running, IdleInv
<1>5. HaltInv'
  BY DEF TypeOK, HaltInv, IdleInv
<1>6. AlarmInv'
  BY DEF TypeOK, AlarmInv, BootInv, Interrupt, ALARM, SERIAL
<1>7. TimeSlicesEnd'
  BY DEF TypeOK, TimeSlicesEnd, Ticking, RestInv, Running, BootInv
<1>8. RestartSeen'
  BY DEF TypeOK, RestartSeen, HaltInv
<1> QED
  BY <1>1, <1>2, <1>3, <1>4, <1>5, <1>6, <1>7, <1>8

LEMMA BootKeeps ==
  ASSUME IInv, Boot
  PROVE  IInv'
<1> USE MachineAssumption DEF IInv, Boot, CoreBarrier, All, Core, Context, Early, coreVars, intrVars, lifeVars
<1>1. TypeOK'
  BY DEF TypeOK, Interrupt, Running, IdleInv
<1>2. BootInv'
  BY DEF TypeOK, BootInv
<1>3. IdleInv'
  BY DEF TypeOK, IdleInv
<1>4. RestInv'
  BY DEF TypeOK, RestInv, Running, IdleInv
<1>5. HaltInv'
  BY DEF TypeOK, HaltInv, IdleInv
<1>6. AlarmInv'
  BY DEF TypeOK, AlarmInv, BootInv, Interrupt, ALARM, SERIAL
<1>7. TimeSlicesEnd'
  BY DEF TypeOK, TimeSlicesEnd, Ticking, RestInv, Running, BootInv
<1>8. RestartSeen'
  BY DEF TypeOK, RestartSeen, HaltInv
<1> QED
  BY <1>1, <1>2, <1>3, <1>4, <1>5, <1>6, <1>7, <1>8

LEMMA LeaveKeeps ==
  ASSUME IInv, Leave
  PROVE  IInv'
<1> USE MachineAssumption DEF IInv, Leave, CoreBarrier, All, Core, Context, Early, coreVars, intrVars, lifeVars
<1>1. TypeOK'
  BY DEF TypeOK, Interrupt, Running, IdleInv
<1>2. BootInv'
  BY DEF TypeOK, BootInv
<1>3. IdleInv'
  BY DEF TypeOK, IdleInv
<1>4. RestInv'
  BY DEF TypeOK, RestInv, Running, IdleInv
<1>5. HaltInv'
  BY DEF TypeOK, HaltInv, IdleInv
<1>6. AlarmInv'
  BY DEF TypeOK, AlarmInv, BootInv, Interrupt, ALARM, SERIAL
<1>7. TimeSlicesEnd'
  BY DEF TypeOK, TimeSlicesEnd, Ticking, RestInv, Running, BootInv
<1>8. RestartSeen'
  BY DEF TypeOK, RestartSeen, HaltInv
<1> QED
  BY <1>1, <1>2, <1>3, <1>4, <1>5, <1>6, <1>7, <1>8

LEMMA StopKeeps ==
  ASSUME IInv, NEW c \in Core, Stop(c)
  PROVE  IInv'
<1> USE MachineAssumption DEF IInv, Stop, Core, Context, Early, coreVars, intrVars, lifeVars
<1>1. TypeOK'
  BY DEF TypeOK, Interrupt, Running, IdleInv
<1>2. BootInv'
  BY DEF TypeOK, BootInv
<1>3. IdleInv'
  BY DEF TypeOK, IdleInv
<1>4. RestInv'
  BY DEF TypeOK, RestInv, Running, IdleInv
<1>5. HaltInv'
  BY DEF TypeOK, HaltInv, IdleInv
<1>6. AlarmInv'
  BY DEF TypeOK, AlarmInv, BootInv, Interrupt, ALARM, SERIAL
<1>7. TimeSlicesEnd'
  BY DEF TypeOK, TimeSlicesEnd, Ticking, RestInv, Running, BootInv
<1>8. RestartSeen'
  BY DEF TypeOK, RestartSeen, HaltInv
<1> QED
  BY <1>1, <1>2, <1>3, <1>4, <1>5, <1>6, <1>7, <1>8

LEMMA PICStopsKeeps ==
  ASSUME IInv, PICStops
  PROVE  IInv'
<1> USE MachineAssumption DEF IInv, PICStops, Core, Context, Early, coreVars, intrVars, lifeVars
<1>1. TypeOK'
  BY DEF TypeOK, Interrupt, Running, IdleInv
<1>2. BootInv'
  BY DEF TypeOK, BootInv
<1>3. IdleInv'
  BY DEF TypeOK, IdleInv
<1>4. RestInv'
  BY DEF TypeOK, RestInv, Running, IdleInv
<1>5. HaltInv'
  BY DEF TypeOK, HaltInv, IdleInv
<1>6. AlarmInv'
  BY DEF TypeOK, AlarmInv, BootInv, Interrupt, ALARM, SERIAL
<1>7. TimeSlicesEnd'
  BY DEF TypeOK, TimeSlicesEnd, Ticking, RestInv, Running, BootInv
<1>8. RestartSeen'
  BY DEF TypeOK, RestartSeen, HaltInv
<1> QED
  BY <1>1, <1>2, <1>3, <1>4, <1>5, <1>6, <1>7, <1>8

LEMMA EndKeeps ==
  ASSUME IInv, End
  PROVE  IInv'
<1> USE MachineAssumption DEF IInv, End, SystemBarrier, All, Core, Context, Early, coreVars, intrVars, lifeVars
<1>1. TypeOK'
  BY DEF TypeOK, Interrupt, Running, IdleInv
<1>2. BootInv'
  BY DEF TypeOK, BootInv
<1>3. IdleInv'
  BY DEF TypeOK, IdleInv
<1>4. RestInv'
  BY DEF TypeOK, RestInv, Running, IdleInv
<1>5. HaltInv'
  BY DEF TypeOK, HaltInv, IdleInv
<1>6. AlarmInv'
  BY DEF TypeOK, AlarmInv, BootInv, Interrupt, ALARM, SERIAL
<1>7. TimeSlicesEnd'
  BY DEF TypeOK, TimeSlicesEnd, Ticking, RestInv, Running, BootInv
<1>8. RestartSeen'
  BY DEF TypeOK, RestartSeen, HaltInv
<1> QED
  BY <1>1, <1>2, <1>3, <1>4, <1>5, <1>6, <1>7, <1>8

LEMMA StepLemma == IInv /\ [Next]_vars => IInv'
<1> SUFFICES ASSUME IInv, [Next]_vars PROVE IInv'
  OBVIOUS
<1>1. CASE UNCHANGED vars
  BY <1>1 DEF IInv, TypeOK, BootInv, IdleInv, RestInv, HaltInv, AlarmInv, TimeSlicesEnd,
              RestartSeen, Ticking, Running, vars, coreVars, intrVars, lifeVars
<1>2. ASSUME NEW c \in Core, CoreSteps(c)
      PROVE  IInv'
  BY <1>2, DeliverKeeps, DispatchKeeps, DispatchEndsKeeps, IgnoreKeeps, RestartOneKeeps,
     ReadTimerIdKeeps, CancelTimerKeeps, ArmKeeps, SwapKeeps, IdleTestsKeeps, HaltKeeps,
     WakeKeeps, UnhaltKeeps, IdleLeavesKeeps, StopKeeps
     DEF CoreSteps
<1>3. CASE \E c \in Core : TimerExpires(c) \/ PICAlarm(c)
  BY <1>3, TimerExpiresKeeps, PICAlarmKeeps
<1>4. CASE Start \/ Boot \/ Leave \/ PICStops \/ End \/ PICSerial
  BY <1>4, StartKeeps, BootKeeps, LeaveKeeps, PICStopsKeeps, EndKeeps, PICSerialKeeps
<1>5. CASE Halted
  BY <1>1, <1>5 DEF Halted
<1> QED
  BY <1>1, <1>2, <1>3, <1>4, <1>5 DEF Next

-----------------------------------------------------------------------------
\* Every reachable state of the machine satisfies the inductive invariant.
THEOREM MachineInvariant == Spec => []IInv
<1>1. Init => IInv
  BY InitLemma
<1>2. IInv /\ [Next]_vars => IInv'
  BY StepLemma
<1> QED
  BY <1>1, <1>2, PTL DEF Spec

\* dispatch_interrupts (bios.c:314): whatever the order of signals, dispatches and
\* swaps, an ALARM that is pending will be dispatched.
THEOREM AlarmsSeen == Spec => []PendingSeen
<1>1. IInv => PendingSeen
  BY DEF IInv, AlarmInv, PendingSeen
<1> QED
  BY <1>1, MachineInvariant, PTL

\* yield and gain (kernel_sched.c:422, 559): a core always has a time slice that
\* ends, but for one whose timer a context that has left it has cancelled.
THEOREM SlicesEnd == Spec => []TimeSlicesEnd
<1>1. IInv => TimeSlicesEnd
  BY DEF IInv
<1> QED
  BY <1>1, MachineInvariant, PTL

\* cpu_core_halt and __core_restart (bios.c:997, 1045): no restart is lost.
THEOREM RestartsSeen == Spec => []RestartSeen
<1>1. IInv => RestartSeen
  BY DEF IInv
<1> QED
  BY <1>1, MachineInvariant, PTL

=============================================================================
