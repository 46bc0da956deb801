--------------------------------- MODULE Serial ---------------------------------
(***************************************************************************)
(* The serial terminals: io_device and PIC_daemon of bios.c, and the       *)
(* driver of kernel_dev.c.  A reader sleeps until serial_rx_handler wakes  *)
(* it; a writer polls, without leaving the kernel.                         *)
(*                                                                         *)
(* serial_read finds the keyboard empty and then calls kernel_wait, and    *)
(* nothing keeps the interrupt of another core out in between.  PIC_daemon *)
(* selects on the devices that are not ready, and marks as ready those it  *)
(* has found some time before; a device that is ready is looked at again   *)
(* when its last interrupt is older than SERIAL_TIMEOUT.                   *)
(*                                                                         *)
(* Bytes are counted, not told apart.  The kernel is a monitor, as         *)
(* KernelMonitor has it.  at[t] is where a thread is:                      *)
(*                                                                         *)
(*   "user"    outside of Read and Write                                   *)
(*   "enter"   at the kernel lock, before the call or after a sleep        *)
(*   "try"     before bios_read_serial or bios_write_serial                *)
(*   "empty"   a reader that has found nothing                             *)
(*   "asleep"  in kernel_wait                                              *)
(*   "full"    a writer in yield, in the kernel                            *)
(***************************************************************************)
EXTENDS Integers, FiniteSets

CONSTANTS
  Terminal,
  Reader, Writer,     \* threads
  TerminalOf,         \* the terminal that each thread has open
  BufferSize,         \* how many bytes a call asks for
  FifoSize,           \* how many bytes a console or keyboard holds
  Nobody

SerialAssumption ==
  /\ Reader \cap Writer = {} /\ Nobody \notin Reader \cup Writer
  /\ TerminalOf \in [Reader \cup Writer -> Terminal]
  /\ {BufferSize, FifoSize} \subseteq Nat \ {0}

User == Reader \cup Writer

\* io_direction: the keyboard of a terminal is RX, its console is TX.
Device == {"RX", "TX"} \X Terminal

VARIABLES
  at, in_kernel, count,
  kbd, con,           \* bytes in the fifos
  ready,              \* the devices whose ready flag is set
  late,               \* the devices whose last_int is older than SERIAL_TIMEOUT
  pic,                \* where PIC_daemon is: in select, or about to raise
  selected,           \* the devices it selects on, or has found
  rx_pending          \* SERIAL_RX_READY is pending

picVars == <<ready, late, pic, selected, rx_pending>>
fifoVars == <<kbd, con>>
serialVars == <<at, in_kernel, count, fifoVars, picVars>>

\* io_device_ready
Available(d) == IF d[1] = "RX" THEN kbd[d[2]] > 0 ELSE con[d[2]] < FifoSize

\* vm_run and the first turn of PIC_daemon
Init ==
  /\ at = [t \in User |-> "user"] /\ in_kernel = Nobody
  /\ count = [t \in User |-> 0]
  /\ kbd = [n \in Terminal |-> 0] /\ con = [n \in Terminal |-> 0]
  /\ ready = {"TX"} \X Terminal /\ late = {}
  /\ pic = "select" /\ selected = {"RX"} \X Terminal
  /\ rx_pending = FALSE

-----------------------------------------------------------------------------
(* The terminals, and the clock.                                           *)

Type(n) ==
  /\ kbd[n] < FifoSize
  /\ kbd' = [kbd EXCEPT ![n] = @ + 1]
  /\ UNCHANGED <<at, in_kernel, count, con, picVars>>

Show(n) ==
  /\ con[n] > 0
  /\ con' = [con EXCEPT ![n] = @ - 1]
  /\ UNCHANGED <<at, in_kernel, count, kbd, picVars>>

Late(d) ==
  /\ d \notin late
  /\ late' = late \cup {d}
  /\ UNCHANGED <<at, in_kernel, count, fifoVars, ready, pic, selected, rx_pending>>

-----------------------------------------------------------------------------
(* PIC_daemon.                                                             *)

TimedOut == late

\* select returns; the devices found are those that can be operated and the late.
Select ==
  /\ pic = "select"
  /\ pic' = "raise"
  /\ selected' = {d \in selected : Available(d)} \cup TimedOut
  /\ UNCHANGED <<at, in_kernel, count, fifoVars, ready, late, rx_pending>>

\* term_dev_raise_if_ready, of every device, and the next turn up to select
RaiseIfReady ==
  /\ pic = "raise"
  /\ pic' = "select"
  /\ ready' = ready \cup selected
  /\ late' = late \ selected
  /\ rx_pending' = (rx_pending \/ \E d \in selected : d[1] = "RX")
  /\ selected' = Device \ ready'
  /\ UNCHANGED <<at, in_kernel, count, fifoVars>>

Awake == [t \in User |-> IF t \in Reader /\ at[t] = "asleep" THEN "enter" ELSE at[t]]

\* It is not known which terminal is ready: all their readers wake.
serial_rx_handler ==
  /\ rx_pending
  /\ rx_pending' = FALSE
  /\ at' = Awake
  /\ UNCHANGED <<in_kernel, count, fifoVars, ready, late, pic, selected>>

-----------------------------------------------------------------------------
(* The driver.                                                             *)

Call(t) ==
  /\ at[t] = "user"
  /\ at' = [at EXCEPT ![t] = "enter"]
  /\ count' = [count EXCEPT ![t] = 0]
  /\ UNCHANGED <<in_kernel, fifoVars, picVars>>

Enter(t) ==
  /\ at[t] = "enter" /\ in_kernel = Nobody
  /\ at' = [at EXCEPT ![t] = "try"]
  /\ in_kernel' = t
  /\ UNCHANGED <<count, fifoVars, picVars>>

\* A failed transfer marks the device, and PIC_daemon will select on it.
Failed(d) == ready' = ready \ {d} /\ UNCHANGED <<late, pic, selected, rx_pending>>

Return(t) == at' = [at EXCEPT ![t] = "user"] /\ in_kernel' = Nobody

\* One turn of the loop of serial_read or serial_write has moved a byte.
Counted(t) ==
  /\ count' = [count EXCEPT ![t] = @ + 1]
  /\ IF count[t] + 1 < BufferSize THEN UNCHANGED <<at, in_kernel>> ELSE Return(t)

\* It has not: with nothing moved yet it waits at place, else it returns.
Missed(t, place) ==
  /\ IF count[t] = 0
     THEN at' = [at EXCEPT ![t] = place] /\ UNCHANGED in_kernel
     ELSE Return(t)
  /\ UNCHANGED count

serial_read(t) ==
  LET tm == TerminalOf[t]
  IN
  /\ t \in Reader /\ at[t] = "try"
  /\ \/ /\ kbd[tm] > 0
        /\ kbd' = [kbd EXCEPT ![tm] = @ - 1]
        /\ Counted(t) /\ UNCHANGED picVars
     \/ /\ kbd[tm] = 0
        /\ Missed(t, "empty") /\ Failed(<<"RX", tm>>)
        /\ UNCHANGED kbd
  /\ UNCHANGED con

\* kernel_wait
Wait(t) ==
  /\ at[t] = "empty"
  /\ at' = [at EXCEPT ![t] = "asleep"]
  /\ in_kernel' = Nobody
  /\ UNCHANGED <<count, fifoVars, picVars>>

WaitsForRoom_Sleeping == "empty"

WaitsForRoom == "full"

serial_write(t) ==
  LET tm == TerminalOf[t]
  IN
  /\ t \in Writer /\ at[t] = "try"
  /\ \/ /\ con[tm] < FifoSize
        /\ con' = [con EXCEPT ![tm] = @ + 1]
        /\ Counted(t) /\ UNCHANGED picVars
     \/ /\ con[tm] = FifoSize
        /\ Missed(t, WaitsForRoom) /\ Failed(<<"TX", tm>>)
        /\ UNCHANGED con
  /\ UNCHANGED kbd

\* yield returns.
Polls(t) ==
  /\ at[t] = "full"
  /\ at' = [at EXCEPT ![t] = "try"]
  /\ UNCHANGED <<in_kernel, count, fifoVars, picVars>>

-----------------------------------------------------------------------------
InKernel(t) == serial_read(t) \/ serial_write(t) \/ Wait(t) \/ Polls(t)

Next ==
  \/ \E n \in Terminal : Type(n) \/ Show(n)
  \/ \E d \in Device : Late(d)
  \/ Select \/ RaiseIfReady \/ serial_rx_handler
  \/ \E t \in User : Call(t) \/ Enter(t) \/ InKernel(t)

\* The PIC and the clock go on, core 0 takes its interrupts, a thread in the
\* kernel runs, and the terminals show what they are sent.
Fairness ==
  /\ WF_serialVars(Select) /\ WF_serialVars(RaiseIfReady)
  /\ WF_serialVars(serial_rx_handler)
  /\ \A d \in Device : WF_serialVars(Late(d))
  /\ \A t \in User : WF_serialVars(InKernel(t))
  /\ \A n \in Terminal : WF_serialVars(Show(n))

Spec == Init /\ [][Next]_serialVars /\ Fairness

-----------------------------------------------------------------------------
TypeOK ==
  /\ at \in [User -> {"user", "enter", "try", "empty", "asleep", "full"}]
  /\ in_kernel \in User \cup {Nobody}
  /\ \A t \in User : at[t] \in {"try", "empty", "full"} <=> in_kernel = t
  /\ count \in [User -> 0 .. BufferSize]
  /\ kbd \in [Terminal -> 0 .. FifoSize] /\ con \in [Terminal -> 0 .. FifoSize]
  /\ ready \subseteq Device /\ late \subseteq Device
  /\ pic \in {"select", "raise"} /\ selected \subseteq Device
  /\ rx_pending \in BOOLEAN

\* No byte is slept over: a reader does not sleep for ever while its keyboard
\* has bytes, whatever interrupt came between its test and its sleep
\* (kernel_dev.c:105-120).
ByteIsSeen ==
  \A t \in Reader : at[t] = "asleep" /\ kbd[TerminalOf[t]] > 0
                    ~> at[t] # "asleep" \/ kbd[TerminalOf[t]] = 0

\* Nobody keeps the kernel: also a writer that polls leaves it, when its console
\* shows what it is sent (kernel_dev.c:142-162).
WriteReturns == \A t \in Writer : at[t] = "try" ~> at[t] = "user"

=============================================================================
