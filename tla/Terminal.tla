------------------------------ MODULE Terminal ------------------------------
(***************************************************************************)
(* The terminal emulator (terminal.c), at the other end of the fifos of a  *)
(* serial port: it moves characters from stdin to kbd and from con to      *)
(* stdout, until the virtual machine closes its ends, and then waits for   *)
(* the next one.                                                           *)
(*                                                                         *)
(* The machine opens both fifos for reading and writing, con first, and    *)
(* closes con first (bios.c).  A file that poll has found ready is not     *)
(* polled again before the transfer that it is ready for.  Characters are  *)
(* counted.                                                                *)
(***************************************************************************)
EXTENDS Naturals

CONSTANTS
  Room,               \* the characters that fit in a fifo, and on stdout
  MaxChars, MaxBoots  \* bounds: characters of each direction, machines

TerminalAssumption == {Room, MaxChars, MaxBoots} \subseteq Nat \ {0}

VARIABLES
  vm,                 \* which fifos the machine has open: "off", "con", "on", "kbd"
  boots,              \* machines so far
  at,                 \* "con" and "kbd": in open_pipe; "poll", "transfer", "close"
  polled, ready, err, \* the files polled, state and errst
  chars,              \* waiting in stdin, kbd, con and stdout
  made,               \* made by the user and by the machine
  seen                \* the value of boots at the last poll

terminalVars == <<vm, boots, at, polled, ready, err, chars, made, seen>>

File == {"in", "out", "kbd", "con"}

Init ==
  /\ vm = "off" /\ boots = 0 /\ at = "con" /\ seen = 0
  /\ polled = {"in", "out"} /\ ready = {} /\ err = {}
  /\ chars = [f \in File |-> 0] /\ made = [f \in {"in", "con"} |-> 0]

ConOpen == vm \in {"con", "on"}
KbdOpen == vm \in {"on", "kbd"}

-----------------------------------------------------------------------------
(* The user and the machine.                                               *)

Type ==
  /\ made["in"] < MaxChars
  /\ made' = [made EXCEPT !["in"] = @ + 1]
  /\ chars' = [chars EXCEPT !["in"] = @ + 1]
  /\ UNCHANGED <<vm, boots, at, polled, ready, err, seen>>

Show ==
  /\ chars["out"] > 0
  /\ chars' = [chars EXCEPT !["out"] = @ - 1]
  /\ UNCHANGED <<vm, boots, at, polled, ready, err, made, seen>>

\* io_device_write and io_device_read
MachineWrites ==
  /\ vm = "on" /\ chars["con"] < Room /\ made["con"] < MaxChars
  /\ made' = [made EXCEPT !["con"] = @ + 1]
  /\ chars' = [chars EXCEPT !["con"] = @ + 1]
  /\ UNCHANGED <<vm, boots, at, polled, ready, err, seen>>

MachineReads ==
  /\ vm = "on" /\ chars["kbd"] > 0
  /\ chars' = [chars EXCEPT !["kbd"] = @ - 1]
  /\ UNCHANGED <<vm, boots, at, polled, ready, err, made, seen>>

\* What is in a fifo is lost when nobody has it open any more.
TerminalHas == [con |-> at \in {"kbd", "poll", "transfer", "close"},
                kbd |-> at \in {"poll", "transfer", "close"}]

MachineOpens ==
  /\ \/ vm = "off" /\ boots < MaxBoots /\ vm' = "con" /\ boots' = boots
     \/ vm = "con" /\ vm' = "on" /\ boots' = boots + 1
  /\ UNCHANGED <<at, polled, ready, err, chars, made, seen>>

MachineCloses(f) ==
  /\ vm = IF f = "con" THEN "on" ELSE "kbd"
  /\ vm' = IF f = "con" THEN "kbd" ELSE "off"
  /\ chars' = IF TerminalHas[f] THEN chars ELSE [chars EXCEPT ![f] = 0]
  /\ UNCHANGED <<boots, at, polled, ready, err, made, seen>>

Machine == MachineOpens \/ MachineWrites \/ \E f \in {"con", "kbd"} : MachineCloses(f)

-----------------------------------------------------------------------------
(* The terminal.                                                           *)

\* mainloop: open blocks until the machine has the fifo open.
OpenCon ==
  /\ at = "con" /\ ConOpen /\ at' = "kbd"
  /\ UNCHANGED <<vm, boots, polled, ready, err, chars, made, seen>>

OpenKbd ==
  /\ at = "kbd" /\ KbdOpen /\ at' = "poll"
  /\ polled' = polled \cup {"kbd", "con"}
  /\ UNCHANGED <<vm, boots, ready, err, chars, made, seen>>

Ready(f) == IF f \in {"in", "con"} THEN chars[f] > 0 ELSE chars[f] < Room

Err(f) == (f = "con" /\ ~ConOpen) \/ (f = "kbd" /\ ~KbdOpen)

Poll ==
  LET now == {f \in polled : Ready(f)}
      bad == {f \in polled : Err(f)}
  IN
  /\ at = "poll" /\ now \cup bad # {} /\ at' = "transfer"
  /\ ready' = (ready \ polled) \cup now
  /\ err' = (err \ polled) \cup bad
  /\ polled' = polled \ now
  /\ seen' = boots
  /\ UNCHANGED <<vm, boots, chars, made>>

\* After poll, a file that is ready is not polled.
XKBD == {"in", "kbd"} \subseteq ready
XCON == {"out", "con"} \subseteq ready

Break == ~XKBD /\ ~XCON /\ err # {}

\* transfer_byte
Transferred(c, x, from, to) ==
  IF x THEN [c EXCEPT ![from] = @ - 1, ![to] = @ + 1] ELSE c

Flipped(x, from, to) == IF x THEN {from, to} ELSE {}

\* A write to kbd when the machine has closed it kills the terminal (SIGPIPE).
Transfer ==
  /\ at = "transfer"
  /\ IF Break THEN at' = "close" /\ UNCHANGED <<polled, chars>>
     ELSE IF XKBD /\ ~KbdOpen
     THEN /\ at' = "dead" /\ UNCHANGED polled
          /\ chars' = [chars EXCEPT !["kbd"] = 0, !["con"] = IF ConOpen THEN @ ELSE 0]
     ELSE /\ at' = "poll"
          /\ chars' = Transferred(Transferred(chars, XKBD, "in", "kbd"), XCON, "con", "out")
          /\ polled' = polled \cup Flipped(XKBD, "in", "kbd") \cup Flipped(XCON, "con", "out")
  /\ UNCHANGED <<vm, boots, ready, err, made, seen>>

CloseBoth ==
  /\ at = "close" /\ at' = "con"
  /\ chars' = [chars EXCEPT !["con"] = IF ConOpen THEN @ ELSE 0,
                            !["kbd"] = IF KbdOpen THEN @ ELSE 0]
  /\ polled' = polled \ {"kbd", "con"}
  /\ UNCHANGED <<vm, boots, ready, err, made, seen>>

Emulator == OpenCon \/ OpenKbd \/ Poll \/ Transfer \/ CloseBoth

Next == Type \/ Show \/ Machine \/ MachineReads \/ Emulator

\* The terminal runs, stdout is read, and a machine that stays on reads.
Fairness ==
  /\ WF_terminalVars(Emulator)
  /\ WF_terminalVars(Show)
  /\ WF_terminalVars(MachineReads)

Spec == Init /\ [][Next]_terminalVars /\ Fairness

-----------------------------------------------------------------------------
TypeOK ==
  /\ vm \in {"off", "con", "on", "kbd"} /\ boots \in 0 .. MaxBoots /\ seen \in 0 .. boots
  /\ at \in {"con", "kbd", "poll", "transfer", "close", "dead"}
  /\ polled \subseteq File /\ ready \subseteq File /\ err \subseteq {"kbd", "con"}
  /\ \A f \in File \ {"in"} : chars[f] \in 0 .. Room
  /\ chars["in"] \in 0 .. MaxChars

\* A terminal that has found the machine gone has shown what it wrote before it
\* disconnects, unless stdout has no room, or another machine has come since
\* (terminal.c:75-96).
ShownFirst ==
  at = "close" /\ "con" \in err /\ chars["con"] > 0 =>
    "out" \notin ready \/ boots # seen

\* What is typed is read and what is written is shown, as long as the machine
\* stays on.
CharsPass ==
  \A f \in {"in", "con"} :
    chars[f] > 0 /\ vm = "on" ~> chars[f] = 0 \/ vm # "on" \/ at = "dead"

\* A terminal whose machine has gone waits for the next one; or it has died.
Disconnects == vm = "off" /\ at \notin {"con", "kbd"} ~> at \in {"con", "kbd", "dead"} \/ vm # "off"

=============================================================================
