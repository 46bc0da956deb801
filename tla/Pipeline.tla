-------------------------------- MODULE Pipeline --------------------------------
(***************************************************************************)
(* The shell of tinyos_shell.c runs a line: process_line connects the      *)
(* commands of a pipeline by moving its own file ids 0 and 1, which each   *)
(* command inherits, and waits for all of them.                            *)
(*                                                                         *)
(* A file id table maps the ids to streams; Pipe, Dup2, OpenNull, Close,   *)
(* Exec and the end of a process are those of Streams, Pipe and Process.   *)
(* A command is a source, which writes Amount bytes and does not read, or  *)
(* a filter, which copies what it reads up to the end.  Bytes are counted. *)
(* doing is where process_line is, of fragment frag.                        *)
(***************************************************************************)
EXTENDS Integers, FiniteSets

CONSTANTS
  MaxFrags, MaxLines,   \* bounds: fragments of a line, lines
  MAX_FILEID,
  PIPE_BUFFER_SIZE,
  Amount,
  tty                   \* the terminal of the shell

PipelineAssumption ==
  /\ {MaxFrags, MaxLines, PIPE_BUFFER_SIZE, Amount} \subseteq Nat \ {0}
  /\ tty \in Nat
  /\ MAX_FILEID \in Nat /\ MAX_FILEID >= 6

Frag == 0 .. MaxFrags - 1
Fid == 0 .. MAX_FILEID - 1

\* Pipe i leads from fragment i to fragment i + 1.
ReadEnd(i)  == <<"read", i>>
WriteEnd(i) == <<"write", i>>
Keyboard == <<"keyboard", tty>>
Screen   == <<"screen", tty>>
Null     == <<"null", 0>>
Closed   == <<"closed", 0>>

Stream == {ReadEnd(i) : i \in Frag} \cup {WriteEnd(i) : i \in Frag}
          \cup {Keyboard, Screen, Null, Closed}

VARIABLES
  lines,        \* lines read so far
  frags,        \* fragments of this line
  kind,         \* of each fragment: "source" or "filter"
  doing,        \* "prompt", "pipe", "exec", "stdin", "wait"
  frag,
  fidt,         \* the shell's file ids
  savein, saveout, pipe_read,
  child,        \* of each fragment: "none", "run", "exit"
  child_fidt,
  held,         \* bytes read and not yet written, or those of a source
  buffered,     \* bytes in each pipe
  shown         \* bytes on the screen

shellVars == <<lines, frags, kind, doing, frag, fidt, savein, saveout, pipe_read>>
childVars == <<child, child_fidt, held, buffered, shown>>
pipelineVars == <<shellVars, childVars>>

NoFids == [f \in Fid |-> Closed]

-----------------------------------------------------------------------------
(* The calls of the kernel.                                                *)

FirstFree(t) == CHOOSE f \in Fid : t[f] = Closed /\ \A g \in Fid : t[g] = Closed => f <= g

Open(t, s) == [t EXCEPT ![FirstFree(t)] = s]

Dup2(t, old, new) == [t EXCEPT ![new] = t[old]]

Close(t, f) == [t EXCEPT ![f] = Closed]

Holds(t, s) == \E f \in Fid : t[f] = s

Held(s) == Holds(fidt, s) \/ \E i \in Frag : child[i] = "run" /\ Holds(child_fidt[i], s)

-----------------------------------------------------------------------------
(* boot_shell.                                                             *)

\* OpenTerminal, and Dup2 when it has not given file id f.
OpenAt(t, s, f) ==
  LET g == FirstFree(t)
  IN  IF g = f THEN Open(t, s) ELSE Close(Dup2(Open(t, s), g, f), g)

\* The file ids with which the loop starts the shell of terminal n; then it
\* closes 0.
ShellFids(n) ==
  LET given[k \in 0 .. n] ==
        LET t == IF k = 0 THEN NoFids ELSE Close(given[k - 1], 0)
        IN  OpenAt(OpenAt(t, <<"keyboard", k>>, 0), <<"screen", k>>, 1)
  IN  given[n]

\* The shell of terminal tty
Init ==
  /\ lines = 0 /\ frags = 1 /\ doing = "prompt" /\ frag = 0
  /\ kind = [i \in Frag |-> "source"]
  /\ fidt = ShellFids(tty)
  /\ savein = 0 /\ saveout = 0 /\ pipe_read = 0
  /\ child = [i \in Frag |-> "none"] /\ child_fidt = [i \in Frag |-> NoFids]
  /\ held = [i \in Frag |-> 0] /\ buffered = [i \in Frag |-> 0]
  /\ shown = 0

-----------------------------------------------------------------------------
(* process_line.                                                           *)

\* A line with its commands; a line with an empty fragment changes nothing.
ReadLine ==
  /\ doing = "prompt" /\ lines < MaxLines
  /\ lines' = lines + 1
  /\ frags' \in 1 .. MaxFrags
  /\ kind' \in {k \in [Frag -> {"source", "filter"}] :
                  /\ k[0] = "source"
                  /\ \A i \in Frag : i >= frags' => k[i] = "source"}
  /\ LET t == Open(fidt, fidt[0])
     IN  savein' = FirstFree(fidt) /\ saveout' = FirstFree(t) /\ fidt' = Open(t, t[1])
  /\ doing' = "pipe" /\ frag' = 0
  /\ child' = [i \in Frag |-> "none"]
  /\ held' = [i \in Frag |-> 0] /\ buffered' = [i \in Frag |-> 0] /\ shown' = 0
  /\ UNCHANGED <<pipe_read, child_fidt>>

Last == frag = frags - 1

WithoutWriter_Kept(t, f) == t

WithoutWriter(t, f) == Close(t, f)

\* Pipe gives the lower file id to the read end.
MakePipe ==
  /\ doing = "pipe" /\ ~Last
  /\ LET r == FirstFree(fidt)
         t == Open(fidt, ReadEnd(frag))
         w == FirstFree(t)
     IN  /\ pipe_read' = r
         /\ fidt' = WithoutWriter(Dup2(Open(t, WriteEnd(frag)), w, 1), w)
  /\ doing' = "exec"
  /\ UNCHANGED <<lines, frags, kind, frag, savein, saveout, childVars>>

Restored(t, saved, f) == Close(Dup2(t, saved, f), saved)

RestoreOut ==
  /\ doing = "pipe" /\ Last
  /\ fidt' = Restored(fidt, saveout, 1)
  /\ doing' = "exec"
  /\ UNCHANGED <<lines, frags, kind, frag, savein, saveout, pipe_read, childVars>>

Execute ==
  /\ doing = "exec"
  /\ child' = [child EXCEPT ![frag] = "run"]
  /\ child_fidt' = [child_fidt EXCEPT ![frag] = fidt]
  /\ held' = [held EXCEPT ![frag] = IF kind[frag] = "source" THEN Amount ELSE 0]
  /\ doing' = "stdin"
  /\ UNCHANGED <<lines, frags, kind, frag, fidt, savein, saveout, pipe_read, buffered,
                 shown>>

NextFragment ==
  /\ doing = "stdin" /\ ~Last
  /\ fidt' = Restored(fidt, pipe_read, 0)
  /\ doing' = "pipe" /\ frag' = frag + 1
  /\ UNCHANGED <<lines, frags, kind, savein, saveout, pipe_read, childVars>>

RestoreIn ==
  /\ doing = "stdin" /\ Last
  /\ fidt' = Restored(fidt, savein, 0)
  /\ doing' = "wait" /\ frag' = 0
  /\ UNCHANGED <<lines, frags, kind, savein, saveout, pipe_read, childVars>>

\* WaitChild(child[i]), one after the other
WaitChild ==
  /\ doing = "wait" /\ child[frag] = "exit"
  /\ IF Last THEN doing' = "prompt" /\ frag' = 0
             ELSE frag' = frag + 1 /\ UNCHANGED doing
  /\ UNCHANGED <<lines, frags, kind, fidt, savein, saveout, pipe_read, childVars>>

-----------------------------------------------------------------------------
(* The commands.                                                           *)

Runs(i) == child[i] = "run"

Exit(i) ==
  /\ child' = [child EXCEPT ![i] = "exit"]
  /\ child_fidt' = [child_fidt EXCEPT ![i] = NoFids]

Reads(i) ==
  /\ Runs(i) /\ kind[i] = "filter" /\ held[i] = 0
  /\ \E j \in Frag :
       /\ child_fidt[i][0] = ReadEnd(j) /\ buffered[j] > 0
       /\ buffered' = [buffered EXCEPT ![j] = @ - 1]
  /\ held' = [held EXCEPT ![i] = 1]
  /\ UNCHANGED <<child, child_fidt, shown, shellVars>>

\* pipe_read returns 0.
AtEnd(j) == buffered[j] = 0 /\ ~Held(WriteEnd(j))

\* A filter meets the end of its input; a source has written all.
Ends(i) ==
  /\ Runs(i) /\ held[i] = 0
  /\ kind[i] = "filter" =>
       \E j \in Frag : child_fidt[i][0] = ReadEnd(j) /\ AtEnd(j)
  /\ Exit(i)
  /\ UNCHANGED <<held, buffered, shown, shellVars>>

\* Write never fails for want of a reader: the command itself has inherited the
\* read end of its pipe, and waits for ever if the next one does not read.
Writes(i) ==
  /\ Runs(i) /\ held[i] > 0
  /\ \/ /\ child_fidt[i][1] = Screen
        /\ shown' = shown + 1
        /\ UNCHANGED buffered
     \/ \E j \in Frag :
          /\ child_fidt[i][1] = WriteEnd(j)
          /\ buffered[j] < PIPE_BUFFER_SIZE
          /\ buffered' = [buffered EXCEPT ![j] = @ + 1]
          /\ UNCHANGED shown
  /\ held' = [held EXCEPT ![i] = @ - 1]
  /\ UNCHANGED <<child, child_fidt, shellVars>>

-----------------------------------------------------------------------------
Line == \/ ReadLine \/ MakePipe \/ RestoreOut \/ Execute \/ NextFragment
        \/ RestoreIn \/ WaitChild
Command(i) == Reads(i) \/ Ends(i) \/ Writes(i)

Resting == UNCHANGED pipelineVars

Next == Line \/ (\E i \in Frag : Command(i)) \/ Resting

\* The shell and the commands run; lines need not be typed.
Fairness ==
  /\ WF_pipelineVars(doing # "prompt" /\ Line)
  /\ \A i \in Frag : WF_pipelineVars(Command(i))

Spec == Init /\ [][Next]_pipelineVars /\ Fairness

-----------------------------------------------------------------------------
TypeOK ==
  /\ lines \in 0 .. MaxLines /\ frags \in 1 .. MaxFrags
  /\ kind \in [Frag -> {"source", "filter"}]
  /\ doing \in {"prompt", "pipe", "exec", "stdin", "wait"} /\ frag \in 0 .. frags - 1
  /\ fidt \in [Fid -> Stream] /\ {savein, saveout, pipe_read} \subseteq Fid
  /\ child \in [Frag -> {"none", "run", "exit"}]
  /\ \A i \in Frag : child_fidt[i] \in [Fid -> Stream]
  /\ held \in [Frag -> 0 .. Amount] /\ buffered \in [Frag -> 0 .. PIPE_BUFFER_SIZE]
  /\ shown \in 0 .. Amount

\* The shell of each terminal begins with its own terminal as 0 and 1 and no other
\* file open, and a line leaves them so (tinyos_shell.c:843-870 and 962-971).
FidsRestored ==
  doing \in {"prompt", "wait"} =>
    fidt = [NoFids EXCEPT ![0] = Keyboard, ![1] = Screen]

\* What makes a filter see the end: nobody but command i, and the shell until it
\* goes to the next fragment, has the write end of pipe i.
OneWriter ==
  \A i, j \in Frag : Runs(j) /\ Holds(child_fidt[j], WriteEnd(i)) =>
    j = i /\ child_fidt[j][1] = WriteEnd(i)

\* What the first command writes comes out at the end, when all the others copy.
NothingLost ==
  LET copies == \A i \in 1 .. frags - 1 : kind[i] = "filter"
  IN  doing = "prompt" /\ lines > 0 /\ copies => shown = Amount

\* A line of commands that read their input to the end comes to its end.
LineEnds ==
  doing # "prompt" /\ (\A i \in 1 .. frags - 1 : kind[i] = "filter") ~> doing = "prompt"

=============================================================================
