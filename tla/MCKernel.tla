------------------------------- MODULE MCKernel -------------------------------
(***************************************************************************)
(* An instance for TLC of KernelLock and of Process, whose threads are     *)
(* interchangeable.  One of the two runs in each behaviour, and the other  *)
(* stays in an initial state.  ProcessProofs is Process with what is       *)
(* proved about it.                                                        *)
(***************************************************************************)
EXTENDS KernelLock, Integers, TLC

CONSTANTS
  Parts,                               \* the parts that run
  MAX_PROC, ProcThread, SharesChildren

VARIABLES
  part,
  pstate, parent, children_list, exited_list, threadCounter, PTCB_List,
  pcb_freelist, child_exit, allocated, exited, detached, refcount, exit_cv,
  owner_pcb, kernel, proc_pc, target

processVars ==
  <<pstate, parent, children_list, exited_list, threadCounter, PTCB_List,
    pcb_freelist, child_exit, allocated, exited, detached, refcount,
    exit_cv, owner_pcb, kernel, proc_pc, target>>

kernelVars == <<part, vars, processVars>>

Pr == INSTANCE ProcessProofs WITH Thread <- ProcThread, pc <- proc_pc

ASSUME Pr!ProcessAssumption

KernelSymmetry ==
  Permutations(Thread) \cup Permutations(WChan) \cup Permutations(ProcThread)

KernelInit == part \in Parts /\ Init /\ Pr!Init

KernelNext ==
  /\ part' = part
  /\ IF part = "lock" THEN Next ELSE UNCHANGED vars
  /\ IF part = "process" THEN Pr!Next ELSE UNCHANGED processVars

KernelSpec == KernelInit /\ [][KernelNext]_kernelVars

-----------------------------------------------------------------------------
\* kernel_proc.c:55-107: the free list holds every FREE PCB once.
FreeList == Pr!FreeList

\* kernel_proc.c, kernel_threads.c: and the lists of each process its family.
Family == Pr!Family

\* kernel_threads.c: threads and joiners are counted, and a PTCB lives as long
\* as one of them.
ThreadsCounted == Pr!ThreadsCounted

\* kernel_threads.c, kernel_proc.c: nobody sleeps beside what they wait for.
NoMissedExit == Pr!NoMissedExit

\* kernel_proc.c: processes form the tree that tinyos.h promises.
RefinesTree == Pr!RefinesTree

=============================================================================
