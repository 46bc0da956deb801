--------------------------- MODULE KernelMonitor ---------------------------
(***************************************************************************)
(* What kernel_cc.h promises of the kernel lock and of the wait channels:  *)
(* the kernel is a monitor.  One thread at a time is inside; a thread that *)
(* waits on a channel leaves the kernel and falls asleep in one step; a    *)
(* signal wakes exactly one sleeper if there is one, a broadcast all of    *)
(* them; a wait returns 1 if and only if a signal ended it; and whoever    *)
(* has been woken enters the kernel again before its wait returns.         *)
(***************************************************************************)
CONSTANTS Thread, WChan, NULL

VARIABLES
  place,     \* of each thread: "user", "kernel", "asleep", "back" or "gone"
  channel,   \* the wait channel of a sleeper
  patient,   \* whether a sleeper has no timeout
  ret,       \* what the last wait of each thread returned, or will return
  call       \* the signal or broadcast in progress of each thread

vars == <<place, channel, patient, ret, call>>

Calls == {"none", "signal", "broadcast"}

Init ==
  /\ place = [t \in Thread |-> "user"]
  /\ channel = [t \in Thread |-> NULL]
  /\ patient = [t \in Thread |-> TRUE]
  /\ ret = [t \in Thread |-> FALSE]
  /\ call = [t \in Thread |-> "none"]

Sleepers(w) == {t \in Thread : place[t] = "asleep" /\ channel[t] = w}

Enter(t) ==
  /\ place[t] \in {"user", "back"}
  /\ \A u \in Thread : place[u] # "kernel"
  /\ place' = [place EXCEPT ![t] = "kernel"]
  /\ UNCHANGED <<channel, patient, ret, call>>

\* kernel_unlock, and kernel_sleep of an exiting thread.
Leave(t, to) ==
  /\ place[t] = "kernel" /\ call[t] = "none"
  /\ place' = [place EXCEPT ![t] = to]
  /\ UNCHANGED <<channel, patient, ret, call>>

Wait(t, w, forever) ==
  /\ place[t] = "kernel" /\ call[t] = "none"
  /\ place' = [place EXCEPT ![t] = "asleep"]
  /\ channel' = [channel EXCEPT ![t] = w]
  /\ patient' = [patient EXCEPT ![t] = forever]
  /\ ret' = [ret EXCEPT ![t] = FALSE]
  /\ UNCHANGED call

Timeout(t) ==
  /\ place[t] = "asleep" /\ ~patient[t]
  /\ place' = [place EXCEPT ![t] = "back"]
  /\ channel' = [channel EXCEPT ![t] = NULL]
  /\ patient' = [patient EXCEPT ![t] = TRUE]
  /\ UNCHANGED <<ret, call>>

Call(t, w, how) ==
  /\ place[t] = "kernel" /\ call[t] = "none"
  /\ channel' = [channel EXCEPT ![t] = w]
  /\ call' = [call EXCEPT ![t] = how]
  /\ UNCHANGED <<place, patient, ret>>

\* A signal ends when it has woken somebody, a broadcast goes on.
Wake(t, u) ==
  /\ call[t] # "none"
  /\ u \in Sleepers(channel[t])
  /\ place' = [place EXCEPT ![u] = "back"]
  /\ ret' = [ret EXCEPT ![u] = TRUE]
  /\ patient' = [patient EXCEPT ![u] = TRUE]
  /\ IF call[t] = "signal"
     THEN /\ call' = [call EXCEPT ![t] = "none"]
          /\ channel' = [channel EXCEPT ![u] = NULL, ![t] = NULL]
     ELSE /\ channel' = [channel EXCEPT ![u] = NULL]
          /\ UNCHANGED call

\* Otherwise a call ends only when nobody is asleep on its channel.
Finish(t) ==
  /\ call[t] # "none"
  /\ Sleepers(channel[t]) = {}
  /\ call' = [call EXCEPT ![t] = "none"]
  /\ channel' = [channel EXCEPT ![t] = NULL]
  /\ UNCHANGED <<place, patient, ret>>

Next ==
  \E t \in Thread :
    \/ Enter(t) \/ Timeout(t) \/ Finish(t)
    \/ \E to \in {"user", "gone"} : Leave(t, to)
    \/ \E w \in WChan :
         \/ \E forever \in BOOLEAN : Wait(t, w, forever)
         \/ \E how \in Calls \ {"none"} : Call(t, w, how)
    \/ \E u \in Thread : Wake(t, u)

Spec == Init /\ [][Next]_vars

=============================================================================
