---------------------------- MODULE SchedulerProofs ----------------------------
(***************************************************************************)
(* The safety of Scheduler for any number of callers and of Start and Stop *)
(* calls, and for a task that calls the scheduler in any way.  The three   *)
(* invariants are not inductive apart: that a goroutine quits only when it *)
(* may rests on RunningIsTrue, which rests on the mutex being held through *)
(* Stop (Mutex), and a Start is safe only because QuietWhenStopped holds.  *)
(* With them every step is a step of Switch or a stutter.                  *)
(***************************************************************************)
EXTENDS Scheduler, TLAPS

\* The thread in a critical section holds the mutex.
Mutex == \A t \in Threads : at[t] \in {"body", "wait"} => mu = t

\* Only the last run can be alive.
OnlyLast == \A n \in Runs : n # runs => gor[n] \in {"unborn", "done"}

SInv ==
    /\ TypeOK
    /\ Mutex
    /\ OnlyLast
    /\ QuietWhenStopped
    /\ RunningIsTrue

LEMMA SInvInit == Init => SInv
<1> SUFFICES ASSUME Init
             PROVE  SInv
  OBVIOUS
<1>1. TypeOK
  <2>1. runs \in 0..MaxRuns
    BY CallersAssumption DEF Init
  <2>2. call \in [Threads -> {"Start", "Stop", "IsRunning"}]
    BY DEF Init
  <2> QED
    BY <2>1, <2>2 DEF Init, TypeOK
<1>2. Live = {} /\ \A t \in Threads : at[t] = "out"
  BY DEF Init, Live
<1>3. Mutex /\ OnlyLast
  BY <1>2 DEF Init, Mutex, OnlyLast
<1> QED
  BY <1>1, <1>2, <1>3 DEF Init, SInv, QuietWhenStopped, RunningIsTrue

\* A step of a thread in the mutex protocol that changes no run.
LEMMA SInvProtocol ==
  ASSUME SInv, NEW t \in Threads,
         \/ \E method \in {"Start", "Stop", "IsRunning"} : Invoke(t, method)
         \/ Lock(t)
         \/ IsRunning(t)
  PROVE  SInv'
<1>1. UNCHANGED <<running, runs, cancelled, gor, tick>>
  BY DEF Invoke, Lock, IsRunning
<1>2. TypeOK'
  BY <1>1 DEF SInv, TypeOK, Invoke, Lock, IsRunning, Body, Return
<1>3. Mutex' /\ \A u \in Threads : at[u] = "wait" <=> at'[u] = "wait"
  BY CallersAssumption DEF SInv, TypeOK, Mutex, Invoke, Lock, IsRunning, Body, Return
<1> QED
  BY <1>1, <1>2, <1>3 DEF SInv, OnlyLast, QuietWhenStopped, RunningIsTrue, Live

LEMMA SInvStart ==
  ASSUME SInv, NEW t \in Threads, Start(t)
  PROVE  SInv'
<1>1. at[t] = "body" /\ mu = t /\ \A u \in Threads : at[u] = "wait" => u = t
  BY DEF SInv, Mutex, Start, Body
<1>2. Mutex' /\ \A u \in Threads : at'[u] # "wait" /\ at[u] # "wait"
  BY <1>1, CallersAssumption DEF SInv, TypeOK, Mutex, Start, Body, Return
<1>3. CASE running
  <2>1. UNCHANGED <<running, runs, gor, cancelled, tick, call>>
    BY <1>3 DEF Start
  <2>2. TypeOK'
    BY <2>1 DEF SInv, TypeOK, Start, Return
  <2> QED
    BY <1>2, <2>1, <2>2 DEF SInv, OnlyLast, QuietWhenStopped, RunningIsTrue, Live
<1>4. CASE ~ running
  <2>1. /\ runs < MaxRuns /\ runs' = runs + 1 /\ running' = TRUE
        /\ gor' = [gor EXCEPT ![runs + 1] = "select"] /\ UNCHANGED <<cancelled, tick, call>>
    BY <1>4 DEF Start
  <2>2. Live = {} /\ runs \in 0..MaxRuns /\ MaxRuns \in Nat /\ runs' \in Runs
    BY <1>4, <2>1, CallersAssumption DEF SInv, TypeOK, QuietWhenStopped, Runs
  <2>3. TypeOK'
    BY <2>1, <2>2 DEF SInv, TypeOK, Start, Return, Runs
  <2>4. \A n \in Runs : n # runs' => gor'[n] \in {"unborn", "done"}
    BY <2>1, <2>2 DEF SInv, TypeOK, Live
  <2>5. Live' = {runs'} /\ runs' \notin cancelled'
    BY <2>1, <2>2, <2>4 DEF SInv, TypeOK, Live
  <2> QED
    BY <1>2, <2>1, <2>3, <2>4, <2>5 DEF SInv, OnlyLast, QuietWhenStopped, RunningIsTrue
<1> QED
  BY <1>3, <1>4

LEMMA SInvStop ==
  ASSUME SInv, NEW t \in Threads, Stop(t)
  PROVE  SInv'
<1>1. at[t] = "body" /\ mu = t /\ UNCHANGED <<running, runs, gor, tick, call>>
  BY DEF SInv, Mutex, Stop, Body
<1>2. CASE running
  <2>1. cancelled' = cancelled \cup {runs} /\ at' = [at EXCEPT ![t] = "wait"] /\ mu' = mu
    BY <1>2 DEF Stop
  <2>2. runs \in 1..runs
    <3>1. \A u \in Threads : at[u] # "wait"
      BY <1>1 DEF SInv, Mutex
    <3>2. runs \in Runs
      BY <1>2, <3>1 DEF SInv, RunningIsTrue, Live
    <3> QED
      BY <3>2, CallersAssumption DEF Runs
  <2>3. TypeOK'
    BY <1>1, <2>1, <2>2 DEF SInv, TypeOK
  <2>4. Mutex' /\ at'[t] = "wait"
    BY <1>1, <2>1 DEF SInv, TypeOK, Mutex
  <2> QED
    BY <1>1, <2>3, <2>4 DEF SInv, OnlyLast, QuietWhenStopped, RunningIsTrue, Live
<1>3. CASE ~ running
  <2>1. Return(t) /\ UNCHANGED cancelled
    BY <1>3 DEF Stop
  <2>2. TypeOK' /\ Mutex'
    BY <1>1, <2>1, CallersAssumption DEF SInv, TypeOK, Mutex, Return
  <2> QED
    BY <1>1, <1>3, <2>1, <2>2 DEF SInv, OnlyLast, QuietWhenStopped, RunningIsTrue, Live
<1> QED
  BY <1>2, <1>3

LEMMA SInvWaited ==
  ASSUME SInv, NEW t \in Threads, Waited(t)
  PROVE  SInv'
<1>1. /\ at[t] = "wait" /\ Live = {} /\ running' = FALSE
      /\ UNCHANGED <<runs, cancelled, gor, tick, call>>
  BY DEF Waited
<1>2. TypeOK' /\ Mutex'
  BY <1>1, CallersAssumption DEF SInv, TypeOK, Mutex, Waited, Return
<1> QED
  BY <1>1, <1>2 DEF SInv, OnlyLast, QuietWhenStopped, RunningIsTrue, Live

\* A goroutine or its ticker takes a step and stays alive.
LEMMA SInvRuns ==
  ASSUME SInv, NEW n \in Runs, Fire(n) \/ RunTask(n) \/ TaskReturns(n)
  PROVE  SInv'
<1>1. UNCHANGED <<mu, running, runs, cancelled, call, at>>
  BY DEF Fire, RunTask, TaskReturns
<1>2. TypeOK'
  BY <1>1 DEF SInv, TypeOK, Fire, RunTask, TaskReturns
<1>3. \A m \in Runs : gor[m] \in {"select", "task"} <=> gor'[m] \in {"select", "task"}
  BY DEF SInv, TypeOK, Fire, RunTask, TaskReturns
<1>4. \A m \in Runs : gor[m] \in {"unborn", "done"} => gor'[m] \in {"unborn", "done"}
  BY DEF SInv, TypeOK, Fire, RunTask, TaskReturns
<1>5. Live' = Live
  BY <1>3 DEF Live
<1> QED
  BY <1>1, <1>2, <1>4, <1>5 DEF SInv, Mutex, OnlyLast, QuietWhenStopped, RunningIsTrue

\* A goroutine ends: it is the last run, and a Stop waits for it.
LEMMA SInvQuit ==
  ASSUME SInv, NEW n \in Runs, Quit(n)
  PROVE  SInv'
<1>1. /\ gor[n] = "select" /\ n \in cancelled /\ gor' = [gor EXCEPT ![n] = "done"]
      /\ UNCHANGED <<mu, running, runs, cancelled, tick, call, at>>
  BY DEF Quit
<1>2. n = runs
  BY <1>1 DEF SInv, OnlyLast
<1>3. running => \E t \in Threads : at[t] = "wait"
  BY <1>1, <1>2 DEF SInv, RunningIsTrue
<1>4. TypeOK'
  BY <1>1 DEF SInv, TypeOK
<1>5. Live' \subseteq Live
  BY <1>1 DEF SInv, TypeOK, Live
<1>6. OnlyLast'
  BY <1>1 DEF SInv, TypeOK, OnlyLast
<1> QED
  BY <1>1, <1>3, <1>4, <1>5, <1>6 DEF SInv, Mutex, QuietWhenStopped, RunningIsTrue

LEMMA SInvNext == SInv /\ [Next]_vars => SInv'
<1> SUFFICES ASSUME SInv, [Next]_vars
             PROVE  SInv'
  OBVIOUS
<1>1. CASE UNCHANGED vars
  BY <1>1 DEF vars, SInv, TypeOK, Mutex, OnlyLast, QuietWhenStopped, RunningIsTrue, Live
<1> QED
  BY <1>1, SInvProtocol, SInvStart, SInvStop, SInvWaited, SInvRuns, SInvQuit DEF Next

LEMMA SInvAlways == Spec => []SInv
  BY SInvInit, SInvNext, PTL DEF Spec

\* The variables keep their types; no context is cancelled before it is made.
THEOREM SchedulerTypes == Spec => []TypeOK
  BY SInvAlways, PTL DEF SInv

\* Once Stop has returned, no goroutine of the scheduler is left.
THEOREM StopIsQuiet == Spec => []QuietWhenStopped
  BY SInvAlways, PTL DEF SInv

\* IsRunning tells the truth: the scheduler has a goroutine that goes on.
THEOREM RunningTrue == Spec => []RunningIsTrue
  BY SInvAlways, PTL DEF SInv

\* Two executions of the task never overlap.
THEOREM TaskAlone == Spec => []NoOverlap
<1>1. SInv => NoOverlap
  BY DEF SInv, OnlyLast, NoOverlap, Live
<1> QED
  BY <1>1, SInvAlways, PTL

\* A Stop that waits for a task in a call of the scheduler waits for ever: the case
\* in which CallsReturn and TickServed promise nothing is a deadlock indeed.
THEOREM DeadlockStays == Spec => [][Deadlocked => Deadlocked']_vars
<1>1. SInv /\ [Next]_vars => [Deadlocked => Deadlocked']_vars
  <2> SUFFICES ASSUME SInv, Next, Deadlocked
               PROVE  Deadlocked'
    OBVIOUS
  <2>1. PICK t \in Threads, n \in Runs :
            at[t] = "wait" /\ gor[n] = "task" /\ at[n] \in {"lock", "wait"}
    BY DEF Deadlocked
  <2>2. /\ mu = t /\ mu # NoOne /\ Live # {} /\ n \in Threads
        /\ \A u \in Threads : at[u] # "body"
    BY <2>1, CallersAssumption DEF SInv, Mutex, Live, Threads
  <2>3. SUFFICES at'[t] = "wait" /\ gor'[n] = "task" /\ at'[n] \in {"lock", "wait"}
    BY <2>1 DEF Deadlocked
  <2>4. ASSUME NEW u \in Threads,
               \/ \E method \in {"Start", "Stop", "IsRunning"} : Invoke(u, method)
               \/ Lock(u) \/ Start(u) \/ Stop(u) \/ Waited(u) \/ IsRunning(u)
        PROVE  at'[t] = "wait" /\ gor'[n] = "task" /\ at'[n] \in {"lock", "wait"}
    <3>1. \E method \in {"Start", "Stop", "IsRunning"} : Invoke(u, method)
      BY <2>2, <2>4 DEF Lock, Start, Stop, Waited, IsRunning, Body
    <3> QED
      BY <2>1, <2>2, <3>1 DEF Invoke, SInv, TypeOK
  <2>5. ASSUME NEW m \in Runs, Fire(m) \/ RunTask(m) \/ TaskReturns(m) \/ Quit(m)
        PROVE  at'[t] = "wait" /\ gor'[n] = "task" /\ at'[n] \in {"lock", "wait"}
    BY <2>1, <2>5 DEF Fire, RunTask, TaskReturns, Quit, SInv, TypeOK
  <2> QED
    BY <2>4, <2>5 DEF Next
<1> QED
  BY <1>1, SInvAlways, PTL DEF Spec

-------------------------------------------------------------------------------
(* The scheduler implements Switch.                                        *)

\* Only Stop waits.
WaitsInStop == \A t \in Threads : at[t] = "wait" => call[t] = "Stop"

LEMMA WaitsInStopAlways == Spec => []WaitsInStop
<1>1. Init => WaitsInStop
  BY DEF Init, WaitsInStop
<1>2. SInv /\ WaitsInStop /\ [Next]_vars => WaitsInStop'
  <2> SUFFICES ASSUME SInv, WaitsInStop, [Next]_vars
               PROVE  WaitsInStop'
    OBVIOUS
  <2> USE DEF SInv, TypeOK, WaitsInStop
  <2>1. CASE UNCHANGED vars
    BY <2>1 DEF vars
  <2>2. ASSUME NEW t \in Threads,
               \/ \E method \in {"Start", "Stop", "IsRunning"} : Invoke(t, method)
               \/ Lock(t) \/ Start(t) \/ Waited(t) \/ IsRunning(t)
        PROVE  WaitsInStop'
    BY <2>2 DEF Invoke, Lock, Start, Waited, IsRunning, Body, Return
  <2>3. ASSUME NEW t \in Threads, Stop(t)
        PROVE  WaitsInStop'
    BY <2>3 DEF Stop, Body, Return
  <2>4. ASSUME NEW n \in Runs, Fire(n) \/ RunTask(n) \/ TaskReturns(n) \/ Quit(n)
        PROVE  WaitsInStop'
    BY <2>4 DEF Fire, RunTask, TaskReturns, Quit
  <2> QED
    BY <2>1, <2>2, <2>3, <2>4 DEF Next
<1> QED
  BY <1>1, <1>2, SInvAlways, PTL DEF Spec

\* The state of the switch.
Busy == \E n \in Runs : gor[n] = "task"

Pending == [t \in Threads |-> IF at[t] = "out" THEN "none" ELSE call[t]]

\* What the mapping makes of a step in terms of the two definitions above.
LEMMA Returns ==
  ASSUME SInv, NEW t \in Threads, at[t] # "out", Return(t), UNCHANGED <<gor, call>>
  PROVE  Pending[t] = call[t] /\ Pending' = [Pending EXCEPT ![t] = "none"] /\ Busy' = Busy
<1>1. \A u \in Threads : at'[u] = IF u = t THEN "out" ELSE at[u]
  BY DEF Return, SInv, TypeOK
<1> QED
  BY <1>1 DEF Pending, Busy

LEMMA SwitchCall ==
  ASSUME SInv, NEW t \in Threads, NEW method \in {"Start", "Stop", "IsRunning"},
         Invoke(t, method)
  PROVE  Abstract!Call(t, method)
<1>1. /\ at[t] = "out" /\ at' = [at EXCEPT ![t] = "lock"]
      /\ call' = [call EXCEPT ![t] = method]
  BY DEF Invoke
<1>2. at \in [Threads -> {"out", "lock", "body", "wait"}] /\ DOMAIN call = Threads
  BY DEF SInv, TypeOK
<1>3. Pending[t] = "none" /\ Pending' = [Pending EXCEPT ![t] = method]
  BY <1>1, <1>2 DEF Pending
<1>4. UNCHANGED <<running, gor>> /\ Busy' = Busy
  BY DEF Invoke, Busy
<1> QED
  BY <1>3, <1>4 DEF Abstract!Call, Pending, Busy

LEMMA SwitchLock ==
  ASSUME SInv, NEW t \in Threads, Lock(t)
  PROVE  UNCHANGED Abstract!vars
<1>1. \A u \in Threads : at[u] = "out" <=> at'[u] = "out"
  BY DEF Lock, SInv, TypeOK
<1> QED
  BY <1>1 DEF Lock, Abstract!vars

LEMMA SwitchStart ==
  ASSUME SInv, NEW t \in Threads, Start(t)
  PROVE  Abstract!Start(t)
<1>1. at[t] = "body" /\ call[t] = "Start" /\ Return(t) /\ call' = call /\ running' = TRUE
  BY DEF Start, Body, SInv, TypeOK
<1>2. \A u \in Threads : at'[u] = IF u = t THEN "out" ELSE at[u]
  BY <1>1 DEF Return, SInv, TypeOK
<1>3. Pending[t] = "Start" /\ Pending' = [Pending EXCEPT ![t] = "none"]
  BY <1>1, <1>2 DEF Pending
<1>4. Busy' = Busy
  <2>1. CASE running
    BY <2>1 DEF Start, Busy
  <2>2. CASE ~ running
    <3>1. \A n \in Runs : gor[n] # "task"
      BY <2>2 DEF SInv, QuietWhenStopped, Live
    <3>2. \A n \in Runs : gor'[n] # "task"
      BY <2>2, <3>1 DEF Start, SInv, TypeOK
    <3> QED
      BY <3>1, <3>2 DEF Busy
  <2> QED
    BY <2>1, <2>2
<1> QED
  BY <1>1, <1>3, <1>4 DEF Abstract!Start, Abstract!End, Pending, Busy

\* Stop has its effect when it returns: at once, or after it has waited.
LEMMA SwitchStop ==
  ASSUME SInv, WaitsInStop, NEW t \in Threads, Stop(t) \/ Waited(t)
  PROVE  Abstract!Stop(t) \/ UNCHANGED Abstract!vars
<1>1. CASE Stop(t) /\ running
  <2>1. at[t] = "body" /\ at' = [at EXCEPT ![t] = "wait"] /\ UNCHANGED <<running, gor, call>>
    BY <1>1 DEF Stop, Body
  <2>2. \A u \in Threads : at[u] = "out" <=> at'[u] = "out"
    BY <2>1 DEF SInv, TypeOK
  <2> QED
    BY <2>1, <2>2 DEF Abstract!vars
<1>2. CASE (Stop(t) /\ ~ running) \/ Waited(t)
  <2>1. /\ at[t] # "out" /\ call[t] = "Stop" /\ Return(t)
        /\ Live = {} /\ running' = FALSE /\ UNCHANGED <<gor, call>>
    BY <1>2 DEF Stop, Waited, Body, SInv, QuietWhenStopped, WaitsInStop
  <2>2. ~ Busy
    BY <2>1 DEF Busy, Live
  <2>3. Pending[t] = "Stop" /\ Pending' = [Pending EXCEPT ![t] = "none"] /\ Busy' = Busy
    BY <2>1, Returns
  <2> QED
    BY <2>1, <2>2, <2>3 DEF Abstract!Stop, Abstract!End, Pending, Busy
<1> QED
  BY <1>1, <1>2

LEMMA SwitchIsRunning ==
  ASSUME SInv, NEW t \in Threads, IsRunning(t)
  PROVE  Abstract!IsRunning(t)
<1>1. at[t] # "out" /\ call[t] = "IsRunning" /\ Return(t) /\ UNCHANGED <<running, gor, call>>
  BY DEF IsRunning, Body
<1>2. Pending[t] = "IsRunning" /\ Pending' = [Pending EXCEPT ![t] = "none"] /\ Busy' = Busy
  BY <1>1, Returns
<1> QED
  BY <1>1, <1>2 DEF Abstract!IsRunning, Abstract!End, Pending, Busy

\* A task begins on the last goroutine, which is there only while the switch is on.
LEMMA SwitchRuns ==
  ASSUME SInv, NEW n \in Runs, Fire(n) \/ RunTask(n) \/ TaskReturns(n) \/ Quit(n)
  PROVE  Abstract!Work \/ Abstract!Rest \/ UNCHANGED Abstract!vars
<1>1. UNCHANGED <<running, call, at>> /\ Pending' = Pending
  BY DEF Fire, RunTask, TaskReturns, Quit, Pending
<1>2. CASE Fire(n)
  BY <1>1, <1>2 DEF Fire, Abstract!vars
<1>3. CASE RunTask(n)
  <2>1. n \in Live /\ \A m \in Runs : m # n => gor[m] # "task"
    BY <1>3 DEF RunTask, Live, SInv, OnlyLast
  <2>2. running = TRUE
    BY <2>1 DEF SInv, QuietWhenStopped, TypeOK
  <2>3. gor[n] = "select" /\ gor' = [gor EXCEPT ![n] = "task"] /\ gor'[n] = "task"
    BY <1>3 DEF RunTask, SInv, TypeOK
  <2>4. ~ Busy /\ Busy'
    BY <2>1, <2>3 DEF Busy
  <2> QED
    BY <1>1, <2>2, <2>4 DEF Abstract!Work, Busy, Pending
<1>4. CASE TaskReturns(n)
  <2>1. gor[n] = "task" /\ \A m \in Runs : m # n => gor[m] # "task"
    BY <1>4 DEF TaskReturns, SInv, OnlyLast
  <2>2. \A m \in Runs : gor'[m] = IF m = n THEN "select" ELSE gor[m]
    BY <1>4 DEF TaskReturns, SInv, TypeOK
  <2>3. Busy /\ ~ Busy'
    BY <2>1, <2>2 DEF Busy
  <2> QED
    BY <1>1, <2>3 DEF Abstract!Rest, Busy, Pending
<1>5. CASE Quit(n)
  <2>1. \A m \in Runs : gor[m] = "task" <=> gor'[m] = "task"
    BY <1>5 DEF Quit, SInv, TypeOK
  <2> QED
    BY <1>1, <2>1 DEF Abstract!vars, Pending
<1> QED
  BY <1>2, <1>3, <1>4, <1>5

LEMMA SwitchStep == SInv /\ WaitsInStop /\ [Next]_vars => [Abstract!Next]_(Abstract!vars)
<1> SUFFICES ASSUME SInv, WaitsInStop, [Next]_vars
             PROVE  Abstract!Next \/ UNCHANGED Abstract!vars
  OBVIOUS
<1>1. CASE UNCHANGED vars
  BY <1>1 DEF vars, Abstract!vars
<1>2. ASSUME NEW t \in Threads,
             \/ \E method \in {"Start", "Stop", "IsRunning"} : Invoke(t, method)
             \/ Lock(t) \/ Start(t) \/ Stop(t) \/ Waited(t) \/ IsRunning(t)
      PROVE  Abstract!Next \/ UNCHANGED Abstract!vars
  <2>1. \/ \E method \in {"Start", "Stop", "IsRunning"} : Abstract!Call(t, method)
        \/ Abstract!Start(t) \/ Abstract!Stop(t) \/ Abstract!IsRunning(t)
        \/ UNCHANGED Abstract!vars
    BY <1>2, SwitchCall, SwitchLock, SwitchStart, SwitchStop, SwitchIsRunning
  <2> QED
    BY <2>1 DEF Abstract!Next
<1>3. ASSUME NEW n \in Runs, Fire(n) \/ RunTask(n) \/ TaskReturns(n) \/ Quit(n)
      PROVE  Abstract!Next \/ UNCHANGED Abstract!vars
  BY <1>3, SwitchRuns DEF Abstract!Next
<1> QED
  BY <1>1, <1>2, <1>3 DEF Next

\* Every behaviour of the scheduler is one of an indivisible switch, for any number
\* of callers and for a task that calls the scheduler in any way.
THEOREM SchedulerIsSwitch == Spec => IsSwitch
<1>1. Init => Abstract!Init
  BY DEF Init, Abstract!Init
<1> QED
  BY <1>1, SwitchStep, SInvAlways, WaitsInStopAlways, PTL DEF Spec, IsSwitch, Abstract!Spec

===============================================================================
