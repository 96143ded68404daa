------------------------------- MODULE Scheduler -------------------------------
(***************************************************************************)
(* The periodic task runner (scheduler/scheduler.go), on which BigCache    *)
(* runs its metrics.  Callers start it, stop it and ask about it under one *)
(* mutex; each Start makes a goroutine that selects between its ticker and *)
(* the cancellation of its context.  Stop waits for that goroutine with    *)
(* the mutex held.  The task may itself call the scheduler.                *)
(***************************************************************************)
EXTENDS Integers, FiniteSets

CONSTANTS
    Callers,        \* goroutines that use the scheduler
    TaskCalls,      \* what the task itself calls: "Start", "Stop", "IsRunning"
    MaxRuns,        \* bound: goroutines started
    NoOne           \* the mutex is free

Runs == 1..MaxRuns

\* A run is also a caller, while it executes the task.
Threads == Callers \cup Runs

ASSUME CallersAssumption ==
    /\ MaxRuns \in Nat
    /\ Callers \cap Nat = {}
    /\ NoOne \notin Threads
    /\ TaskCalls \subseteq {"Start", "Stop", "IsRunning"}

VARIABLES
    mu,             \* the thread that holds s.mu
    running,        \* s.running
    runs,           \* runs started so far; s.cancel cancels the last of them
    cancelled,      \* runs whose context is cancelled
    gor,            \* gor[n]: what run n does
    tick,           \* tick[n]: is there a tick in the channel of its ticker?
    call,           \* call[t]: the method t last called
    at              \* at[t]: how far t is in it

vars == <<mu, running, runs, cancelled, gor, tick, call, at>>

\* The goroutines s.wg counts.
Live == {n \in Runs : gor[n] \in {"select", "task"}}

Init ==
    /\ mu = NoOne
    /\ running = FALSE
    /\ runs = 0
    /\ cancelled = {}
    /\ gor = [n \in Runs |-> "unborn"]
    /\ tick = [n \in Runs |-> FALSE]
    /\ call = [t \in Threads |-> "IsRunning"]
    /\ at = [t \in Threads |-> "out"]

-------------------------------------------------------------------------------
(* The methods.                                                            *)

Starting == {t \in Threads : at[t] \in {"lock", "body"} /\ call[t] = "Start"}

Invoke(t, method) ==
    /\ at[t] = "out"
    /\ t \in Runs => gor[t] = "task" /\ method \in TaskCalls
    /\ method = "Start" => runs + Cardinality(Starting) < MaxRuns
    /\ call' = [call EXCEPT ![t] = method]
    /\ at' = [at EXCEPT ![t] = "lock"]
    /\ UNCHANGED <<mu, running, runs, cancelled, gor, tick>>

Lock(t) ==
    /\ at[t] = "lock"
    /\ mu = NoOne
    /\ mu' = t
    /\ at' = [at EXCEPT ![t] = "body"]
    /\ UNCHANGED <<running, runs, cancelled, gor, tick, call>>

Body(t, method) == at[t] = "body" /\ call[t] = method

Return(t) ==
    /\ mu' = NoOne
    /\ at' = [at EXCEPT ![t] = "out"]

\* Mutant: running is not looked at.
StartAgain(t) ==
    /\ Body(t, "Start")
    /\ Return(t)
    /\ runs < MaxRuns
    /\ runs' = runs + 1
    /\ running' = TRUE
    /\ gor' = [gor EXCEPT ![runs + 1] = "select"]
    /\ UNCHANGED <<cancelled, tick, call>>

Start(t) ==
    /\ Body(t, "Start")
    /\ Return(t)
    /\ IF running
       THEN UNCHANGED <<running, runs, gor>>
       ELSE /\ runs < MaxRuns
            /\ runs' = runs + 1
            /\ running' = TRUE
            /\ gor' = [gor EXCEPT ![runs + 1] = "select"]
    /\ UNCHANGED <<cancelled, tick, call>>

\* Mutant: the context cancelled is that of the next run.
StopNext(t) ==
    /\ Body(t, "Stop")
    /\ IF running
       THEN /\ cancelled' = cancelled \cup {runs + 1}
            /\ at' = [at EXCEPT ![t] = "wait"]
            /\ UNCHANGED mu
       ELSE /\ Return(t)
            /\ UNCHANGED cancelled
    /\ UNCHANGED <<running, runs, gor, tick, call>>

\* Mutant: Stop returns as soon as it has cancelled the context.
StopAtOnce(t) ==
    /\ Body(t, "Stop")
    /\ Return(t)
    /\ cancelled' = IF running THEN cancelled \cup {runs} ELSE cancelled
    /\ running' = FALSE
    /\ UNCHANGED <<runs, gor, tick, call>>

\* Mutant: nobody sees that the scheduler has been stopped.
StopSilent(t) ==
    /\ Body(t, "Stop")
    /\ Return(t)
    /\ cancelled' = IF running THEN cancelled \cup {runs} ELSE cancelled
    /\ UNCHANGED <<running, runs, gor, tick, call>>

\* Stop, up to s.wg.Wait().
Stop(t) ==
    /\ Body(t, "Stop")
    /\ IF running
       THEN /\ cancelled' = cancelled \cup {runs}
            /\ at' = [at EXCEPT ![t] = "wait"]
            /\ UNCHANGED mu
       ELSE /\ Return(t)
            /\ UNCHANGED cancelled
    /\ UNCHANGED <<running, runs, gor, tick, call>>

\* Mutant: only a goroutine that waits for its next tick is waited for.
WaitedNotForTask(t) ==
    /\ at[t] = "wait"
    /\ \A n \in Runs : gor[n] # "select"
    /\ running' = FALSE
    /\ Return(t)
    /\ UNCHANGED <<runs, cancelled, gor, tick, call>>

\* s.wg.Wait() and what Stop does after it.
Waited(t) ==
    /\ at[t] = "wait"
    /\ Live = {}
    /\ running' = FALSE
    /\ Return(t)
    /\ UNCHANGED <<runs, cancelled, gor, tick, call>>

IsRunning(t) ==
    /\ Body(t, "IsRunning")
    /\ Return(t)
    /\ UNCHANGED <<running, runs, cancelled, gor, tick, call>>

-------------------------------------------------------------------------------
(* The goroutine of run n, and its ticker.                                 *)

\* A tick that finds another one waiting is dropped.
Fire(n) ==
    /\ n \in Live
    /\ ~ tick[n]
    /\ tick' = [tick EXCEPT ![n] = TRUE]
    /\ UNCHANGED <<mu, running, runs, cancelled, gor, call, at>>

\* Mutant: the tick is not taken out of the channel.
RunTaskKeepsTick(n) ==
    /\ gor[n] = "select"
    /\ tick[n]
    /\ gor' = [gor EXCEPT ![n] = "task"]
    /\ UNCHANGED <<mu, running, runs, cancelled, tick, call, at>>

\* With both cases of the select ready, either may be taken.
RunTask(n) ==
    /\ gor[n] = "select"
    /\ tick[n]
    /\ tick' = [tick EXCEPT ![n] = FALSE]
    /\ gor' = [gor EXCEPT ![n] = "task"]
    /\ UNCHANGED <<mu, running, runs, cancelled, call, at>>

TaskReturns(n) ==
    /\ gor[n] = "task"
    /\ at[n] = "out"
    /\ gor' = [gor EXCEPT ![n] = "select"]
    /\ UNCHANGED <<mu, running, runs, cancelled, tick, call, at>>

\* Mutant: a cancelled context does not end the loop.
QuitNever(n) == FALSE /\ UNCHANGED vars

Quit(n) ==
    /\ gor[n] = "select"
    /\ n \in cancelled
    /\ gor' = [gor EXCEPT ![n] = "done"]
    /\ UNCHANGED <<mu, running, runs, cancelled, tick, call, at>>

-------------------------------------------------------------------------------
Next ==
    \/ \E t \in Threads :
          \/ \E method \in {"Start", "Stop", "IsRunning"} : Invoke(t, method)
          \/ Lock(t) \/ Start(t) \/ Stop(t) \/ Waited(t) \/ IsRunning(t)
    \/ \E n \in Runs : Fire(n) \/ RunTask(n) \/ TaskReturns(n) \/ Quit(n)

Spec == Init /\ [][Next]_vars

\* sync.Mutex lets no waiter starve; who holds it goes on; select chooses at random
\* among the cases that are ready; the task returns after some calls.  One thread
\* at most is in a body and one goroutine alive, so fairness to whichever it is
\* is fairness to each.
Fairness ==
    /\ \A t \in Threads : SF_vars(Lock(t))
    /\ WF_vars(\E t \in Threads : Start(t) \/ Stop(t) \/ Waited(t) \/ IsRunning(t))
    /\ SF_vars(\E n \in Runs : Quit(n))
    /\ SF_vars(\E n \in Runs : RunTask(n))
    /\ SF_vars(\E n \in Runs : TaskReturns(n))

FairSpec == Spec /\ Fairness

-------------------------------------------------------------------------------
(* Properties.                                                             *)

\* Types of the variables; only contexts of runs that were started are cancelled.
TypeOK ==
    /\ mu \in Threads \cup {NoOne}
    /\ running \in BOOLEAN
    /\ runs \in 0..MaxRuns
    /\ cancelled \subseteq 1..runs
    /\ gor \in [Runs -> {"unborn", "select", "task", "done"}]
    /\ tick \in [Runs -> BOOLEAN]
    /\ call \in [Threads -> {"Start", "Stop", "IsRunning"}]
    /\ at \in [Threads -> {"out", "lock", "body", "wait"}]

\* Over any number of Start and Stop calls from any number of goroutines, the
\* task never runs twice at the same time.
NoOverlap == \A m, n \in Live : m = n

\* Once Stop has returned no goroutine of the scheduler is left, so the task does
\* not run again until the next Start.
QuietWhenStopped == ~ running => Live = {}

\* What IsRunning reports is so: outside Stop, a scheduler that says it runs has
\* its goroutine, and nothing has told that goroutine to end.
RunningIsTrue ==
    running /\ (\A t \in Threads : at[t] # "wait") =>
        /\ Live = {runs}
        /\ runs \notin cancelled

\* A Stop waits, with the mutex held, for a task that waits for the mutex, or for
\* the task it is called from.
Deadlocked ==
    \E t \in Threads, n \in Runs :
        at[t] = "wait" /\ gor[n] = "task" /\ at[n] \in {"lock", "wait"}

\* Start, Stop and IsRunning return, unless a Stop waits for a task that is itself in
\* a call of the scheduler: then neither ends, and no later call returns.  Nothing
\* else ever holds a call up.
CallsReturn == \A t \in Callers : at[t] # "out" ~> (at[t] = "out" \/ Deadlocked)

\* A tick that has fired is acted on, or the run ends, or that deadlock has come.
TickServed ==
    \A n \in Runs : tick[n] ~> (~ tick[n] \/ gor[n] = "done" \/ Deadlocked)

\* The switch that the scheduler is to its users, the task among them.
Abstract == INSTANCE Switch WITH
    Users <- Threads,
    on <- running,
    busy <- \E n \in Runs : gor[n] = "task",
    pending <- [t \in Threads |-> IF at[t] = "out" THEN "none" ELSE call[t]]

\* However calls, ticks and the end of the goroutine interleave, Start, Stop and
\* IsRunning act like an indivisible switch: no task begins while it is off, two
\* never overlap, and a Stop does not return in the middle of one.
IsSwitch == Abstract!Spec

===============================================================================
