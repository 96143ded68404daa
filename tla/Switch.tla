-------------------------------- MODULE Switch --------------------------------
(***************************************************************************)
(* What Scheduler promises, without its mutex, its goroutines and their    *)
(* contexts: a switch.  Each call takes effect at one moment between its   *)
(* begin and its end, which is its end; work is done, one piece at a time, *)
(* only while the switch is on, and it is not turned off in the middle of  *)
(* a piece.                                                                *)
(***************************************************************************)
CONSTANTS Users

VARIABLES
    on,
    busy,           \* is a piece of work being done?
    pending         \* pending[u]: the call u has made that has not ended

vars == <<on, busy, pending>>

Init ==
    /\ on = FALSE
    /\ busy = FALSE
    /\ pending = [u \in Users |-> "none"]

Call(u, method) ==
    /\ pending[u] = "none"
    /\ pending' = [pending EXCEPT ![u] = method]
    /\ UNCHANGED <<on, busy>>

End(u, method) ==
    /\ pending[u] = method
    /\ pending' = [pending EXCEPT ![u] = "none"]
    /\ UNCHANGED busy

Start(u) == End(u, "Start") /\ on' = TRUE

Stop(u) == End(u, "Stop") /\ ~ busy /\ on' = FALSE

IsRunning(u) == End(u, "IsRunning") /\ UNCHANGED on

Work == on /\ ~ busy /\ busy' = TRUE /\ UNCHANGED <<on, pending>>

Rest == busy /\ busy' = FALSE /\ UNCHANGED <<on, pending>>

Next ==
    \/ \E u \in Users :
          \/ \E method \in {"Start", "Stop", "IsRunning"} : Call(u, method)
          \/ Start(u) \/ Stop(u) \/ IsRunning(u)
    \/ Work \/ Rest

Spec == Init /\ [][Next]_vars

===============================================================================
