------------------------------- MODULE Register -------------------------------
(***************************************************************************)
(* What MultiCache promises one client about one key, whatever the levels  *)
(* drop and however often the process ends: a register that forgets.  A    *)
(* Get answers what the register keeps; what has been replaced, deleted or *)
(* forgotten never comes back.  A call cut short by the end of the process *)
(* has had its effect or has not.                                          *)
(***************************************************************************)
EXTENDS Integers

VARIABLES
    value,          \* the number of the Set whose value is kept, 0 if none is
    sets,           \* Sets called so far
    pending,        \* the call under way: "none", "get", "set", "delete"
    answer,         \* what the last call answered, if it was a Get
    over            \* the Sets that a later Set or Delete has replaced for good

vars == <<value, sets, pending, answer, over>>

Init ==
    /\ value = 0
    /\ sets = 0
    /\ pending = "none"
    /\ answer = 0
    /\ over = {}

Call(method) ==
    /\ pending = "none"
    /\ pending' = method
    /\ sets' = IF method = "set" THEN sets + 1 ELSE sets
    /\ answer' = 0
    /\ UNCHANGED <<value, over>>

End(method) ==
    /\ pending = method
    /\ pending' = "none"
    /\ UNCHANGED sets

Get == End("get") /\ answer' = value /\ UNCHANGED <<value, over>>

Set ==
    /\ End("set")
    /\ value' \in {sets, 0}
    /\ over' = 1 .. sets - 1
    /\ UNCHANGED answer

Delete ==
    /\ End("delete")
    /\ value' = 0
    /\ over' = 1..sets
    /\ UNCHANGED answer

Forget == value' = 0 /\ UNCHANGED <<sets, pending, answer, over>>

Crash ==
    /\ pending' = "none"
    /\ answer' = 0
    /\ value' \in {value, 0} \cup (IF pending = "set" THEN {sets} ELSE {})
    /\ UNCHANGED <<sets, over>>

Next ==
    \/ \E method \in {"get", "set", "delete"} : Call(method)
    \/ Get \/ Set \/ Delete
    \/ Forget \/ Crash

Spec == Init /\ [][Next]_vars

===============================================================================
