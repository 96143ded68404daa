---------------------------- MODULE CacheAsRegister ----------------------------
(***************************************************************************)
(* The register that the levels of MultiCache are to a client that is      *)
(* alone with them and uses one key: the state of Register, read off the   *)
(* levels and the call under way.                                          *)
(***************************************************************************)
EXTENDS MultiCache

CONSTANTS client, key

ASSUME RegisterAssumption == client \in Clients /\ key \in Keys

\* One client, a KeyDB that answers, and no value over the size limit: with two
\* clients, a failing KeyDB or a large value a Get may return what was replaced
\* (the runs multi_delete_race and multi_oversize).
Alone ==
    /\ \A c, d \in Clients : c = d
    /\ ~ KeyDBFaults
    /\ TRUE \notin Sizes

\* When the process of a BigCache ends, at most one of the levels behind or before
\* it keeps its data, as with the one BigCache and the one KeyDB of the proxies:
\* if two did, a Set that is cut short between them would leave two values.
OneSurvives ==
    \A c \in Clients : \A l, i, j \in DOMAIN Chain[c] :
        /\ Chain[c][l] \in BigCaches
        /\ {Chain[c][i], Chain[c][j]} \cap ({Chain[c][l]} \cup NoOps) = {}
        => i = j

\* The client has a level, and calls with one key only.
OneKey == Keys = {key} /\ Chain[client] # <<>>

\* The Sets whose values the client may yet be answered, from a level or from a
\* propagation under way; without the one being made.
Answerable ==
    LET call == op[client]
        stored == UNION {EntriesAt(Chain[client][i], key) : i \in DOMAIN Chain[client]}
        promoted == IF call.pc = "promote" THEN {call.ent} ELSE {}
        values == {e.data : e \in {f \in stored \cup promoted : ~ IsExpired(f, now)}}
    IN CASE call.pc = "fill"  -> values \cup {call.val}
         [] call.pc = "write" -> values \ {call.val}
         [] OTHER             -> values

\* One value, or none; two at once would be no register (and no number of a Set).
TheOne(values) ==
    IF values = {} THEN 0
    ELSE IF \E v \in values : values = {v} THEN CHOOSE v \in values : TRUE
    ELSE MaxWrites + 1

Kept == TheOne(Answerable)

Pending ==
    CASE op[client].pc \in {"probe", "drop"} -> "get"
      [] op[client].pc = "write" -> "set"
      [] op[client].pc = "erase" -> "delete"
      [] OTHER -> "none"

Found == IF op[client].ent = NoEntry THEN 0 ELSE op[client].ent.data

RegisterOfClient == INSTANCE Register WITH
    value <- Kept,
    sets <- Len(writes),
    pending <- Pending,
    answer <- Found,
    over <- dead

\* To a client that is alone with a key, the levels together are one register:
\* a Get answers the last Set or nothing, and a value that a Get has missed,
\* expired or was dropped, does not come back, whatever is promoted and however
\* levels lose, corrupt or expire their copies.
IsRegister == RegisterOfClient!Spec

===============================================================================
