----------------------------- MODULE LimiterTable -----------------------------
(***************************************************************************)
(* What RateLimiterManager promises: a table with one token bucket for     *)
(* each key of a type.  Asking for a bucket is one indivisible step, in    *)
(* which a missing one is made; a new configuration empties the table.     *)
(***************************************************************************)
EXTENDS Naturals

CONSTANTS Keys, KeyTypes

Pairs == Keys \X KeyTypes

VARIABLES
    table,          \* table[p]: the number of the bucket of p, 0 if there is none
    made,           \* buckets made so far
    epoch,          \* configurations given so far
    answers         \* the buckets that were handed out, to whom and when

vars == <<table, made, epoch, answers>>

Init ==
    /\ table = [p \in Pairs |-> 0]
    /\ made = 0
    /\ epoch = 0
    /\ answers = {}

GetLimiter(p) ==
    /\ \/ table[p] # 0 /\ UNCHANGED <<table, made>>
       \/ /\ table[p] = 0
          /\ made' = made + 1
          /\ table' = [table EXCEPT ![p] = made']
    /\ answers' = answers \cup {[key |-> p[1], type |-> p[2], lim |-> table'[p],
                                 epoch |-> epoch]}
    /\ UNCHANGED epoch

SetConfig ==
    /\ table' = [p \in Pairs |-> 0]
    /\ epoch' = epoch + 1
    /\ UNCHANGED <<made, answers>>

Next == SetConfig \/ \E p \in Pairs : GetLimiter(p)

Spec == Init /\ [][Next]_vars

===============================================================================
