----------------------------- MODULE KeyedRequest -----------------------------
(***************************************************************************)
(* One request served with TryWithKeys (apikeys/rotator.go), by an         *)
(* executor that calls ExecuteRequest (httpclient/client.go) for the key   *)
(* it is given, in the context of the request.  A key fails when a whole   *)
(* ExecuteRequest has failed, its retries included.                        *)
(***************************************************************************)
EXTENDS HTTPClient

CONSTANTS
    Keys,
    EmptyKey,       \* the key "": a request without one
    KeyLists        \* what GetAvailableKeys may have returned

ASSUME KeyListsAssumption ==
    EmptyKey \notin Keys /\ KeyLists \subseteq Seq(Keys \cup {EmptyKey})

VARIABLES
    availableKeys,
    i,              \* the position of the key being tried
    outcome,        \* "trying" until TryWithKeys has returned
    marked,         \* the keys given to MarkKeyAsFailed, in this order
    load,           \* history: requests sent with each of the keys before i
    begunLate,      \* history: positions whose turn came when the context had ended
    late            \* history: waits between attempts that began after that

keyVars == <<availableKeys, i, outcome, marked, load, begunLate, late>>

-------------------------------------------------------------------------------
KeyedInit ==
    /\ Init
    /\ availableKeys \in KeyLists
    /\ i = 1
    /\ outcome = "trying"
    /\ marked = <<>>
    /\ load = <<>>
    /\ begunLate = {}
    /\ late = 0

\* The executor, in ExecuteRequest.
Executor ==
    /\ outcome = "trying" /\ i <= Len(availableKeys)
    /\ BeginAttempt \/ AllAttemptsFailed \/ RateLimiterWait \/ Do \/ ProcessResponse
    /\ late' = IF cancelled /\ retries' # retries THEN late + 1 ELSE late
    /\ UNCHANGED <<availableKeys, i, outcome, marked, load, begunLate>>

Return(result) ==
    /\ outcome = "trying"
    /\ outcome' = result
    /\ UNCHANGED <<availableKeys, i, marked, load, begunLate, late, vars>>

\* The variables of the next ExecuteRequest.
NewExecuteRequest ==
    /\ pc' = "loop" /\ attempt' = 0
    /\ sent' = <<>> /\ reports' = <<>> /\ retries' = 0 /\ slept' = 0 /\ tokens' = 0
    /\ UNCHANGED <<base, limited, cancelled, bodyOpen>>

\* Mutant: the key of the next turn is marked.
OnFailedNextKey ==
    /\ outcome = "trying" /\ pc = "failed"
    /\ marked' = IF i = Len(availableKeys) \/ availableKeys[i + 1] = EmptyKey THEN marked
                 ELSE Append(marked, availableKeys[i + 1])
    /\ load' = Append(load, Len(sent))
    /\ i' = i + 1
    /\ begunLate' = IF cancelled THEN begunLate \cup {i + 1} ELSE begunLate
    /\ NewExecuteRequest
    /\ UNCHANGED <<availableKeys, outcome, late>>

\* The executor has returned an error: the callback of CreateFailCallback gets the
\* key and the next one has its turn.
OnFailed ==
    /\ outcome = "trying" /\ pc = "failed"
    /\ marked' = IF availableKeys[i] = EmptyKey THEN marked
                 ELSE Append(marked, availableKeys[i])
    /\ load' = Append(load, Len(sent))
    /\ i' = i + 1
    /\ begunLate' = IF cancelled THEN begunLate \cup {i + 1} ELSE begunLate
    /\ NewExecuteRequest
    /\ UNCHANGED <<availableKeys, outcome, late>>

\* A panic of the executor is the end of TryWithKeys as well.
TryWithKeysReturns ==
    \/ pc = "ok" /\ Return("success")
    \/ pc = "panic" /\ Return("panic")
    \/ i > Len(availableKeys) /\ Return("all keys failed")

KeyedNext ==
    \/ Executor \/ OnFailed \/ TryWithKeysReturns
    \/ outcome = "trying" /\ Cancel /\ UNCHANGED keyVars

KeyedSpec == KeyedInit /\ [][KeyedNext]_<<vars, keyVars>>

-------------------------------------------------------------------------------
(* Properties.                                                             *)

\* Positions in the list whose turn is over and that have a key to mark.
TurnsWithKey == {n \in 1 .. i - 1 : availableKeys[n] # EmptyKey}

\* Whatever became of the attempts in between, every key whose turn is over without
\* success is marked, in the order of the list, and no other is.  A key whose turn
\* came after the cancellation is marked too, but if requests are limited nothing
\* has been sent with it; otherwise the key's failure is worth MaxRetries requests
\* at most.
MarkedInTurn ==
    /\ \E turn \in [DOMAIN marked -> TurnsWithKey] :
          /\ \A n \in TurnsWithKey : \E m \in DOMAIN marked : turn[m] = n
          /\ \A m, n \in DOMAIN marked : m < n => turn[m] < turn[n]
          /\ \A m \in DOMAIN marked : marked[m] = availableKeys[turn[m]]
    /\ Len(load) = i - 1
    /\ \A n \in DOMAIN load :
          load[n] <= IF limited /\ n \in begunLate THEN 0 ELSE MaxRetries
    /\ outcome = "all keys failed" => i = Len(availableKeys) + 1

\* A cancelled request gives up soon, however many keys are left: with a limiter
\* there is at most one more wait between two attempts, since the limiter looks at
\* the context before every attempt.  Without a limiter nothing does but Client.Do,
\* and the waits of all keys remain.
CancelledSoon ==
    LET waitsOfOneKey == IF MaxRetries = 0 THEN 0 ELSE MaxRetries - 1
    IN late <= IF limited THEN 1 ELSE waitsOfOneKey * Len(availableKeys)

===============================================================================
